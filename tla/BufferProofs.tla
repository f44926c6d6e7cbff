---------------------------- MODULE BufferProofs ----------------------------
(***************************************************************************)
(* Theorems about Buffer for any bytes, initial size and bounds.           *)
(***************************************************************************)
EXTENDS Buffer, SequenceTheorems, WellFoundedInduction, TLAPS

-----------------------------------------------------------------------------
(***************************************************************************)
(* Sequences.                                                              *)
(***************************************************************************)
LEMMA FunctionIsSeq ==
    ASSUME NEW S, NEW n \in Nat, NEW f \in [1..n -> S]
    PROVE  f \in Seq(S) /\ Len(f) = n
OBVIOUS

\* What the environment writes.
LEMMA WritesBytes ==
    ASSUME NEW data \in BoundedSeq(Byte, MaxWrite)
    PROVE  data \in Seq(Byte)
<1>1. PICK n \in 0..MaxWrite : data \in [1..n -> Byte]
  BY DEF BoundedSeq, SeqOf
<1>2. n \in Nat
  BY BufferAssumption
<1> QED BY <1>1, <1>2, FunctionIsSeq

LEMMA CopiedProperties ==
    ASSUME NEW v \in Seq(Byte), NEW s \in Seq(Byte), NEW at \in Nat,
           at + Len(s) <= Len(v)
    PROVE  /\ Copied(v, at, s) \in Seq(Byte)
           /\ Len(Copied(v, at, s)) = Len(v)
           /\ \A i \in 1..Len(v) :
                 Copied(v, at, s)[i] = IF i \in at + 1..at + Len(s) THEN s[i - at] ELSE v[i]
<1> DEFINE byte(i) == IF i \in at + 1..at + Len(s) THEN s[i - at] ELSE v[i]
           f == [i \in 1..Len(v) |-> byte(i)]
<1>1. Len(v) \in Nat /\ Len(s) \in Nat
  BY LenProperties
<1>2. ASSUME NEW i \in 1..Len(v) PROVE byte(i) \in Byte
  <2>1. CASE i \in at + 1..at + Len(s)
    <3>1. i - at \in 1..Len(s)
      BY <2>1, <1>1
    <3> QED BY <2>1, <3>1, ElementOfSeq
  <2>2. CASE i \notin at + 1..at + Len(s)
    BY <2>2, ElementOfSeq
  <2> QED BY <2>1, <2>2
<1>3. f \in [1..Len(v) -> Byte]
  BY <1>2
<1>4. Copied(v, at, s) = f
  BY DEF Copied
<1>5. f \in Seq(Byte) /\ Len(f) = Len(v)
  BY <1>1, <1>3, FunctionIsSeq
<1> QED BY <1>4, <1>5

\* SubSeqProperties by offset: the bytes from offset r up to offset w.
LEMMA Stretch ==
    ASSUME NEW v \in Seq(Byte), NEW r \in Nat, NEW w \in Nat, r <= w, w <= Len(v)
    PROVE  /\ SubSeq(v, r + 1, w) \in Seq(Byte)
           /\ Len(SubSeq(v, r + 1, w)) = w - r
           /\ \A i \in 1..w - r : SubSeq(v, r + 1, w)[i] = v[r + i]
<1> DEFINE m == r + 1
           old == SubSeq(v, m, w)
<1>1. Len(v) \in Nat /\ m \in Int /\ w \in Int
  BY LenProperties
<1>2. \A i \in m..w : v[i] \in Byte
  BY <1>1, ElementOfSeq
<1>3. /\ old \in Seq(Byte)
      /\ Len(old) = IF m <= w THEN w - m + 1 ELSE 0
      /\ \A i \in 1..w - m + 1 : old[i] = v[m + i - 1]
  <2> HIDE DEF m
  <2> QED BY <1>1, <1>2, SubSeqProperties
<1> HIDE DEF old
<1>4. Len(old) = w - r
  BY <1>3
<1>5. ASSUME NEW i \in 1..w - r PROVE old[i] = v[r + i]
  <2>1. i \in 1..w - m + 1 /\ m + i - 1 = r + i
    OBVIOUS
  <2> QED BY <2>1, <1>3
<1> QED BY <1>3, <1>4, <1>5 DEF old

\* The bytes copied behind w follow those between r and w.
LEMMA CopyAppends ==
    ASSUME NEW v \in Seq(Byte), NEW s \in Seq(Byte), NEW r \in Nat, NEW w \in Nat,
           r <= w, w + Len(s) <= Len(v)
    PROVE  SubSeq(Copied(v, w, s), r + 1, w + Len(s)) = SubSeq(v, r + 1, w) \o s
<1> DEFINE c == Copied(v, w, s)
           n == w + Len(s)
           left == SubSeq(c, r + 1, n)
           old == SubSeq(v, r + 1, w)
<1>1. Len(v) \in Nat /\ Len(s) \in Nat /\ n \in Nat /\ r <= n /\ w <= Len(v)
  BY LenProperties
<1>2. /\ c \in Seq(Byte) /\ Len(c) = Len(v)
      /\ \A i \in 1..Len(v) : c[i] = IF i \in w + 1..n THEN s[i - w] ELSE v[i]
  BY CopiedProperties
<1> HIDE DEF c
<1>4. /\ left \in Seq(Byte)
      /\ Len(left) = n - r
      /\ \A i \in 1..n - r : left[i] = c[r + i]
  <2> n <= Len(c)
    BY <1>2
  <2> HIDE DEF n
  <2> QED BY <1>1, <1>2, Stretch
<1>5. /\ old \in Seq(Byte)
      /\ Len(old) = w - r
      /\ \A i \in 1..w - r : old[i] = v[r + i]
  BY <1>1, Stretch
<1> HIDE DEF left, old
<1>6. /\ old \o s \in Seq(Byte)
      /\ Len(old \o s) = Len(old) + Len(s)
      /\ \A i \in 1..Len(old) + Len(s) :
            (old \o s)[i] = IF i <= Len(old) THEN old[i] ELSE s[i - Len(old)]
  BY <1>5, ConcatProperties
<1>7. ASSUME NEW i \in 1..Len(left) PROVE left[i] = (old \o s)[i]
  <2>1. i \in 1..n - r /\ i \in 1..Len(old) + Len(s) /\ r + i \in 1..Len(v)
    BY <1>1, <1>4, <1>5
  <2>2. left[i] = c[r + i]
    BY <2>1, <1>4
  <2>3. CASE i <= w - r
    <3>1. r + i \notin w + 1..n
      BY <2>1, <2>3
    <3>2. c[r + i] = v[r + i] /\ i \in 1..w - r
      BY <2>1, <2>3, <3>1, <1>2
    <3>3. (old \o s)[i] = old[i]
      BY <2>1, <2>3, <1>5, <1>6
    <3> QED BY <2>2, <3>2, <3>3, <1>5
  <2>4. CASE ~(i <= w - r)
    <3>1. r + i \in w + 1..n /\ r + i - w = i - (w - r)
      BY <2>1, <2>4, <1>1
    <3>2. c[r + i] = s[i - (w - r)]
      BY <2>1, <3>1, <1>2
    <3>3. (old \o s)[i] = s[i - (w - r)]
      BY <2>1, <2>4, <1>5, <1>6
    <3> QED BY <2>2, <3>2, <3>3
  <2> QED BY <2>3, <2>4
<1>8. Len(left) = Len(old \o s)
  BY <1>1, <1>4, <1>5, <1>6
<1>9. left = old \o s
  BY <1>4, <1>6, <1>7, <1>8, SeqEqual
<1> QED BY <1>9 DEF left, old, c

\* Every nonempty set of numbers has a least one.
LEMMA MinIsLeast ==
    ASSUME NEW I \in SUBSET Nat, I # {}
    PROVE  Min(I) \in I /\ \A y \in I : Min(I) <= y
<1>1. PICK x \in I : \A y \in I : ~(<<y, x>> \in OpToRel(<, Nat))
  BY NatLessThanWellFounded, WFMin
<1>2. ASSUME NEW y \in I PROVE x <= y
  <2>1. ~(y < x)
    BY <1>1 DEF OpToRel
  <2> QED BY <2>1
<1> QED BY <1>2 DEF Min

-----------------------------------------------------------------------------
(***************************************************************************)
(* The operations.                                                         *)
(***************************************************************************)
\* A longer vector has the same bytes where the old one had any.
LEMMA GrowthKeeps ==
    ASSUME NEW v \in Seq(Byte), NEW pad \in Seq(Byte), NEW r \in Nat, NEW w \in Nat,
           r <= w, w <= Len(v)
    PROVE  SubSeq(v \o pad, r + 1, w) = SubSeq(v, r + 1, w)
<1> DEFINE new == SubSeq(v \o pad, r + 1, w)
           old == SubSeq(v, r + 1, w)
<1>1. /\ v \o pad \in Seq(Byte)
      /\ Len(v \o pad) = Len(v) + Len(pad)
      /\ \A i \in 1..Len(v) + Len(pad) :
            (v \o pad)[i] = IF i <= Len(v) THEN v[i] ELSE pad[i - Len(v)]
  BY ConcatProperties
<1>2. Len(v) \in Nat /\ Len(pad) \in Nat
  BY LenProperties
<1>3. /\ old \in Seq(Byte) /\ Len(old) = w - r
      /\ \A i \in 1..w - r : old[i] = v[r + i]
  BY Stretch
<1>4. /\ new \in Seq(Byte) /\ Len(new) = w - r
      /\ \A i \in 1..w - r : new[i] = (v \o pad)[r + i]
  <2>1. w <= Len(v \o pad)
    BY <1>1, <1>2
  <2> QED BY <2>1, <1>1, Stretch
<1> HIDE DEF old, new
<1>5. ASSUME NEW i \in 1..Len(new) PROVE new[i] = old[i]
  <2>1. i \in 1..w - r /\ r + i \in 1..Len(v) + Len(pad) /\ r + i <= Len(v)
    BY <1>2, <1>4
  <2>2. (v \o pad)[r + i] = v[r + i]
    BY <2>1, <1>1
  <2> QED BY <2>1, <2>2, <1>3, <1>4
<1>6. new = old
  BY <1>3, <1>4, <1>5, SeqEqual
<1> QED BY <1>6 DEF new, old

\* EnsureWriteSpace makes room and keeps what can be read.
LEMMA RoomProperties ==
    ASSUME TypeOK, NEW data \in Seq(Byte)
    PROVE  LET room == EnsureWriteSpace(Len(data))
           IN  /\ room.v \in Seq(Byte)
               /\ room.r \in Nat /\ room.w \in Nat /\ room.r <= room.w
               /\ room.w + Len(data) <= Len(room.v)
               /\ SubSeq(room.v, room.r + 1, room.w) = Readable
<1> DEFINE len == Len(data)
           room == EnsureWriteSpace(len)
<1>1. len \in Nat /\ Len(buffer) \in Nat
  BY LenProperties DEF TypeOK
<1>2. /\ buffer \in Seq(Byte) /\ ridx \in Nat /\ widx \in Nat
      /\ ridx <= widx /\ widx <= Len(buffer)
  BY <1>1 DEF TypeOK
<1>3. Readable \in Seq(Byte) /\ Len(Readable) = ReadableSize /\ ReadableSize \in Nat
  BY <1>2, Stretch DEF Readable, ReadableSize
<1> HIDE DEF len
<1>4. CASE len <= TailIdleSize
  <2>1. room = [v |-> buffer, r |-> ridx, w |-> widx]
    BY <1>1, <1>2, <1>4 DEF EnsureWriteSpace, TailIdleSize
  <2> QED BY <2>1, <1>1, <1>2, <1>4 DEF TailIdleSize, Readable, len
<1>5. CASE ~(len <= TailIdleSize) /\ len <= HeadIdleSize + TailIdleSize
  <2> DEFINE c == Copied(buffer, 0, Readable)
  <2>1. room = [v |-> c, r |-> 0, w |-> ReadableSize]
    BY <1>1, <1>2, <1>5 DEF EnsureWriteSpace, TailIdleSize
  <2> DEFINE z == 0
  <2>2. z \in Nat /\ z <= z /\ z + Len(Readable) <= Len(buffer) /\ z + Len(Readable) = ReadableSize
    BY <1>1, <1>2, <1>3 DEF ReadableSize
  <2>3. c \in Seq(Byte) /\ Len(c) = Len(buffer)
    BY <2>2, <1>2, <1>3, CopiedProperties
  <2>4. SubSeq(buffer, z + 1, z) = << >>
    BY SubSeqEmpty
  <2> HIDE DEF z
  <2>5. SubSeq(Copied(buffer, z, Readable), z + 1, z + Len(Readable))
            = SubSeq(buffer, z + 1, z) \o Readable
    BY <2>2, <1>2, <1>3, CopyAppends
  <2>6. SubSeq(c, 0 + 1, ReadableSize) = Readable
    <3>1. SubSeq(buffer, z + 1, z) \o Readable = Readable
      BY <2>4, <1>3, ConcatEmptySeq
    <3>2. SubSeq(Copied(buffer, z, Readable), z + 1, ReadableSize) = Readable
      BY <2>2, <2>5, <3>1
    <3> QED BY <3>2 DEF z
  <2> HIDE DEF c
  <2>7. ReadableSize + len <= Len(c)
    BY <2>3, <1>1, <1>2, <1>5 DEF ReadableSize, HeadIdleSize, TailIdleSize
  <2> QED BY <2>1, <2>3, <2>6, <2>7, <1>3 DEF len
<1>6. CASE ~(len <= TailIdleSize) /\ ~(len <= HeadIdleSize + TailIdleSize)
  <2> DEFINE n == len - TailIdleSize
             pad == [i \in 1..n |-> Zero]
  <2>1. room = [v |-> buffer \o pad, r |-> ridx, w |-> widx]
    BY <1>1, <1>2, <1>6 DEF EnsureWriteSpace, TailIdleSize, HeadIdleSize
  <2>2. n \in Nat /\ Len(buffer) + n = widx + len
    BY <1>1, <1>2, <1>6 DEF TailIdleSize
  <2> HIDE DEF n
  <2>3. pad \in [1..n -> Byte]
    BY BufferAssumption
  <2>4. pad \in Seq(Byte) /\ Len(pad) = n
    BY <2>2, <2>3, FunctionIsSeq
  <2> HIDE DEF pad
  <2>5. buffer \o pad \in Seq(Byte) /\ Len(buffer \o pad) = widx + len
    BY <2>2, <2>4, <1>2, ConcatProperties
  <2>6. SubSeq(buffer \o pad, ridx + 1, widx) = Readable
    BY <2>4, <1>2, GrowthKeeps DEF Readable
  <2> QED BY <2>1, <2>5, <2>6, <1>1, <1>2 DEF len
<1> QED BY <1>4, <1>5, <1>6 DEF len

\* A write puts its bytes behind those that can be read.
LEMMA WriteAppends ==
    ASSUME TypeOK, NEW data \in Seq(Byte), WriteAndMove(data)
    PROVE  /\ TypeOK'
           /\ Readable' = Readable \o data
           /\ call' = "write" /\ moved' = data
<1> DEFINE room == EnsureWriteSpace(Len(data))
<1>1. /\ buffer' = Copied(room.v, room.w, data)
      /\ ridx' = room.r
      /\ widx' = room.w + Len(data)
      /\ call' = "write" /\ moved' = data
  BY DEF WriteAndMove
<1>2. /\ room.v \in Seq(Byte)
      /\ room.r \in Nat /\ room.w \in Nat /\ room.r <= room.w
      /\ room.w + Len(data) <= Len(room.v)
      /\ SubSeq(room.v, room.r + 1, room.w) = Readable
  BY RoomProperties
<1> HIDE DEF room
<1>3. Len(data) \in Nat /\ Len(room.v) \in Nat
  BY <1>2, LenProperties
<1>4. buffer' \in Seq(Byte) /\ Len(buffer') = Len(room.v)
  BY <1>1, <1>2, CopiedProperties
<1>5. SubSeq(buffer', ridx' + 1, widx') = Readable \o data
  BY <1>1, <1>2, CopyAppends
<1>6. TypeOK'
  BY <1>1, <1>2, <1>3, <1>4 DEF TypeOK
<1> QED BY <1>1, <1>5, <1>6 DEF Readable

\* Taking bytes out splits what can be read.
LEMMA TakeSplits ==
    ASSUME TypeOK, NEW len \in 0..ReadableSize, Take(len)
    PROVE  /\ TypeOK'
           /\ Readable = moved' \o Readable'
           /\ moved' = SubSeq(buffer, ridx + 1, ridx + len)
<1>1. /\ moved' = SubSeq(buffer, ridx + 1, ridx + len)
      /\ ridx' = ridx + len /\ widx' = widx /\ buffer' = buffer
  BY DEF Take
<1>2. /\ buffer \in Seq(Byte) /\ ridx \in Nat /\ widx \in Nat /\ len \in Nat
      /\ ridx + len <= widx /\ widx <= Len(buffer) /\ Len(buffer) \in Nat
  BY LenProperties DEF TypeOK, ReadableSize
<1>3. ridx + len <= Len(buffer) /\ ridx + len \in Nat /\ ridx <= ridx + len
  BY <1>2
<1>4. moved' \in Seq(Byte)
  BY <1>1, <1>2, <1>3, Stretch
<1>5. SubSeq(buffer, ridx + 1, ridx + len) \o SubSeq(buffer, ridx + len + 1, widx)
        = SubSeq(buffer, ridx + 1, widx)
  <2>1. /\ ridx + 1 \in 1..Len(buffer) + 1
        /\ ridx + len \in ridx + 1 - 1..Len(buffer)
        /\ widx \in ridx + len..Len(buffer)
    BY <1>2, <1>3
  <2> QED BY <2>1, <1>2, ConcatAdjacentSubSeq
<1>6. TypeOK'
  BY <1>1, <1>2, <1>4 DEF TypeOK
<1> QED BY <1>1, <1>5, <1>6 DEF Readable

\* LineSize is the place of the first LF that can be read, 0 without one.
LEMMA LineSizeProperties ==
    ASSUME TypeOK
    PROVE  /\ LineSize \in 0..ReadableSize
           /\ LineSize = 0 => \A i \in 1..ReadableSize : Readable[i] # LF
           /\ LineSize # 0 => /\ Readable[LineSize] = LF
                              /\ \A i \in 1..LineSize - 1 : Readable[i] # LF
<1> DEFINE I == {i \in 1..Len(Readable) : Readable[i] = LF}
<1>1. LineSize = IF I # {} THEN Min(I) ELSE 0
  BY DEF LineSize, SelectInSeq
<1>2. Len(Readable) = ReadableSize /\ ReadableSize \in Nat
  <2>1. /\ buffer \in Seq(Byte) /\ ridx \in Nat /\ widx \in Nat
        /\ ridx <= widx /\ widx <= Len(buffer)
    BY LenProperties DEF TypeOK
  <2> QED BY <2>1, Stretch DEF Readable, ReadableSize
<1>3. CASE I = {}
  BY <1>1, <1>2, <1>3
<1>4. CASE I # {}
  <2>1. I \in SUBSET Nat
    BY <1>2
  <2>2. Min(I) \in I /\ \A y \in I : Min(I) <= y
    BY <2>1, <1>4, MinIsLeast
  <2>3. LineSize \in I /\ \A y \in I : LineSize <= y
    BY <2>2, <1>1, <1>4
  <2>4. ASSUME NEW i \in 1..LineSize - 1 PROVE Readable[i] # LF
    <3>1. i \in 1..Len(Readable) /\ ~(LineSize <= i)
      BY <2>3, <1>2
    <3> QED BY <3>1, <2>3
  <2> QED BY <2>3, <2>4, <1>2
<1> QED BY <1>3, <1>4

-----------------------------------------------------------------------------
\* The offsets stay in order inside the vector: no assertion of MoveRead and
\* MoveWrite can fail for a caller that reads what is there.
THEOREM TypeInvariant == Spec => []TypeOK
<1>1. Init => TypeOK
  <2> SUFFICES ASSUME Init PROVE TypeOK
    OBVIOUS
  <2>1. DefaultSize \in Nat /\ buffer \in [1..DefaultSize -> Byte]
    BY BufferAssumption DEF Init
  <2>2. buffer \in Seq(Byte) /\ Len(buffer) = DefaultSize
    BY <2>1, FunctionIsSeq
  <2>3. moved \in Seq(Byte)
    BY EmptySeq DEF Init
  <2>4. ridx = 0 /\ widx = 0
    BY DEF Init
  <2> QED BY <2>1, <2>2, <2>3, <2>4 DEF TypeOK
<1>2. TypeOK /\ [Next]_vars => TypeOK'
  <2> SUFFICES ASSUME TypeOK, [Next]_vars PROVE TypeOK'
    OBVIOUS
  <2>1. ASSUME NEW data \in BoundedSeq(Byte, MaxWrite), WriteAndMove(data) PROVE TypeOK'
    BY <2>1, WritesBytes, WriteAppends
  <2>2. ASSUME NEW len \in 1..ReadableSize, ReadAndMove(len) PROVE TypeOK'
    <3>1. len \in 0..ReadableSize
      OBVIOUS
    <3> QED BY <2>2, <3>1, TakeSplits DEF ReadAndMove
  <2>3. CASE GetLineAndMove
    BY <2>3, LineSizeProperties, TakeSplits DEF GetLineAndMove
  <2>4. CASE Clear
    <3>1. <<>> \in Seq(Byte) /\ Len(buffer) \in Nat
      BY EmptySeq, LenProperties DEF TypeOK
    <3> QED BY <2>4, <3>1 DEF Clear, TypeOK
  <2>5. CASE UNCHANGED vars
    BY <2>5 DEF vars, TypeOK
  <2> QED BY <2>1, <2>2, <2>3, <2>4, <2>5 DEF Next
<1> QED BY <1>1, <1>2, PTL DEF Spec

\* GetLineAndMove takes the bytes up to the first LF, or none.
LEMMA LineIsTaken ==
    ASSUME TypeOK, GetLineAndMove
    PROVE  Queue!GetLine
<1>1. /\ call' = "line" /\ Take(LineSize) /\ LineSize \in 0..ReadableSize
  BY LineSizeProperties DEF GetLineAndMove
<1>2. /\ Readable = moved' \o Readable'
      /\ moved' = SubSeq(buffer, ridx + 1, ridx + LineSize)
  BY <1>1, TakeSplits
<1>3. /\ buffer \in Seq(Byte) /\ ridx \in Nat /\ widx \in Nat /\ Len(buffer) \in Nat
      /\ ridx <= widx /\ widx <= Len(buffer)
  BY LenProperties DEF TypeOK
<1>4. /\ Readable \in Seq(Byte) /\ Len(Readable) = ReadableSize
      /\ \A i \in 1..ReadableSize : Readable[i] = buffer[ridx + i]
  BY <1>3, Stretch DEF Readable, ReadableSize
<1>5. /\ moved' \in Seq(Byte) /\ Len(moved') = LineSize
      /\ \A i \in 1..LineSize : moved'[i] = buffer[ridx + i]
  <2> DEFINE w == ridx + LineSize
  <2>1. w \in Nat /\ ridx <= w /\ w <= Len(buffer) /\ w - ridx = LineSize
    BY <1>1, <1>3 DEF ReadableSize
  <2> HIDE DEF w
  <2>2. moved' = SubSeq(buffer, ridx + 1, w)
    BY <1>2 DEF w
  <2> QED BY <2>1, <2>2, <1>3, Stretch
<1>6. ASSUME NEW i \in DOMAIN Readable, Readable[i] = LF PROVE moved' # <<>>
  <2>1. i \in 1..ReadableSize
    BY <1>4
  <2>2. LineSize # 0
    BY <2>1, <1>6, LineSizeProperties
  <2>3. Len(<<>>) = 0
    BY EmptySeq
  <2> QED BY <2>2, <2>3, <1>5
<1>7. ASSUME NEW i \in DOMAIN moved' PROVE moved'[i] = LF <=> i = Len(moved')
  <2>1. i \in 1..LineSize /\ LineSize # 0 /\ i \in 1..ReadableSize
    <3>1. i \in 1..LineSize
      BY <1>5, <1>7, LenProperties
    <3>2. LineSize \in Nat /\ ReadableSize \in Nat /\ LineSize <= ReadableSize
      BY <1>1, <1>3 DEF ReadableSize
    <3> QED BY <3>1, <3>2
  <2>2. moved'[i] = Readable[i]
    BY <2>1, <1>4, <1>5
  <2>3. CASE i = LineSize
    BY <2>1, <2>2, <2>3, <1>5, LineSizeProperties
  <2>4. CASE i # LineSize
    <3>1. i \in 1..LineSize - 1
      BY <2>1, <2>4, <1>1
    <3> QED BY <2>1, <2>2, <2>4, <3>1, <1>5, LineSizeProperties
  <2> QED BY <2>3, <2>4
<1> QED BY <1>1, <1>2, <1>6, <1>7 DEF Queue!GetLine

\* Whatever the sizes, a Buffer is a queue of bytes: compaction and growth
\* are not seen from outside.
THEOREM BufferImplementsQueue == Spec => ImplementsQueue
<1>1. Init => Queue!Init
  <2> SUFFICES ASSUME Init PROVE Queue!Init
    OBVIOUS
  <2>1. Readable = <<>>
    BY SubSeqEmpty DEF Readable, Init
  <2> QED BY <2>1 DEF Init, Queue!Init
<1>2. TypeOK /\ [Next]_vars => [Queue!Next]_Queue!vars
  <2> SUFFICES ASSUME TypeOK, [Next]_vars PROVE [Queue!Next]_Queue!vars
    OBVIOUS
  <2>1. ASSUME NEW data \in BoundedSeq(Byte, MaxWrite), WriteAndMove(data)
        PROVE  Queue!Write
    BY <2>1, WritesBytes, WriteAppends DEF Queue!Write
  <2>2. ASSUME NEW len \in 1..ReadableSize, ReadAndMove(len) PROVE Queue!Read
    <3>1. len \in 0..ReadableSize
      OBVIOUS
    <3> QED BY <2>2, <3>1, TakeSplits DEF ReadAndMove, Queue!Read
  <2>3. CASE GetLineAndMove
    BY <2>3, LineIsTaken DEF Queue!Next
  <2>4. CASE Clear
    <3>1. Readable' = <<>>
      <4>1. SubSeq(buffer', 0 + 1, 0) = <<>>
        BY SubSeqEmpty
      <4> QED BY <2>4, <4>1 DEF Clear, Readable
    <3> QED BY <2>4, <3>1 DEF Clear, Queue!Clear, Queue!Next
  <2>5. CASE UNCHANGED vars
    BY <2>5 DEF vars, Queue!vars, Readable
  <2> QED BY <2>1, <2>2, <2>3, <2>4, <2>5 DEF Next, Queue!Next
<1> QED BY <1>1, <1>2, TypeInvariant, PTL DEF Spec, Queue!Spec, ImplementsQueue
=============================================================================
