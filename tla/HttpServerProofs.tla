-------------------------- MODULE HttpServerProofs --------------------------
(***************************************************************************)
(* Theorems about HttpServer, for any kinds of requests, any number of     *)
(* them on the wire and any cut of the input: each response is the one to  *)
(* its request, none is late, and the parser keeps nothing it could use.   *)
(*                                                                         *)
(* The wire is FlattenSeq of the requests' pieces, so where a request is   *)
(* has to be proved by induction (WireLayout). Inv then says, in terms of  *)
(* those places, what HttpContext holds of the request being received and  *)
(* where in it the read offset is (Parser), and that this request is the   *)
(* next one to be answered (Position).                                     *)
(***************************************************************************)
EXTENDS HttpServer, SequenceTheorems, WellFoundedInduction, TLAPS

-----------------------------------------------------------------------------
(***************************************************************************)
(* Where the pieces of each request are.                                   *)
(***************************************************************************)
Size(k) == k.line + k.head + 1 + k.body

\* at says how many pieces precede request i; the wire has the pieces of its
\* line, its header, its blank line and its body there, and nothing else.
Layout(at) ==
    /\ at \in [1..Len(reqs) + 1 -> Nat]
    /\ at[1] = 0 /\ at[Len(reqs) + 1] = Len(wire)
    /\ \A i \in DOMAIN reqs : at[i + 1] = at[i] + Size(reqs[i])
    /\ \A i, j \in 1..Len(reqs) + 1 : i <= j => at[i] <= at[j]
    /\ \A i \in DOMAIN reqs : \A j \in 1..Size(reqs[i]) :
          wire[at[i] + j] = Pieces(i, reqs[i])[j]
    /\ \A x \in 1..Len(wire) : \E i \in DOMAIN reqs :
          \E j \in 1..Size(reqs[i]) : x = at[i] + j

\* The place of its blank line.
BlankAt(at, i) == at[i] + reqs[i].line + reqs[i].head + 1

-----------------------------------------------------------------------------
(***************************************************************************)
(* The parser.                                                             *)
(***************************************************************************)
\* The request line of request i was accepted.
LineTaken(i) == i \in DOMAIN reqs /\ reqs[i].line <= MaxLine /\ reqs[i].proper

\* Its header was accepted, if it has one.
HeadTaken(i) ==
    \/ reqs[i].head = 0 /\ req.head = 0
    \/ reqs[i].head \in 1..MaxLine /\ reqs[i].field /\ req.head = i

\* RecvHead: the line was taken, the blank line was not.
InHead(at) ==
    LET i == req.line
    IN  /\ LineTaken(i) /\ req.body = <<>>
        /\ \/ req.head = 0 /\ read = at[i] + reqs[i].line
           \/ /\ req.head = i /\ HeadTaken(i)
              /\ read = at[i] + reqs[i].line + reqs[i].head

\* RecvBody: _req's body is what follows the blank line, up to the read offset.
InBody(at) ==
    LET i == req.line
    IN  /\ LineTaken(i) /\ HeadTaken(i)
        /\ Len(req.body) <= reqs[i].length
        /\ req.body = [j \in 1..Len(req.body) |-> BlankAt(at, i) + j]
        /\ read = BlankAt(at, i) + Len(req.body)

\* What is left in the Buffer does not let the parser go on.
Waits ==
    \/ recv_stat \in {"LINE", "HEAD"} /\ LineEnd = 0 /\ ReadableSize <= MaxLine
    \/ recv_stat = "BODY" /\ ReadableSize = 0 /\ Len(req.body) < ContentLength

\* HttpContext's state, and that it holds nothing back when it returns.
Parser(at) ==
    /\ recv_stat = "LINE" => req = Fresh
    /\ recv_stat = "HEAD" => InHead(at)
    /\ recv_stat \in {"BODY", "OVER"} => InBody(at)
    /\ recv_stat = "OVER" => Len(req.body) = ContentLength
    /\ recv_stat = "BODY" /\ pc # "recv" => Len(req.body) < ContentLength
    /\ recv_stat \in {"OVER", "ERROR"} => pc = "done"
    /\ recv_stat = "ERROR" <=> resp_code # 200
    /\ pc = "idle" \/ (pc = "done" /\ recv_stat \notin {"OVER", "ERROR"}) => Waits

\* The request being received is the one to answer next.
Position(at) ==
    LET k == Len(answered) + 1
    IN  Framed(k) =>
            /\ k <= Len(reqs) + 1
            /\ recv_stat = "LINE" => read = at[k]
            /\ recv_stat \in {"HEAD", "BODY", "OVER"} => req.line = k
            /\ recv_stat = "ERROR" => k \in DOMAIN reqs /\ resp_code = Verdict(k)

-----------------------------------------------------------------------------
(***************************************************************************)
(* Sequences put together. The proofs by induction go by the least number  *)
(* that is not in the set of those that have the property.                 *)
(***************************************************************************)
LEMMA SetInduction ==
    ASSUME NEW n \in Nat, NEW S, 1 \in S, \A i \in 1..n - 1 : i \in S => i + 1 \in S
    PROVE  \A i \in 1..n : i \in S
<1> DEFINE Bad == {i \in 1..n : i \notin S}
<1>1. SUFFICES ASSUME Bad # {} PROVE FALSE
  OBVIOUS
<1>2. Bad \subseteq Nat
  OBVIOUS
<1> HIDE DEF Bad
<1>3. PICK m \in Bad : \A k \in Bad : ~(<<k, m>> \in OpToRel(<, Nat))
  BY <1>1, <1>2, NatLessThanWellFounded, WFMin
<1>4. m \in 1..n /\ m \notin S /\ m # 1
  BY <1>3 DEF Bad
<1>5. m - 1 \notin S
  <2>1. m - 1 \in 1..n - 1
    BY <1>4
  <2> QED BY <1>4, <2>1
<1>6. m - 1 \in Bad /\ <<m - 1, m>> \in OpToRel(<, Nat)
  BY <1>4, <1>5 DEF Bad, OpToRel
<1> QED BY <1>3, <1>6

\* Where the elements of two sequences are when one is put behind the other.
Joined(T, a, b, w) ==
    /\ w \in Seq(T) /\ Len(w) = Len(a) + Len(b)
    /\ \A j \in 1..Len(a) : j \in 1..Len(w) /\ w[j] = a[j]
    /\ \A j \in 1..Len(b) : Len(a) + j \in 1..Len(w) /\ w[Len(a) + j] = b[j]

\* The operator \o as Joined says it.
LEMMA ConcatAt ==
    ASSUME NEW T, NEW a \in Seq(T), NEW b \in Seq(T), NEW w, w = a \o b
    PROVE  Joined(T, a, b, w)
<1>1. Len(a) \in Nat /\ Len(b) \in Nat
  OBVIOUS
<1>2. w \in Seq(T) /\ Len(w) = Len(a) + Len(b)
  BY ConcatProperties
<1>3. \A i \in 1..Len(a) + Len(b) : w[i] = IF i <= Len(a) THEN a[i] ELSE b[i - Len(a)]
  BY ConcatProperties
<1>4. ASSUME NEW j \in 1..Len(a)
      PROVE  j \in 1..Len(w) /\ w[j] = a[j]
  <2>1. j \in 1..Len(a) + Len(b) /\ j <= Len(a)
    BY <1>1
  <2> QED BY <1>2, <1>3, <2>1
<1>5. ASSUME NEW j \in 1..Len(b)
      PROVE  Len(a) + j \in 1..Len(w) /\ w[Len(a) + j] = b[j]
  <2>1. Len(a) + j \in 1..Len(a) + Len(b) /\ ~(Len(a) + j <= Len(a)) /\ (Len(a) + j) - Len(a) = j
    BY <1>1
  <2> QED BY <1>2, <1>3, <2>1
<1> QED BY <1>2, <1>4, <1>5 DEF Joined

\* The function FlattenSeq is defined with exists.
FlattenStep(f, g, n) == g = [i \in 1..n |-> IF i = 1 THEN f[i] ELSE g[i - 1] \o f[i]]

\* FlattenSeq's recursive function exists.
LEMMA FlattenExists ==
    ASSUME NEW f, NEW n \in Nat \ {0}
    PROVE  \E g : FlattenStep(f, g, n)
<1> DEFINE S == {m \in 1..n : \E g : FlattenStep(f, g, m)}
<1>1. 1 \in S
  <2> DEFINE g == [i \in 1..1 |-> f[i]]
  <2>1. FlattenStep(f, g, 1)
    BY DEF FlattenStep
  <2> QED BY <2>1
<1>2. ASSUME NEW m \in 1..n - 1, m \in S PROVE m + 1 \in S
  <2>1. PICK g : FlattenStep(f, g, m)
    BY <1>2
  <2> DEFINE h == [i \in 1..m + 1 |-> IF i <= m THEN g[i] ELSE g[m] \o f[m + 1]]
  <2>2. ASSUME NEW i \in 1..m + 1
        PROVE  h[i] = IF i = 1 THEN f[i] ELSE h[i - 1] \o f[i]
    <3>1. CASE i = 1
      BY <2>1, <3>1 DEF FlattenStep
    <3>2. CASE i # 1 /\ i <= m
      <4>1. i \in 1..m /\ i - 1 \in 1..m + 1 /\ i - 1 <= m
        BY <3>2
      <4>2. g[i] = g[i - 1] \o f[i]
        BY <2>1, <3>2, <4>1 DEF FlattenStep
      <4> QED BY <3>2, <4>1, <4>2
    <3>3. CASE i = m + 1
      <4>1. m \in 1..m + 1 /\ m + 1 \in 1..m + 1 /\ m + 1 # 1 /\ ~(m + 1 <= m) /\ (m + 1) - 1 = m /\ m <= m
        OBVIOUS
      <4>2. h[m] = g[m]
        BY <4>1
      <4>3. h[m + 1] = g[m] \o f[m + 1]
        BY <4>1
      <4> HIDE DEF h
      <4> QED BY <3>3, <4>1, <4>2, <4>3
    <3> QED BY <3>1, <3>2, <3>3
  <2>3. FlattenStep(f, h, m + 1)
    BY <2>2 DEF FlattenStep
  <2>4. m + 1 \in 1..n
    OBVIOUS
  <2> HIDE DEF h
  <2> QED BY <2>3, <2>4
<1>3. \A m \in 1..n : m \in S
  <2> HIDE DEF S
  <2> QED BY <1>1, <1>2, SetInduction
<1> QED BY <1>3

\* What FlattenSeq puts where: element j of the i-th sequence comes j after
\* all the elements of the sequences before it.
FlattenLayout(f, w, at) ==
    /\ at \in [1..Len(f) + 1 -> Nat]
    /\ at[1] = 0 /\ at[Len(f) + 1] = Len(w)
    /\ \A i \in 1..Len(f) : at[i + 1] = at[i] + Len(f[i])
    /\ \A i, j \in 1..Len(f) + 1 : i <= j => at[i] <= at[j]
    /\ \A i \in 1..Len(f) : \A j \in 1..Len(f[i]) : w[at[i] + j] = f[i][j]
    /\ \A x \in 1..Len(w) : \E i \in 1..Len(f) : \E j \in 1..Len(f[i]) : x = at[i] + j

\* FlattenSeq is laid out like that.
LEMMA FlattenWhere ==
    ASSUME NEW T, NEW f \in Seq(Seq(T)), Len(f) # 0
    PROVE  FlattenSeq(f) \in Seq(T) /\ \E at : FlattenLayout(f, FlattenSeq(f), at)
<1> DEFINE n == Len(f)
           g == CHOOSE h : h = [i \in 1..n |-> IF i = 1 THEN f[i] ELSE h[i - 1] \o f[i]]
           at == [i \in 1..n + 1 |-> IF i = 1 THEN 0 ELSE Len(g[i - 1])]
<1>1. n \in Nat \ {0} /\ \A i \in 1..n : f[i] \in Seq(T) /\ Len(f[i]) \in Nat
  OBVIOUS
<1>2. FlattenSeq(f) = g[n]
  BY DEF FlattenSeq
<1>3. FlattenStep(f, g, n)
  BY <1>1, FlattenExists DEF FlattenStep
<1> HIDE DEF n, g
<1>4. g[1] = f[1] /\ \A m \in 1..n - 1 : g[m + 1] = g[m] \o f[m + 1]
  <2>1. g[1] = f[1]
    BY <1>1, <1>3 DEF FlattenStep
  <2>2. ASSUME NEW m \in 1..n - 1 PROVE g[m + 1] = g[m] \o f[m + 1]
    <3>1. m + 1 \in 1..n /\ m + 1 # 1 /\ (m + 1) - 1 = m
      BY <1>1
    <3> QED BY <1>3, <3>1 DEF FlattenStep
  <2> QED BY <2>1, <2>2
<1>5. \A m \in 1..n : g[m] \in Seq(T)
  <2> DEFINE S == {m \in 1..n : g[m] \in Seq(T)}
  <2>1. 1 \in S
    BY <1>1, <1>4
  <2>2. ASSUME NEW m \in 1..n - 1, m \in S PROVE m + 1 \in S
    <3>1. m + 1 \in 1..n /\ g[m] \in Seq(T)
      BY <1>1, <2>2
    <3>2. g[m + 1] = g[m] \o f[m + 1] /\ f[m + 1] \in Seq(T)
      BY <1>1, <1>4, <3>1
    <3>3. g[m + 1] \in Seq(T)
      BY <3>1, <3>2, ConcatAt DEF Joined
    <3> QED BY <3>1, <3>3
  <2>3. \A m \in 1..n : m \in S
    <3> HIDE DEF S
    <3> QED BY <1>1, <2>1, <2>2, SetInduction
  <2> QED BY <2>3
<1>6. \A m \in 1..n : Len(g[m]) \in Nat
  BY <1>5
<1>7. /\ at[1] = 0
      /\ \A i \in 1..n : at[i] \in Nat /\ at[i + 1] = Len(g[i]) /\ at[i + 1] = at[i] + Len(f[i])
  <2>1. at[1] = 0
    BY <1>1
  <2>2. ASSUME NEW i \in 1..n
        PROVE  at[i] \in Nat /\ at[i + 1] = Len(g[i]) /\ at[i + 1] = at[i] + Len(f[i])
    <3>1. at[i + 1] = Len(g[i])
      <4>1. i + 1 \in 1..n + 1 /\ i + 1 # 1 /\ (i + 1) - 1 = i
        BY <1>1
      <4> QED BY <4>1
    <3>2. CASE i = 1
      BY <1>1, <1>4, <2>1, <3>1, <3>2
    <3>3. CASE i # 1
      <4>1. i - 1 \in 1..n - 1 /\ i - 1 \in 1..n /\ (i - 1) + 1 = i /\ i \in 1..n + 1
        BY <1>1, <3>3
      <4>2. at[i] = Len(g[i - 1])
        BY <3>3, <4>1
      <4>3. g[i] = g[i - 1] \o f[i]
        BY <1>4, <4>1
      <4>4. g[i - 1] \in Seq(T) /\ f[i] \in Seq(T)
        BY <1>1, <1>5, <4>1
      <4>5. Len(g[i]) = Len(g[i - 1]) + Len(f[i])
        BY <4>3, <4>4
      <4> QED BY <1>6, <3>1, <4>1, <4>2, <4>5
    <3> QED BY <3>2, <3>3
  <2> QED BY <2>1, <2>2
<1>8. at \in [1..n + 1 -> Nat]
  <2>1. \A i \in 1..n + 1 : (IF i = 1 THEN 0 ELSE Len(g[i - 1])) \in Nat
    <3>1. \A i \in 1..n + 1 : i # 1 => i - 1 \in 1..n
      BY <1>1
    <3> QED BY <1>6, <3>1
  <2> QED BY <2>1
<1>9. at[n + 1] = Len(g[n])
  BY <1>1, <1>7
<1> HIDE DEF at
<1>10. \A i, j \in 1..n + 1 : i <= j => at[i] <= at[j]
  <2> DEFINE S == {j \in 1..n + 1 : \A i \in 1..j : at[i] <= at[j]}
  <2>1. 1 \in S
    BY <1>1, <1>7
  <2>2. ASSUME NEW m \in 1..(n + 1) - 1, m \in S PROVE m + 1 \in S
    <3>1. m \in 1..n /\ m + 1 \in 1..n + 1
      BY <1>1
    <3>2. at[m] <= at[m + 1] /\ at[m] \in Nat /\ at[m + 1] \in Nat
      <4>1. at[m] \in Nat /\ at[m + 1] = at[m] + Len(f[m]) /\ Len(f[m]) \in Nat
        BY <1>1, <1>7, <3>1
      <4> QED BY <4>1
    <3>3. ASSUME NEW i \in 1..m + 1 PROVE at[i] <= at[m + 1]
      <4>1. CASE i = m + 1
        BY <3>2, <4>1
      <4>2. CASE i \in 1..m
        <5>0. i \in 1..n + 1
          BY <1>1, <3>1, <4>2
        <5>1. at[i] <= at[m]
          BY <2>2, <4>2
        <5>2. at[i] \in Nat
          BY <1>8, <5>0
        <5> QED BY <3>2, <5>1, <5>2
      <4> QED BY <3>1, <4>1, <4>2
    <3> QED BY <3>1, <3>3
  <2>3. \A j \in 1..n + 1 : j \in S
    <3>1. n + 1 \in Nat
      BY <1>1
    <3> HIDE DEF S
    <3> QED BY <2>1, <2>2, <3>1, SetInduction
  <2> QED BY <1>1, <2>3
<1>11. \A m \in 1..n : \A i \in 1..m : \A j \in 1..Len(f[i]) :
          at[i] + j \in 1..Len(g[m]) /\ g[m][at[i] + j] = f[i][j]
  <2> DEFINE P(m) == \A i \in 1..m : \A j \in 1..Len(f[i]) :
                        at[i] + j \in 1..Len(g[m]) /\ g[m][at[i] + j] = f[i][j]
             S == {m \in 1..n : P(m)}
  <2>1. 1 \in S
    BY <1>1, <1>4, <1>7
  <2>2. ASSUME NEW m \in 1..n - 1, m \in S PROVE m + 1 \in S
    <3>1. m \in 1..n /\ m + 1 \in 1..n /\ P(m)
      BY <1>1, <2>2
    <3>2. g[m + 1] = g[m] \o f[m + 1] /\ g[m] \in Seq(T) /\ f[m + 1] \in Seq(T)
      BY <1>1, <1>4, <1>5, <3>1
    <3>3. PICK u, v, w : u = g[m] /\ v = f[m + 1] /\ w = g[m + 1]
      OBVIOUS
    <3>4. /\ at[m + 1] = Len(u) /\ w = u \o v
          /\ \A j \in 1..Len(u) : j \in 1..Len(w) /\ w[j] = u[j]
          /\ \A j \in 1..Len(v) : Len(u) + j \in 1..Len(w) /\ w[Len(u) + j] = v[j]
      <4>1. at[m + 1] = Len(u) /\ w = u \o v
        BY <1>7, <3>1, <3>2, <3>3
      <4>2. u \in Seq(T) /\ v \in Seq(T)
        BY <3>2, <3>3
      <4> QED BY <4>1, <4>2, ConcatAt DEF Joined
    <3>5. ASSUME NEW i \in 1..m + 1, NEW j \in 1..Len(f[i])
          PROVE  at[i] + j \in 1..Len(g[m + 1]) /\ g[m + 1][at[i] + j] = f[i][j]
      <4>1. CASE i \in 1..m
        <5>1. at[i] + j \in 1..Len(u) /\ u[at[i] + j] = f[i][j]
          BY <3>1, <3>3, <4>1
        <5> QED BY <3>3, <3>4, <5>1
      <4>2. CASE i = m + 1
        BY <3>3, <3>4, <4>2
      <4> QED BY <3>1, <4>1, <4>2
    <3>6. P(m + 1)
      BY <3>5
    <3> QED BY <3>1, <3>6
  <2>3. \A m \in 1..n : m \in S
    <3> HIDE DEF S
    <3> QED BY <1>1, <2>1, <2>2, SetInduction
  <2> QED BY <2>3
<1>12. \A m \in 1..n : \A x \in 1..at[m + 1] : \E i \in 1..n : \E j \in 1..Len(f[i]) : x = at[i] + j
  <2> DEFINE Found(x) == \E i \in 1..n : \E j \in 1..Len(f[i]) : x = at[i] + j
             S == {m \in 1..n : \A x \in 1..at[m + 1] : Found(x)}
  <2>0. ASSUME NEW m \in 1..n, NEW x \in Nat, x > at[m], x <= at[m + 1] PROVE Found(x)
    <3>1. x - at[m] \in 1..Len(f[m]) /\ x = at[m] + (x - at[m])
      BY <1>1, <1>7, <2>0
    <3> QED BY <3>1
  <2>1. 1 \in S
    <3>1. \A x \in 1..at[2] : x > at[1]
      BY <1>7
    <3>2. 1 + 1 = 2 /\ 1 \in 1..n /\ 2 \in 1..n + 1
      BY <1>1
    <3>3. ASSUME NEW x \in 1..at[1 + 1] PROVE Found(x)
      <4>1. at[1 + 1] \in Nat /\ at[1] = 0
        BY <1>7, <1>8, <3>2
      <4>2. x \in Nat /\ x > at[1] /\ x <= at[1 + 1]
        BY <4>1
      <4> QED BY <2>0, <3>2, <4>2
    <3> QED BY <3>2, <3>3
  <2>2. ASSUME NEW m \in 1..n - 1, m \in S PROVE m + 1 \in S
    <3>1. m \in 1..n /\ m + 1 \in 1..n /\ (m + 1) + 1 \in 1..n + 1 /\ m + 1 \in 1..n + 1
      BY <1>1
    <3>2. ASSUME NEW x \in 1..at[(m + 1) + 1] PROVE Found(x)
      <4>1. at[(m + 1) + 1] \in Nat /\ at[m + 1] \in Nat
        BY <1>8, <3>1
      <4>2. CASE x <= at[m + 1]
        <5>1. x \in 1..at[m + 1]
          BY <4>1, <4>2
        <5> QED BY <2>2, <5>1
      <4>3. CASE x > at[m + 1]
        <5>1. x \in Nat /\ x <= at[(m + 1) + 1]
          BY <4>1
        <5> QED BY <2>0, <3>1, <4>3, <5>1
      <4> QED BY <4>1, <4>2, <4>3
    <3> QED BY <3>1, <3>2
  <2>3. \A m \in 1..n : m \in S
    <3> HIDE DEF S
    <3> QED BY <1>1, <2>1, <2>2, SetInduction
  <2> QED BY <2>3
<1>13. \A i \in 1..n : \A j \in 1..Len(f[i]) : g[n][at[i] + j] = f[i][j]
  BY <1>1, <1>11
<1>14. \A x \in 1..Len(g[n]) : \E i \in 1..n : \E j \in 1..Len(f[i]) : x = at[i] + j
  <2>1. n \in 1..n
    BY <1>1
  <2>2. \A x \in 1..at[n + 1] : \E i \in 1..n : \E j \in 1..Len(f[i]) : x = at[i] + j
    BY <1>12, <2>1
  <2> QED BY <1>9, <2>2
<1>15. \A i \in 1..n : at[i + 1] = at[i] + Len(f[i])
  BY <1>7
<1>16. FlattenLayout(f, g[n], at)
  BY <1>7, <1>8, <1>9, <1>10, <1>13, <1>14, <1>15 DEF FlattenLayout, n
<1>17. g[n] \in Seq(T)
  BY <1>1, <1>5
<1> QED BY <1>2, <1>16, <1>17

-----------------------------------------------------------------------------
(***************************************************************************)
(* The wire.                                                               *)
(***************************************************************************)
Piece == [req : Nat, part : {"line", "head", "blank", "body"},
          first : BOOLEAN, lf : BOOLEAN]

\* The numbers of pieces that a request has.
LEMMA KindIs ==
    ASSUME NEW k \in Kind
    PROVE  /\ k.line \in Nat \ {0} /\ k.head \in Nat /\ k.length \in Nat /\ k.body \in Nat
           /\ k.head = 0 => k.length = 0
           /\ Size(k) \in Nat
<1>1. /\ k.line \in Nat \ {0} /\ k.head \in Nat /\ k.length \in Nat /\ k.body \in Nat
      /\ k.head = 0 => k.length = 0
  BY HttpContextAssumption
<1> QED BY <1>1 DEF Size

\* A stretch of pieces of one kind.
Stretch(i, name, n, line) ==
    [j \in 1..n |-> [req |-> i, part |-> name, first |-> j = 1, lf |-> line /\ j = n]]

\* It is a sequence of n pieces.
LEMMA StretchType ==
    ASSUME NEW i \in Nat, NEW name \in {"line", "head", "blank", "body"}, NEW n \in Nat,
           NEW line \in BOOLEAN
    PROVE  /\ Stretch(i, name, n, line) \in Seq(Piece)
           /\ Len(Stretch(i, name, n, line)) = n
<1>1. ASSUME NEW j \in 1..n
      PROVE  [req |-> i, part |-> name, first |-> j = 1, lf |-> line /\ j = n] \in Piece
  <2>1. (j = 1) \in BOOLEAN /\ (line /\ j = n) \in BOOLEAN
    BY Zenon
  <2> QED BY <2>1, Zenon DEF Piece
<1>2. Stretch(i, name, n, line) \in [1..n -> Piece]
  BY <1>1, Zenon DEF Stretch
<1> QED BY <1>2

\* The fields of a piece, whatever they are.
FieldsOf(p, i, name, x, y) ==
    p.req = i /\ p.part = name /\ (p.first <=> x) /\ (p.lf <=> y)

\* A record of these fields has them.
LEMMA FieldsAre ==
    ASSUME NEW i, NEW name, NEW x, NEW y, NEW p,
           p = [req |-> i, part |-> name, first |-> x, lf |-> y]
    PROVE  FieldsOf(p, i, name, x, y)
BY DEF FieldsOf

\* What the j-th piece of a stretch of n says.
InStretch(p, i, name, n, line, j) == FieldsOf(p, i, name, j = 1, line /\ j = n)

\* The pieces of Stretch say that.
LEMMA StretchAt ==
    ASSUME NEW i, NEW name, NEW n, NEW line, NEW j \in 1..n, NEW p,
           p = Stretch(i, name, n, line)[j]
    PROVE  InStretch(p, i, name, n, line, j)
<1>1. p = [req |-> i, part |-> name, first |-> j = 1, lf |-> line /\ j = n]
  BY DEF Stretch
<1> QED BY <1>1, FieldsAre, Zenon DEF InStretch

\* A request's pieces are its stretches in order.
LEMMA PiecesAre ==
    ASSUME NEW i \in Nat, NEW k \in Kind
    PROVE  /\ Pieces(i, k) \in Seq(Piece) /\ Len(Pieces(i, k)) = Size(k)
           /\ \A j \in 1..k.line :
                 Pieces(i, k)[j] = Stretch(i, "line", k.line, TRUE)[j]
           /\ \A j \in 1..k.head :
                 Pieces(i, k)[k.line + j] = Stretch(i, "head", k.head, TRUE)[j]
           /\ Pieces(i, k)[k.line + k.head + 1] = Stretch(i, "blank", 1, TRUE)[1]
           /\ \A j \in 1..k.body :
                 Pieces(i, k)[k.line + k.head + 1 + j] = Stretch(i, "body", k.body, FALSE)[j]
<1>1. PICK a, b, c, d : /\ a = Stretch(i, "line", k.line, TRUE)
                        /\ b = Stretch(i, "head", k.head, TRUE)
                        /\ c = Stretch(i, "blank", 1, TRUE)
                        /\ d = Stretch(i, "body", k.body, FALSE)
  OBVIOUS
<1>2. Pieces(i, k) = a \o b \o c \o d
  BY <1>1 DEF Pieces, Stretch
<1>3. /\ a \in Seq(Piece) /\ b \in Seq(Piece) /\ c \in Seq(Piece) /\ d \in Seq(Piece)
      /\ Len(a) = k.line /\ Len(b) = k.head /\ Len(c) = 1 /\ Len(d) = k.body
  BY <1>1, KindIs, StretchType
<1>4. PICK u : u = a \o b
  OBVIOUS
<1>5. /\ u \in Seq(Piece) /\ Len(u) = k.line + k.head
      /\ \A j \in 1..k.line : j \in 1..Len(u) /\ u[j] = a[j]
      /\ \A j \in 1..k.head : k.line + j \in 1..Len(u) /\ u[k.line + j] = b[j]
  <2>1. Joined(Piece, a, b, u)
    BY <1>3, <1>4, ConcatAt, Zenon
  <2> QED BY <1>3, <2>1 DEF Joined
<1>6. PICK v : v = u \o c
  OBVIOUS
<1>7. /\ v \in Seq(Piece) /\ Len(v) = k.line + k.head + 1
      /\ \A j \in 1..Len(u) : j \in 1..Len(v) /\ v[j] = u[j]
      /\ v[k.line + k.head + 1] = c[1] /\ k.line + k.head + 1 \in 1..Len(v)
  <2>1. Joined(Piece, u, c, v)
    BY <1>3, <1>5, <1>6, ConcatAt, Zenon
  <2>2. /\ v \in Seq(Piece) /\ Len(v) = Len(u) + 1
        /\ \A j \in 1..Len(u) : j \in 1..Len(v) /\ v[j] = u[j]
        /\ Len(u) + 1 \in 1..Len(v) /\ v[Len(u) + 1] = c[1]
    BY <1>3, <2>1 DEF Joined
  <2> QED BY <1>5, <2>2
<1>8. PICK w : w = v \o d
  OBVIOUS
<1>9. /\ w \in Seq(Piece) /\ Len(w) = k.line + k.head + 1 + k.body
      /\ \A j \in 1..Len(v) : w[j] = v[j]
      /\ \A j \in 1..k.body : w[k.line + k.head + 1 + j] = d[j]
  <2>1. Joined(Piece, v, d, w)
    BY <1>3, <1>7, <1>8, ConcatAt, Zenon
  <2> QED BY <1>3, <1>7, <2>1 DEF Joined
<1>10. w = Pieces(i, k)
  BY <1>2, <1>4, <1>6, <1>8
<1>11. \A j \in 1..k.line : w[j] = a[j]
  BY <1>5, <1>7, <1>9
<1>12. \A j \in 1..k.head : w[k.line + j] = b[j]
  BY <1>5, <1>7, <1>9
<1>13. w[k.line + k.head + 1] = c[1]
  BY <1>7, <1>9
<1> QED BY <1>1, <1>9, <1>10, <1>11, <1>12, <1>13 DEF Size

\* What can be told of a piece from where it is in its request.
IsPiece(p, i, k, j) ==
    /\ p.req = i
    /\ p.part = "line" <=> j <= k.line
    /\ p.part = "blank" <=> j = k.line + k.head + 1
    /\ p.part = "line" => (p.first <=> j = 1)
    /\ p.lf <=> \/ j = k.line
                \/ k.head # 0 /\ j = k.line + k.head
                \/ j = k.line + k.head + 1

\* The pieces of a request are as IsPiece says.
LEMMA PieceIs ==
    ASSUME NEW i \in Nat, NEW k \in Kind, NEW j \in 1..Size(k)
    PROVE  IsPiece(Pieces(i, k)[j], i, k, j)
<1> PICK p : p = Pieces(i, k)[j]
  OBVIOUS
<1>1. /\ k.line \in Nat \ {0} /\ k.head \in Nat /\ k.body \in Nat
      /\ j \in Nat \ {0} /\ j <= k.line + k.head + 1 + k.body
  BY KindIs DEF Size
<1>2. CASE j \in 1..k.line
  <2>1. p = Stretch(i, "line", k.line, TRUE)[j]
    BY <1>2, PiecesAre
  <2>2. p.req = i /\ p.part = "line" /\ (p.first <=> j = 1) /\ (p.lf <=> j = k.line)
    <3>1. InStretch(p, i, "line", k.line, TRUE, j)
      BY <1>2, <2>1, StretchAt, Zenon
    <3> QED BY <3>1, Zenon DEF InStretch, FieldsOf
  <2>3. j <= k.line /\ j # k.line + k.head + 1 /\ (k.head # 0 => j # k.line + k.head)
    BY <1>1, <1>2
  <2> QED BY <2>2, <2>3, Zenon DEF IsPiece
<1>3. CASE j - k.line \in 1..k.head
  <2>1. PICK m \in 1..k.head : j = k.line + m
    BY <1>1, <1>3
  <2>2. p = Stretch(i, "head", k.head, TRUE)[m]
    BY <2>1, PiecesAre
  <2>3. p.req = i /\ p.part = "head" /\ (p.lf <=> m = k.head)
    <3>1. InStretch(p, i, "head", k.head, TRUE, m)
      BY <2>2, StretchAt, Zenon
    <3> QED BY <3>1, Zenon DEF InStretch, FieldsOf
  <2>4. /\ ~(j <= k.line) /\ j # k.line + k.head + 1 /\ j # k.line /\ k.head # 0
        /\ m = k.head <=> j = k.line + k.head
    BY <1>1, <2>1
  <2> QED BY <2>3, <2>4 DEF IsPiece
<1>4. CASE j = k.line + k.head + 1
  <2>1. p = Stretch(i, "blank", 1, TRUE)[1]
    BY <1>4, PiecesAre
  <2>2. p.req = i /\ p.part = "blank" /\ p.lf
    <3>1. InStretch(p, i, "blank", 1, TRUE, 1)
      <4>1. 1 \in 1..1
        OBVIOUS
      <4> QED BY <2>1, <4>1, StretchAt, Zenon
    <3> QED BY <3>1, Zenon DEF InStretch, FieldsOf
  <2>3. ~(j <= k.line)
    BY <1>1, <1>4
  <2> QED BY <1>4, <2>2, <2>3 DEF IsPiece
<1>5. CASE j > k.line + k.head + 1
  <2>1. PICK m \in 1..k.body : j = k.line + k.head + 1 + m
    <3>1. j - (k.line + k.head + 1) \in 1..k.body
      BY <1>1, <1>5
    <3>2. j = k.line + k.head + 1 + (j - (k.line + k.head + 1))
      BY <1>1
    <3> QED BY <3>1, <3>2
  <2>2. p = Stretch(i, "body", k.body, FALSE)[m]
    BY <2>1, PiecesAre
  <2>3. p.req = i /\ p.part = "body" /\ ~p.lf
    <3>1. InStretch(p, i, "body", k.body, FALSE, m)
      BY <2>2, StretchAt, Zenon
    <3> QED BY <3>1, Zenon DEF InStretch, FieldsOf
  <2>4. ~(j <= k.line) /\ j # k.line + k.head + 1 /\ j # k.line /\ j # k.line + k.head
    BY <1>1, <1>5
  <2> QED BY <2>3, <2>4 DEF IsPiece
<1> QED BY <1>1, <1>2, <1>3, <1>4, <1>5

\* The wire is laid out.
LEMMA WireLayout ==
    ASSUME reqs \in Seq(Kind), reqs # <<>>, wire = WireOf(reqs)
    PROVE  wire \in Seq(Piece) /\ \E at : Layout(at)
<1> DEFINE f == [i \in DOMAIN reqs |-> Pieces(i, reqs[i])]
<1>1. /\ Len(reqs) \in Nat \ {0} /\ DOMAIN reqs = 1..Len(reqs)
      /\ \A i \in DOMAIN reqs : reqs[i] \in Kind
  BY EmptySeq
<1>2. /\ f \in Seq(Seq(Piece)) /\ Len(f) = Len(reqs)
      /\ \A i \in DOMAIN reqs : f[i] = Pieces(i, reqs[i]) /\ Len(f[i]) = Size(reqs[i])
  <2>1. ASSUME NEW i \in DOMAIN reqs
        PROVE  Pieces(i, reqs[i]) \in Seq(Piece) /\ Len(Pieces(i, reqs[i])) = Size(reqs[i])
    <3>1. i \in Nat /\ reqs[i] \in Kind
      BY <1>1
    <3> QED BY <3>1, PiecesAre
  <2>2. f \in [1..Len(reqs) -> Seq(Piece)]
    BY <1>1, <2>1
  <2>3. Len(f) = Len(reqs) /\ f \in Seq(Seq(Piece))
    BY <1>1, <2>2
  <2> QED BY <2>1, <2>3
<1> HIDE DEF f
<1>3. wire = FlattenSeq(f)
  BY DEF WireOf, f
<1>4. wire \in Seq(Piece) /\ \E at : FlattenLayout(f, wire, at)
  BY <1>1, <1>2, <1>3, FlattenWhere
<1>5. PICK at : FlattenLayout(f, wire, at)
  BY <1>4
<1>6. /\ at \in [1..Len(reqs) + 1 -> Nat]
      /\ at[1] = 0 /\ at[Len(reqs) + 1] = Len(wire)
      /\ \A i, j \in 1..Len(reqs) + 1 : i <= j => at[i] <= at[j]
  BY <1>2, <1>5 DEF FlattenLayout
<1>7. \A i \in DOMAIN reqs : at[i + 1] = at[i] + Size(reqs[i])
  BY <1>1, <1>2, <1>5 DEF FlattenLayout
<1>8. \A i \in DOMAIN reqs : \A j \in 1..Size(reqs[i]) :
          wire[at[i] + j] = Pieces(i, reqs[i])[j]
  <2>1. ASSUME NEW i \in DOMAIN reqs, NEW j \in 1..Size(reqs[i])
        PROVE  wire[at[i] + j] = Pieces(i, reqs[i])[j]
    <3>1. i \in 1..Len(f) /\ j \in 1..Len(f[i]) /\ f[i] = Pieces(i, reqs[i])
      BY <1>1, <1>2
    <3>2. wire[at[i] + j] = f[i][j]
      BY <1>5, <3>1 DEF FlattenLayout
    <3> QED BY <3>1, <3>2
  <2> QED BY <2>1
<1>9. ASSUME NEW x \in 1..Len(wire)
      PROVE  \E i \in DOMAIN reqs : \E j \in 1..Size(reqs[i]) : x = at[i] + j
  <2>1. PICK i \in 1..Len(f) : \E j \in 1..Len(f[i]) : x = at[i] + j
    BY <1>5 DEF FlattenLayout
  <2>2. i \in DOMAIN reqs /\ Len(f[i]) = Size(reqs[i])
    BY <1>1, <1>2
  <2> QED BY <2>1, <2>2
<1>10. Layout(at)
  BY <1>6, <1>7, <1>8, <1>9 DEF Layout
<1> QED BY <1>4, <1>10

-----------------------------------------------------------------------------
(***************************************************************************)
(* What the parser finds at the start of a line.                           *)
(***************************************************************************)
Answer == [code : Nat, sized : BOOLEAN, req : Nat, body : Seq(Nat), close : BOOLEAN]

\* TypeOK with the types of what TypeOK leaves out.
Types ==
    /\ reqs \in Seq(Kind) /\ reqs # <<>> /\ wire \in Seq(Piece)
    /\ TypeOK
    /\ req \in [line : Nat, head : Nat, body : Seq(Nat)]
    /\ answered \in Seq(Answer)

\* The numbers that the types make of the state.
LEMMA Numbers ==
    ASSUME Types
    PROVE  /\ Len(wire) \in Nat /\ arrived \in Nat /\ read \in Nat
           /\ read <= arrived /\ arrived <= Len(wire)
           /\ Len(req.body) \in Nat /\ req.line \in Nat /\ req.head \in Nat
           /\ Len(answered) \in Nat
           /\ Len(reqs) \in Nat \ {0} /\ DOMAIN reqs = 1..Len(reqs)
           /\ \A i \in DOMAIN reqs : reqs[i] \in Kind
<1>1. Len(wire) \in Nat /\ arrived \in Nat /\ read \in Nat /\ read <= arrived /\ arrived <= Len(wire)
  BY DEF Types, TypeOK
<1>2. req.body \in Seq(Nat) /\ req.line \in Nat /\ req.head \in Nat
  BY DEF Types
<1>3. Len(answered) \in Nat
  BY DEF Types
<1>4. Len(reqs) \in Nat \ {0} /\ DOMAIN reqs = 1..Len(reqs) /\ \A i \in DOMAIN reqs : reqs[i] \in Kind
  BY EmptySeq DEF Types
<1> QED BY <1>1, <1>2, <1>3, <1>4

\* The least number of a set.
LEMMA MinIs ==
    ASSUME NEW S \in SUBSET Int, NEW m \in S, \A x \in S : m <= x
    PROVE  Min(S) = m
<1>1. \A y \in S : (\A x \in S : y <= x) => y = m
  OBVIOUS
<1> QED BY <1>1 DEF Min

\* A set of natural numbers has one.
LEMMA MinExists ==
    ASSUME NEW S \in SUBSET Nat, S # {}
    PROVE  Min(S) \in S
<1>1. PICK x \in S : \A y \in S : ~(<<y, x>> \in OpToRel(<, Nat))
  BY NatLessThanWellFounded, WFMin
<1>2. ASSUME NEW y \in S PROVE x <= y
  <2>1. ~(y < x)
    BY <1>1 DEF OpToRel
  <2> QED BY <2>1
<1> QED BY <1>2 DEF Min

\* A complete line in the Buffer ends in it, with an LF.
LEMMA LineEndType ==
    ASSUME Types
    PROVE  \/ LineEnd = 0
           \/ LineEnd \in read + 1..arrived
<1> DEFINE I == {i \in read + 1..arrived : wire[i].lf}
<1>1. LineEnd = IF I # {} THEN Min(I) ELSE 0
  BY DEF LineEnd, SelectInSubSeq
<1>2. I \in SUBSET Nat
  BY Numbers
<1>3. I # {} => Min(I) \in I
  BY <1>2, MinExists
<1> QED BY <1>1, <1>3

\* The line that ends with the next LF is complete once that has arrived.
LEMMA LineEndIs ==
    ASSUME Types, NEW n \in Nat \ {0}, wire[read + n].lf,
           \A j \in 1..n - 1 : ~wire[read + j].lf
    PROVE  LineEnd = IF read + n <= arrived THEN read + n ELSE 0
<1> DEFINE I == {i \in read + 1..arrived : wire[i].lf}
<1>1. LineEnd = IF I # {} THEN Min(I) ELSE 0
  BY DEF LineEnd, SelectInSubSeq
<1>2. read \in Nat /\ arrived \in Nat
  BY Numbers
<1>3. ASSUME NEW i \in I PROVE i \in Nat /\ read + n <= i /\ i <= arrived
  <2>1. i \in read + 1..arrived /\ wire[i].lf /\ i = read + (i - read)
    BY <1>2
  <2>2. ~(i - read \in 1..n - 1)
    BY <2>1
  <2> QED BY <1>2, <2>1, <2>2
<1>4. CASE read + n <= arrived
  <2>1. read + n \in I
    BY <1>2, <1>4
  <2>2. I \in SUBSET Int
    BY <1>2
  <2>3. Min(I) = read + n
    <3> HIDE DEF I
    <3> QED BY <1>3, <2>1, <2>2, MinIs
  <2> QED BY <1>1, <1>4, <2>1, <2>3
<1>5. CASE ~(read + n <= arrived)
  <2>1. I = {}
    <3>1. ASSUME NEW i \in I PROVE FALSE
      BY <1>2, <1>3, <1>5
    <3> QED BY <3>1
  <2> QED BY <1>1, <1>5, <2>1
<1> QED BY <1>4, <1>5

\* With nothing in the Buffer there is no line.
LEMMA NoLine ==
    ASSUME Types, arrived = read
    PROVE  LineEnd = 0
<1>1. arrived \in Nat /\ read \in Nat
  BY Numbers
<1>2. LineEnd = 0 \/ LineEnd \in read + 1..arrived
  BY LineEndType
<1> QED BY <1>1, <1>2

\* What the pieces are.
LEMMA PieceAt ==
    ASSUME Types, NEW at, Layout(at), NEW i \in DOMAIN reqs, NEW j \in 1..Size(reqs[i])
    PROVE  IsPiece(wire[at[i] + j], i, reqs[i], j)
<1>1. i \in Nat /\ reqs[i] \in Kind
  BY Numbers
<1>2. wire[at[i] + j] = Pieces(i, reqs[i])[j]
  BY DEF Layout
<1> QED BY <1>1, <1>2, PieceIs

\* Where a request starts and ends.
LEMMA Bounds ==
    ASSUME Types, NEW at, Layout(at), NEW i \in DOMAIN reqs
    PROVE  /\ at[i] \in Nat /\ reqs[i] \in Kind
           /\ at[i + 1] = at[i] + Size(reqs[i])
           /\ at[i] + Size(reqs[i]) <= Len(wire) /\ Len(wire) \in Nat
<1>1. /\ Len(reqs) \in Nat /\ i \in 1..Len(reqs) /\ reqs[i] \in Kind
      /\ i \in 1..Len(reqs) + 1 /\ i + 1 \in 1..Len(reqs) + 1 /\ Len(reqs) + 1 \in 1..Len(reqs) + 1
  BY Numbers
<1>2. at[i] \in Nat
  BY <1>1 DEF Layout
<1>3. i + 1 <= Len(reqs) + 1
  BY <1>1
<1>4. at[i + 1] <= at[Len(reqs) + 1]
  BY <1>1, <1>3 DEF Layout
<1> QED BY <1>1, <1>2, <1>4 DEF Layout

\* The pieces of a line with its LF at the end, and the line behind it.
IsLine(i, n, part) ==
    /\ LineEnd = IF read + n <= arrived THEN read + n ELSE 0
    /\ read + n <= Len(wire)
    /\ wire[read + 1].req = i
    /\ wire[read + 1].part = "line" <=> part = "line"
    /\ wire[read + 1].part = "blank" <=> part = "blank"
    /\ part = "line" => wire[read + 1].first

\* At the start of a request is its request line.
LEMMA RequestLine ==
    ASSUME Types, NEW at, Layout(at), NEW i \in DOMAIN reqs, read = at[i]
    PROVE  IsLine(i, reqs[i].line, "line")
<1> DEFINE k == reqs[i]
<1>1. /\ k \in Kind /\ k.line \in Nat \ {0} /\ k.head \in Nat /\ k.body \in Nat
      /\ read \in Nat
  BY Numbers, Bounds, KindIs
<1>2. \A j \in 1..Size(k) : IsPiece(wire[read + j], i, k, j)
  BY PieceAt
<1>2a. at[i] + Size(k) <= Len(wire) /\ Len(wire) \in Nat
  BY Bounds
<1> HIDE DEF k
<1>3. read + k.line <= Len(wire)
  BY <1>1, <1>2a DEF Size
<1>4. k.line \in 1..Size(k) /\ 1 \in 1..Size(k) /\ \A j \in 1..k.line - 1 : j \in 1..Size(k)
  BY <1>1 DEF Size
<1>5. wire[read + k.line].lf
  BY <1>2, <1>4 DEF IsPiece
<1>6. ASSUME NEW j \in 1..k.line - 1 PROVE ~wire[read + j].lf
  <2>1. IsPiece(wire[read + j], i, k, j)
    BY <1>2, <1>4
  <2>2. j # k.line /\ j # k.line + k.head /\ j # k.line + k.head + 1
    BY <1>1
  <2> QED BY <2>1, <2>2 DEF IsPiece
<1>7. LineEnd = IF read + k.line <= arrived THEN read + k.line ELSE 0
  BY <1>1, <1>5, <1>6, LineEndIs
<1>8. IsPiece(wire[read + 1], i, k, 1) /\ 1 <= k.line /\ 1 # k.line + k.head + 1
  BY <1>1, <1>2, <1>4
<1>9. IsLine(i, k.line, "line")
  BY <1>3, <1>7, <1>8 DEF IsLine, IsPiece
<1> QED BY <1>9 DEF k

\* Behind it is its header, if it has one.
LEMMA HeaderLine ==
    ASSUME Types, NEW at, Layout(at), NEW i \in DOMAIN reqs, reqs[i].head # 0,
           read = at[i] + reqs[i].line
    PROVE  IsLine(i, reqs[i].head, "head")
<1> DEFINE k == reqs[i]
<1>1. /\ k \in Kind /\ k.line \in Nat \ {0} /\ k.head \in Nat \ {0} /\ k.body \in Nat
      /\ read \in Nat /\ at[i] \in Nat
  BY Numbers, Bounds, KindIs
<1>2. \A j \in 1..Size(k) : IsPiece(wire[at[i] + j], i, k, j)
  BY PieceAt
<1>3. at[i] + Size(k) <= Len(wire) /\ Len(wire) \in Nat /\ read = at[i] + k.line
  BY Bounds
<1> HIDE DEF k
<1>3a. read + k.head <= Len(wire)
  BY <1>1, <1>3 DEF Size
<1>4. \A j \in 1..k.head : /\ k.line + j \in 1..Size(k) /\ read + j = at[i] + (k.line + j)
  BY <1>1, <1>3 DEF Size
<1>5. \A j \in 1..k.head : IsPiece(wire[read + j], i, k, k.line + j)
  BY <1>2, <1>4
<1>6. wire[read + k.head].lf
  <2>1. k.head \in 1..k.head
    BY <1>1
  <2> QED BY <1>1, <1>5, <2>1 DEF IsPiece
<1>7. ASSUME NEW j \in 1..k.head - 1 PROVE ~wire[read + j].lf
  <2>1. j \in 1..k.head
    BY <1>1
  <2>2. k.line + j # k.line /\ k.line + j # k.line + k.head /\ k.line + j # k.line + k.head + 1
    BY <1>1
  <2> QED BY <1>5, <2>1, <2>2 DEF IsPiece
<1>8. LineEnd = IF read + k.head <= arrived THEN read + k.head ELSE 0
  BY <1>1, <1>6, <1>7, LineEndIs
<1>9. /\ IsPiece(wire[read + 1], i, k, k.line + 1)
      /\ ~(k.line + 1 <= k.line) /\ k.line + 1 # k.line + k.head + 1
  <2>1. 1 \in 1..k.head
    BY <1>1
  <2> QED BY <1>1, <1>5, <2>1
<1>10. IsLine(i, k.head, "head")
  BY <1>3a, <1>8, <1>9 DEF IsLine, IsPiece
<1> QED BY <1>10 DEF k

\* Behind that is its blank line.
LEMMA BlankLine ==
    ASSUME Types, NEW at, Layout(at), NEW i \in DOMAIN reqs,
           read = at[i] + reqs[i].line + reqs[i].head
    PROVE  IsLine(i, 1, "blank")
<1> DEFINE k == reqs[i]
           j == k.line + k.head + 1
<1>1. /\ k \in Kind /\ k.line \in Nat \ {0} /\ k.head \in Nat /\ k.body \in Nat
      /\ read \in Nat /\ at[i] \in Nat
  BY Numbers, Bounds, KindIs
<1>1a. at[i] + Size(k) <= Len(wire) /\ Len(wire) \in Nat /\ read = at[i] + k.line + k.head
  BY Bounds
<1>2. read + 1 <= Len(wire) /\ read + 1 = at[i] + j /\ j \in 1..Size(k)
  <2> HIDE DEF k
  <2> QED BY <1>1, <1>1a DEF Size
<1>3. IsPiece(wire[read + 1], i, k, j)
  BY <1>2, PieceAt
<1>4. ~(j <= k.line)
  BY <1>1
<1>5. wire[read + 1].lf /\ wire[read + 1].req = i /\ wire[read + 1].part = "blank"
  BY <1>3 DEF IsPiece
<1>6. LineEnd = IF read + 1 <= arrived THEN read + 1 ELSE 0
  <2>1. \A m \in 1..1 - 1 : ~wire[read + m].lf
    OBVIOUS
  <2> QED BY <1>5, <2>1, LineEndIs
<1> QED BY <1>2, <1>5, <1>6 DEF IsLine

\* ParseLine takes a line only at the start of a request.
LEMMA StartOfRequest ==
    ASSUME Types, NEW at, Layout(at), read + 1 <= Len(wire),
           wire[read + 1].part = "line", wire[read + 1].first
    PROVE  wire[read + 1].req \in DOMAIN reqs /\ read = at[wire[read + 1].req]
<1>1. read + 1 \in 1..Len(wire) /\ read \in Nat
  BY Numbers
<1>2. PICK i \in DOMAIN reqs : \E j \in 1..Size(reqs[i]) : read + 1 = at[i] + j
  BY <1>1 DEF Layout
<1>3. PICK j \in 1..Size(reqs[i]) : read + 1 = at[i] + j
  BY <1>2
<1>4. IsPiece(wire[read + 1], i, reqs[i], j)
  BY <1>3, PieceAt
<1>5. wire[read + 1].req = i /\ j = 1
  BY <1>4 DEF IsPiece
<1>6. at[i] \in Nat
  BY Bounds
<1> QED BY <1>1, <1>3, <1>5, <1>6

\* The blank line that a request's header ends with.
LEMMA BlankIs ==
    ASSUME Types, NEW at, Layout(at), NEW i \in DOMAIN reqs
    PROVE  Blank(i) = BlankAt(at, i)
<1> DEFINE k == reqs[i]
           b == k.line + k.head + 1
<1>1. /\ k \in Kind /\ k.line \in Nat \ {0} /\ k.head \in Nat /\ k.body \in Nat
      /\ at[i] \in Nat /\ at[i] + Size(k) <= Len(wire) /\ Len(wire) \in Nat
  BY Bounds, KindIs
<1>2. b \in 1..Size(k) /\ at[i] + b = BlankAt(at, i)
  BY <1>1 DEF Size, BlankAt
<1>3. at[i] + b \in 1..Len(wire)
  <2> HIDE DEF k
  <2> QED BY <1>1 DEF Size
<1>4. wire[at[i] + b].req = i /\ wire[at[i] + b].part = "blank"
  BY <1>2, PieceAt DEF IsPiece
<1>5. ASSUME NEW p \in 1..Len(wire), wire[p].req = i, wire[p].part = "blank"
      PROVE  p = at[i] + b
  <2>1. PICK h \in DOMAIN reqs : \E j \in 1..Size(reqs[h]) : p = at[h] + j
    BY DEF Layout
  <2>2. PICK j \in 1..Size(reqs[h]) : p = at[h] + j
    BY <2>1
  <2>3. IsPiece(wire[p], h, reqs[h], j)
    BY <2>2, PieceAt
  <2>4. h = i /\ j = b
    BY <1>5, <2>3 DEF IsPiece
  <2> QED BY <2>2, <2>4
<1>6. DOMAIN wire = 1..Len(wire)
  <2>1. wire \in Seq(Piece)
    BY DEF Types
  <2> QED BY <2>1
<1> QED BY <1>2, <1>3, <1>4, <1>5, <1>6 DEF Blank

-----------------------------------------------------------------------------
(***************************************************************************)
(* Steps that neither parse nor answer.                                    *)
(***************************************************************************)
\* The Content-Length of the request whose body is received.
LEMMA ContentLengthIs ==
    ASSUME Types, NEW at, InBody(at)
    PROVE  /\ req.line \in DOMAIN reqs
           /\ ContentLength = reqs[req.line].length
           /\ ContentLength \in Nat
<1>1. req.line \in DOMAIN reqs /\ HeadTaken(req.line)
  BY DEF InBody, LineTaken
<1>2. reqs[req.line] \in Kind /\ req.line # 0
  BY <1>1, Numbers
<1>3. /\ reqs[req.line].length \in Nat
      /\ reqs[req.line].head = 0 => reqs[req.line].length = 0
  BY <1>2, KindIs
<1> QED BY <1>1, <1>2, <1>3 DEF ContentLength, HeadTaken

\* An empty Buffer is no input to go on with.
LEMMA NothingToRead ==
    ASSUME Types, arrived = read, recv_stat \in {"LINE", "HEAD", "BODY"},
           recv_stat = "BODY" => Len(req.body) < ContentLength
    PROVE  Waits
<1>1. LineEnd = 0
  BY NoLine
<1>2. ReadableSize = 0 /\ 0 <= MaxLine
  BY Numbers, HttpContextAssumption DEF ReadableSize
<1> QED BY <1>1, <1>2 DEF Waits

\* A step after which the parser and the answers are as before.
Quiet == UNCHANGED <<wireVars, read, ctxVars, answered>>

\* Which types a quiet step has to look after.
LEMMA QuietTypes ==
    ASSUME Types, Quiet, arrived' \in arrived..Len(wire),
           pc' \in {"idle", "loop", "recv", "done"},
           stat' \in {"CONNECTED", "DISCONNECTING", "DISCONNECTED"},
           out' \in BOOLEAN, after' \in {"nothing", "release", "shutdown"},
           depth' \in Nat, depth' = 0 <=> pc' = "idle"
    PROVE  Types'
<1>1. /\ reqs' = reqs /\ wire' = wire /\ read' = read /\ recv_stat' = recv_stat
      /\ resp_code' = resp_code /\ req' = req /\ answered' = answered
  BY DEF Quiet, wireVars, ctxVars
<1>2. arrived' \in 0..Len(wire) /\ read \in 0..arrived'
  BY Numbers
<1>3. TypeOK'
  <2>1. arrived' \in 0..Len(wire') /\ read' \in 0..arrived'
    BY <1>1, <1>2
  <2>2. /\ recv_stat' \in {"LINE", "HEAD", "BODY", "OVER", "ERROR"}
        /\ resp_code' \in {200, 400, 414}
        /\ req'.line \in 0..Len(reqs') /\ req'.head \in {0, req'.line}
    BY <1>1 DEF Types, TypeOK
  <2> QED BY <2>1, <2>2, Zenon DEF TypeOK
<1> QED BY <1>1, <1>3, Zenon DEF Types

\* And what of the rest.
LEMMA QuietRest ==
    ASSUME Types, NEW at, Layout(at), Parser(at), Position(at), AnswersMatch, Quiet,
           recv_stat \notin {"OVER", "ERROR"},
           recv_stat = "BODY" /\ pc' # "recv" => Len(req.body) < ContentLength,
           pc' \in {"idle", "done"} => Waits'
    PROVE  Layout(at)' /\ Parser(at)' /\ Position(at)' /\ AnswersMatch'
<1>1. /\ reqs' = reqs /\ wire' = wire /\ read' = read /\ recv_stat' = recv_stat
      /\ resp_code' = resp_code /\ req' = req /\ answered' = answered
  BY DEF Quiet, wireVars, ctxVars
<1>2. Layout(at)'
  BY <1>1 DEF Layout
<1>3. AnswersMatch'
  BY <1>1 DEF AnswersMatch, Framed, Verdict, Blank
<1>4. Position(at)'
  BY <1>1 DEF Position, Framed, Verdict
<1>5. (InHead(at) => InHead(at)') /\ (InBody(at) => InBody(at)') /\ ContentLength' = ContentLength
  BY <1>1 DEF InHead, InBody, LineTaken, HeadTaken, BlankAt, ContentLength
<1>6. Parser(at)'
  BY <1>1, <1>5 DEF Parser
<1> QED BY <1>2, <1>3, <1>4, <1>6

\* Nothing of the parser changes, so it waits as before.
LEMMA StillWaits ==
    ASSUME Waits, Quiet, arrived' = arrived
    PROVE  Waits'
<1>1. /\ reqs' = reqs /\ wire' = wire /\ read' = read /\ recv_stat' = recv_stat
      /\ req' = req
  BY DEF Quiet, wireVars, ctxVars
<1>2. LineEnd' = LineEnd /\ ReadableSize' = ReadableSize /\ ContentLength' = ContentLength
  BY <1>1 DEF LineEnd, SelectInSubSeq, ReadableSize, ContentLength
<1> QED BY <1>1, <1>2 DEF Waits

\* The inductive invariant, given where the requests are.
Inv(at) == Types /\ Layout(at) /\ Parser(at) /\ Position(at) /\ AnswersMatch

\* A quiet step keeps it if what it changes has its type and nothing is held
\* back where the parser is not at work.
LEMMA QuietStep ==
    ASSUME NEW at, Inv(at), Quiet, arrived' \in arrived..Len(wire),
           pc' \in {"idle", "loop", "recv", "done"},
           stat' \in {"CONNECTED", "DISCONNECTING", "DISCONNECTED"},
           out' \in BOOLEAN, after' \in {"nothing", "release", "shutdown"},
           depth' \in Nat, depth' = 0 <=> pc' = "idle",
           recv_stat \notin {"OVER", "ERROR"},
           recv_stat = "BODY" /\ pc' # "recv" => Len(req.body) < ContentLength,
           pc' \in {"idle", "done"} => Waits'
    PROVE  Inv(at)'
<1>1. Types'
  BY QuietTypes, Zenon DEF Inv
<1>2. Layout(at)' /\ Parser(at)' /\ Position(at)' /\ AnswersMatch'
  BY QuietRest, Zenon DEF Inv
<1> QED BY <1>1, <1>2, Zenon DEF Inv

\* What the parser is in between its turns.
LEMMA BetweenTurns ==
    ASSUME NEW at, Inv(at), pc \in {"idle", "loop"}
    PROVE  /\ recv_stat \in {"LINE", "HEAD", "BODY"}
           /\ recv_stat = "BODY" => Len(req.body) < ContentLength
           /\ pc = "idle" => Waits
           /\ arrived \in arrived..Len(wire)
           /\ stat \in {"CONNECTED", "DISCONNECTING", "DISCONNECTED"}
           /\ after \in {"nothing", "release", "shutdown"}
           /\ depth \in Nat /\ (depth = 0 <=> pc = "idle")
<1>1. arrived \in arrived..Len(wire)
  BY Numbers DEF Inv
<1> QED BY <1>1 DEF Inv, Types, TypeOK, Parser

\* The type of out by itself, a Boolean.
LEMMA OutIs ==
    ASSUME NEW at, Inv(at)
    PROVE  out \in BOOLEAN
BY Zenon DEF Inv, Types, TypeOK

\* A handler calls the message callback.
LEMMA MsgCbStep ==
    ASSUME NEW at, Inv(at), NEW then \in {"nothing", "release", "shutdown"}, pc = "idle",
           Quiet, arrived' \in arrived..Len(wire), out' = out, MsgCb(then),
           arrived' = arrived \/ arrived' > read
    PROVE  Inv(at)'
<1>1. /\ recv_stat \in {"LINE", "HEAD", "BODY"}
      /\ recv_stat = "BODY" => Len(req.body) < ContentLength
      /\ Waits /\ stat \in {"CONNECTED", "DISCONNECTING", "DISCONNECTED"}
  BY BetweenTurns
<1>2. out' \in BOOLEAN
  BY OutIs, Zenon
<1>3. after' = then
  BY DEF MsgCb
<1>4. CASE arrived' > read
  <2>1. pc' = "loop" /\ depth' = 1
    BY <1>4 DEF MsgCb
  <2>2. stat' \in {"CONNECTED", "DISCONNECTING", "DISCONNECTED"}
    BY <1>1, <1>4, Zenon DEF MsgCb
  <2> QED BY <1>1, <1>2, <1>3, <2>1, <2>2, QuietStep
<1>5. CASE ~(arrived' > read)
  <2>1. pc' = "idle" /\ depth' = 0
    BY <1>5 DEF MsgCb, Finish
  <2>2. stat' \in {"CONNECTED", "DISCONNECTING", "DISCONNECTED"}
    BY <1>1, <1>5, Zenon DEF MsgCb, Finish
  <2>3. arrived' = arrived
    BY <1>5
  <2>4. Waits'
    BY <1>1, <2>3, StillWaits
  <2> QED BY <1>1, <1>2, <1>3, <2>1, <2>2, <2>4, QuietStep
<1> QED BY <1>4, <1>5

\* New input.
LEMMA HandleReadStep ==
    ASSUME NEW at, Inv(at), HandleRead
    PROVE  Inv(at)'
<1>1. /\ pc = "idle" /\ arrived' \in arrived + 1..Len(wire) /\ Quiet /\ out' = out
      /\ MsgCb("nothing")
  BY DEF HandleRead, Quiet
<1>2. Types
  BY DEF Inv
<1>3. arrived' \in arrived..Len(wire) /\ arrived' > read
  BY <1>1, <1>2, Numbers
<1> QED BY <1>1, <1>3, MsgCbStep

\* The end of the input, or a failure of recv.
LEMMA HandleEndStep ==
    ASSUME NEW at, Inv(at), NEW then \in {"release", "shutdown"}, HandleEnd(then)
    PROVE  Inv(at)'
<1>1. pc = "idle" /\ arrived' = arrived /\ Quiet /\ out' = out /\ MsgCb(then)
  BY DEF HandleEnd, Quiet
<1>2. arrived' \in arrived..Len(wire)
  BY <1>1, BetweenTurns
<1> QED BY <1>1, <1>2, MsgCbStep

\* HandleWrite and Ontime.
LEMMA OutsideStep ==
    ASSUME NEW at, Inv(at), HandleWrite \/ Ontime
    PROVE  Inv(at)'
<1>1. pc = "idle" /\ pc' = "idle" /\ arrived' = arrived /\ Quiet /\ after' = after /\ depth' = depth
  BY DEF HandleWrite, Ontime, Quiet
<1>2. /\ recv_stat \in {"LINE", "HEAD", "BODY"}
      /\ recv_stat = "BODY" => Len(req.body) < ContentLength
      /\ Waits /\ arrived' \in arrived..Len(wire)
      /\ stat \in {"CONNECTED", "DISCONNECTING", "DISCONNECTED"}
      /\ after' \in {"nothing", "release", "shutdown"}
      /\ depth' \in Nat /\ (depth' = 0 <=> pc' = "idle")
  BY <1>1, BetweenTurns
<1>3. out' \in BOOLEAN
  BY OutIs, Zenon DEF HandleWrite, Ontime
<1>4. stat' \in {"CONNECTED", "DISCONNECTING", "DISCONNECTED"}
  BY <1>2, Zenon DEF HandleWrite, Ontime
<1>5. Waits'
  BY <1>1, <1>2, StillWaits
<1> QED BY <1>1, <1>2, <1>3, <1>4, <1>5, QuietStep

\* OnMessage's loop: to the parser if there is input, back to the caller if not.
LEMMA LoopStep ==
    ASSUME NEW at, Inv(at), Loop
    PROVE  Inv(at)'
<1>1. pc = "loop" /\ arrived' = arrived /\ Quiet /\ after' = after /\ out' = out
  BY DEF Loop, Quiet
<1>2. /\ recv_stat \in {"LINE", "HEAD", "BODY"}
      /\ recv_stat = "BODY" => Len(req.body) < ContentLength
      /\ arrived' \in arrived..Len(wire)
      /\ stat \in {"CONNECTED", "DISCONNECTING", "DISCONNECTED"}
      /\ after' \in {"nothing", "release", "shutdown"}
      /\ depth \in Nat /\ depth # 0
  BY <1>1, BetweenTurns
<1>3. out' \in BOOLEAN
  BY <1>1, OutIs, Zenon
<1>4. CASE ReadableSize = 0
  <2>1. Return(stat)
    BY <1>4 DEF Loop
  <2>2. /\ depth' \in Nat /\ pc' \in {"idle", "loop"}
        /\ depth' = 0 <=> pc' = "idle"
    BY <1>2, <2>1 DEF Return, Finish
  <2>3. stat' \in {"CONNECTED", "DISCONNECTING", "DISCONNECTED"}
    BY <1>2, <2>1, Zenon DEF Return, Finish
  <2>4. arrived = read
    <3>1. Types
      BY DEF Inv
    <3> QED BY <1>4, <3>1, Numbers DEF ReadableSize
  <2>5. Waits
    BY <1>2, <2>4, NothingToRead DEF Inv
  <2>6. Waits'
    BY <1>1, <2>5, StillWaits
  <2> QED BY <1>1, <1>2, <1>3, <2>2, <2>3, <2>6, QuietStep
<1>5. CASE ReadableSize # 0
  <2>1. pc' = "recv" /\ depth' = depth /\ stat' = stat
    BY <1>5 DEF Loop
  <2> QED BY <1>1, <1>2, <1>3, <2>1, QuietStep
<1> QED BY <1>4, <1>5

\* OnMessage returns to wait for more input.
LEMMA OnIncompleteStep ==
    ASSUME NEW at, Inv(at), OnIncomplete
    PROVE  Inv(at)'
<1>1. /\ pc = "done" /\ arrived' = arrived /\ Quiet /\ after' = after /\ out' = out
      /\ resp_code < 400 /\ recv_stat # "OVER" /\ Return(stat)
  BY DEF OnIncomplete, Quiet, AwaitInput
<1>2. /\ stat \in {"CONNECTED", "DISCONNECTING", "DISCONNECTED"}
      /\ after' \in {"nothing", "release", "shutdown"}
      /\ depth \in Nat /\ depth # 0 /\ resp_code = 200
      /\ recv_stat \in {"LINE", "HEAD", "BODY", "OVER", "ERROR"}
  BY <1>1 DEF Inv, Types, TypeOK
<1>3. /\ recv_stat \notin {"OVER", "ERROR"}
      /\ recv_stat = "BODY" => Len(req.body) < ContentLength
      /\ Waits
  BY <1>1, <1>2 DEF Inv, Parser
<1>4. out' \in BOOLEAN
  BY <1>1, OutIs, Zenon
<1>5. arrived' \in arrived..Len(wire)
  BY <1>1, Numbers DEF Inv
<1>6. /\ depth' \in Nat /\ pc' \in {"idle", "loop"}
      /\ depth' = 0 <=> pc' = "idle"
  BY <1>1, <1>2 DEF Return, Finish
<1>7. stat' \in {"CONNECTED", "DISCONNECTING", "DISCONNECTED"}
  BY <1>1, <1>2, Zenon DEF Return, Finish
<1>8. Waits'
  BY <1>1, <1>3, StillWaits
<1> QED BY <1>1, <1>2, <1>3, <1>4, <1>5, <1>6, <1>7, <1>8, QuietStep

-----------------------------------------------------------------------------
(***************************************************************************)
(* The parser's turns.                                                     *)
(***************************************************************************)
\* The code that a request deserves.
LEMMA VerdictIs ==
    ASSUME Types, NEW i \in DOMAIN reqs
    PROVE  /\ reqs[i].line > MaxLine => Verdict(i) = 414
           /\ reqs[i].line <= MaxLine /\ ~reqs[i].proper => Verdict(i) = 400
           /\ LineTaken(i) /\ reqs[i].head > MaxLine => Verdict(i) = 414
           /\ LineTaken(i) /\ reqs[i].head \in 1..MaxLine /\ ~reqs[i].field => Verdict(i) = 400
           /\ LineTaken(i) /\ HeadTaken(i) =>
                Verdict(i) = IF reqs[i].route = "none" THEN 404 ELSE 200
<1> DEFINE k == reqs[i]
<1>1. k.line \in Nat \ {0} /\ k.head \in Nat /\ MaxLine \in Nat \ {0}
  BY Numbers, KindIs, HttpContextAssumption
<1>2. CASE k.line > MaxLine
  <2>1. ~(k.line <= MaxLine)
    BY <1>1, <1>2
  <2> QED BY <1>2, <2>1 DEF Verdict, LineTaken
<1>3. CASE k.line <= MaxLine /\ ~k.proper
  <2>1. ~(k.line > MaxLine)
    BY <1>1, <1>3
  <2> QED BY <1>3, <2>1 DEF Verdict, LineTaken
<1>4. CASE k.line <= MaxLine /\ k.proper
  <2>1. ~(k.line > MaxLine)
    BY <1>1, <1>4
  <2>2. CASE k.head > MaxLine
    <3>1. k.head \notin 1..MaxLine /\ k.head # 0
      BY <1>1, <2>2
    <3> QED BY <1>4, <2>1, <2>2, <3>1 DEF Verdict, LineTaken, HeadTaken
  <2>3. CASE ~(k.head > MaxLine) /\ k.head \in 1..MaxLine /\ ~k.field
    <3>1. k.head # 0
      BY <1>1, <2>3
    <3> QED BY <1>4, <2>1, <2>3, <3>1 DEF Verdict, LineTaken, HeadTaken
  <2>4. CASE ~(k.head > MaxLine) /\ ~(k.head \in 1..MaxLine /\ ~k.field)
    BY <1>4, <2>1, <2>4 DEF Verdict, LineTaken, HeadTaken
  <2> QED BY <2>2, <2>3, <2>4
<1> QED BY <1>1, <1>2, <1>3, <1>4

\* What a turn of the parser leaves alone.
Turn ==
    /\ pc = "recv"
    /\ UNCHANGED <<wireVars, arrived, connVars>>
    /\ read' \in read..arrived

\* The parts of Inv that a turn cannot disturb.
LEMMA TurnKeeps ==
    ASSUME NEW at, Inv(at), Turn,
           recv_stat' \in {"LINE", "HEAD", "BODY", "OVER", "ERROR"},
           resp_code' \in {200, 400, 414},
           req' \in [line : Nat, head : Nat, body : Seq(Nat)],
           req'.line \in 0..Len(reqs), req'.head \in {0, req'.line},
           pc' \in {"recv", "done"}
    PROVE  Types' /\ Layout(at)' /\ AnswersMatch'
<1>1. /\ reqs' = reqs /\ wire' = wire /\ arrived' = arrived /\ answered' = answered
      /\ stat' = stat /\ out' = out /\ depth' = depth /\ after' = after
  BY DEF Turn, wireVars, connVars
<1>2. arrived \in 0..Len(wire) /\ read' \in 0..arrived
  <2>1. Types
    BY DEF Inv
  <2> QED BY <2>1, Numbers DEF Turn
<1>3. TypeOK'
  <2>1. arrived' \in 0..Len(wire') /\ read' \in 0..arrived' /\ req'.line \in 0..Len(reqs')
    BY <1>1, <1>2
  <2>2. depth' \in Nat /\ (depth' = 0 <=> pc' = "idle")
    BY <1>1 DEF Inv, Types, TypeOK, Turn
  <2>3. stat' \in {"CONNECTED", "DISCONNECTING", "DISCONNECTED"}
        /\ after' \in {"nothing", "release", "shutdown"}
    BY <1>1 DEF Inv, Types, TypeOK
  <2>4. out' \in BOOLEAN
    BY <1>1, Zenon DEF Inv, Types, TypeOK
  <2>5. pc' \in {"idle", "loop", "recv", "done"}
    OBVIOUS
  <2> QED BY <2>1, <2>2, <2>3, <2>4, <2>5, Zenon DEF TypeOK
<1>4. Types'
  BY <1>1, <1>3, Zenon DEF Inv, Types
<1>5. Layout(at)'
  BY <1>1 DEF Inv, Layout
<1>6. AnswersMatch'
  <2>1. AnswersMatch
    BY DEF Inv
  <2> QED BY <1>1, <2>1 DEF AnswersMatch, Framed, Verdict, Blank
<1> QED BY <1>4, <1>5, <1>6

\* A turn changes nothing that says which request is well framed.
LEMMA SameFraming ==
    ASSUME Turn
    PROVE  /\ answered' = answered /\ reqs' = reqs
           /\ \A k : Framed(k)' = Framed(k) /\ Verdict(k)' = Verdict(k)
<1>1. answered' = answered /\ reqs' = reqs
  BY DEF Turn, wireVars, connVars
<1>2. \A k : Verdict(k)' = Verdict(k)
  BY <1>1 DEF Verdict
<1>3. \A k : Framed(k)' = Framed(k)
  BY <1>1, <1>2 DEF Framed
<1> QED BY <1>1, <1>2, <1>3

\* The parser waits for more input.
LEMMA AwaitTurn ==
    ASSUME NEW at, Inv(at), Turn, recv_stat \in {"LINE", "HEAD"},
           LineEnd = 0, ReadableSize <= MaxLine,
           read' = read, pc' = "done", UNCHANGED ctxVars
    PROVE  Inv(at)'
<1>1. Quiet /\ arrived' = arrived
  BY DEF Turn, Quiet, connVars
<1>2. arrived' \in arrived..Len(wire)
  BY <1>1, Numbers DEF Inv
<1>3. Waits
  BY DEF Waits
<1>4. Waits'
  BY <1>1, <1>3, StillWaits
<1>5. out' \in BOOLEAN
  <2>1. out' = out
    BY DEF Turn, connVars
  <2> QED BY <2>1, OutIs, Zenon
<1>6. /\ stat' \in {"CONNECTED", "DISCONNECTING", "DISCONNECTED"}
      /\ after' \in {"nothing", "release", "shutdown"}
      /\ depth' \in Nat /\ (depth' = 0 <=> pc' = "idle")
  BY DEF Turn, connVars, Inv, Types, TypeOK
<1> QED BY <1>1, <1>2, <1>4, <1>5, <1>6, QuietStep

\* The parser rejects the request.
LEMMA FailTurn ==
    ASSUME NEW at, Inv(at), Turn, NEW code \in {400, 414}, Fail(code),
           Framed(Len(answered) + 1) =>
              /\ Len(answered) + 1 \in DOMAIN reqs
              /\ Verdict(Len(answered) + 1) = code
    PROVE  Inv(at)'
<1>1. recv_stat' = "ERROR" /\ resp_code' = code /\ pc' = "done" /\ req' = req
  BY DEF Fail
<1>2. Types' /\ Layout(at)' /\ AnswersMatch'
  <2>1. /\ req' \in [line : Nat, head : Nat, body : Seq(Nat)]
        /\ req'.line \in 0..Len(reqs) /\ req'.head \in {0, req'.line}
    BY <1>1 DEF Inv, Types, TypeOK
  <2> QED BY <1>1, <2>1, TurnKeeps
<1>3. Parser(at)'
  BY <1>1 DEF Parser
<1>4. Position(at)'
  <2>1. Framed(Len(answered) + 1)' =>
           /\ Len(answered) + 1 \in DOMAIN reqs
           /\ Verdict(Len(answered) + 1)' = code
    BY SameFraming
  <2>2. Len(answered) + 1 \in DOMAIN reqs => Len(answered) + 1 <= Len(reqs) + 1
    <3>1. Types
      BY DEF Inv
    <3> QED BY <3>1, Numbers
  <2> QED BY <1>1, <2>1, <2>2, SameFraming DEF Position
<1> QED BY <1>2, <1>3, <1>4 DEF Inv

\* The parser accepts a line of request i.
LEMMA AcceptTurn ==
    ASSUME NEW at, Inv(at), Turn, recv_stat \in {"LINE", "HEAD"},
           recv_stat' \in {"HEAD", "BODY"}, resp_code' = resp_code, pc' = pc,
           req' \in [line : Nat, head : Nat, body : Seq(Nat)],
           NEW i \in DOMAIN reqs, req'.line = i, req'.head \in {0, i},
           recv_stat' = "HEAD" => InHead(at)',
           recv_stat' = "BODY" => InBody(at)',
           Framed(Len(answered) + 1) => i = Len(answered) + 1
    PROVE  Inv(at)'
<1>1. Types /\ resp_code = 200 /\ pc' = "recv" /\ i \in 1..Len(reqs)
  BY Numbers DEF Inv, Parser, Turn
<1>2. Types' /\ Layout(at)' /\ AnswersMatch'
  <2>1. i \in 0..Len(reqs)
    BY <1>1
  <2> QED BY <1>1, <2>1, TurnKeeps
<1>3. Parser(at)'
  BY <1>1 DEF Parser
<1>4. Position(at)'
  <2>1. Framed(Len(answered) + 1)' => i = Len(answered) + 1
    BY SameFraming
  <2>2. i <= Len(reqs) + 1
    BY <1>1, Numbers
  <2> QED BY <2>1, <2>2, SameFraming DEF Position
<1> QED BY <1>2, <1>3, <1>4 DEF Inv

\* The next request starts here, if it can be said where it starts.
LEMMA StartsHere ==
    ASSUME NEW at, Inv(at), recv_stat = "LINE", arrived # read, Framed(Len(answered) + 1)
    PROVE  Len(answered) + 1 \in DOMAIN reqs /\ read = at[Len(answered) + 1]
<1> DEFINE k == Len(answered) + 1
<1>1. k <= Len(reqs) + 1 /\ read = at[k]
  BY DEF Inv, Position
<1>2. /\ Len(answered) \in Nat /\ Len(reqs) \in Nat /\ DOMAIN reqs = 1..Len(reqs)
      /\ read <= arrived /\ arrived <= Len(wire) /\ read \in Nat /\ arrived \in Nat
      /\ Len(wire) \in Nat
  BY Numbers DEF Inv
<1>3. k # Len(reqs) + 1
  <2>1. ASSUME k = Len(reqs) + 1 PROVE FALSE
    <3>1. read = Len(wire)
      BY <1>1, <2>1 DEF Inv, Layout
    <3> QED BY <1>2, <3>1
  <2> QED BY <2>1
<1> QED BY <1>1, <1>2, <1>3

\* The size that RecvLine checks.
LineSize == IF LineEnd = 0 THEN ReadableSize ELSE LineEnd - read

\* It is a size, and there is input to fill a line.
LEMMA LineSizeIs ==
    ASSUME Types
    PROVE  /\ LineSize \in Nat /\ LineEnd \in Nat /\ ReadableSize \in Nat
           /\ LineEnd # 0 => read + 1 <= Len(wire) /\ LineEnd \in read..arrived
           /\ LineEnd # 0 \/ LineSize > MaxLine => arrived # read
<1>1. /\ arrived \in Nat /\ read \in Nat /\ read <= arrived /\ arrived <= Len(wire)
      /\ Len(wire) \in Nat /\ MaxLine \in Nat
  BY Numbers, HttpContextAssumption
<1>2. LineEnd = 0 \/ LineEnd \in read + 1..arrived
  BY LineEndType
<1> QED BY <1>1, <1>2 DEF LineSize, ReadableSize

\* A line of n pieces is that long when it is complete, and no longer before.
LEMMA LineSizeOf ==
    ASSUME Types, NEW i, NEW n \in Nat \ {0}, NEW part, IsLine(i, n, part)
    PROVE  /\ LineSize <= n
           /\ LineEnd # 0 => LineEnd = read + n /\ LineSize = n
<1>1. arrived \in Nat /\ read \in Nat /\ read <= arrived
  BY Numbers
<1>2. LineEnd = IF read + n <= arrived THEN read + n ELSE 0
  BY DEF IsLine
<1>3. LineSize = IF LineEnd = 0 THEN arrived - read ELSE LineEnd - read
  BY DEF LineSize, ReadableSize
<1>4. CASE read + n <= arrived
  <2>1. LineEnd = read + n
    BY <1>2, <1>4
  <2>2. LineEnd # 0
    BY <1>1, <2>1
  <2>3. LineSize = LineEnd - read
    BY <1>3, <2>2
  <2> QED BY <1>1, <2>1, <2>3
<1>5. CASE ~(read + n <= arrived)
  <2>1. LineEnd = 0
    BY <1>2, <1>5
  <2>2. LineSize = arrived - read
    BY <1>3, <2>1
  <2> QED BY <1>1, <1>5, <2>1, <2>2
<1> QED BY <1>4, <1>5

\* RecvLine, with its outcomes told apart.
LEMMA RecvLineIs ==
    ASSUME Types, RecvLine
    PROVE  /\ read' = IF LineEnd = 0 THEN read ELSE LineEnd
           /\ UNCHANGED <<wireVars, arrived>>
           /\ \/ LineSize > MaxLine /\ Fail(414)
              \/ LineSize <= MaxLine /\ LineEnd = 0 /\ pc' = "done" /\ UNCHANGED ctxVars
              \/ /\ LineSize <= MaxLine /\ LineEnd # 0
                 /\ recv_stat = "LINE" => ParseLine(wire[read + 1])
                 /\ recv_stat # "LINE" => ParseHead(wire[read + 1])
<1>1. LineSize \in Nat /\ MaxLine \in Nat
  BY LineSizeIs, HttpContextAssumption
<1>2. read' = (IF LineEnd = 0 THEN read ELSE LineEnd) /\ UNCHANGED <<wireVars, arrived>>
  BY DEF RecvLine
<1>3. CASE LineSize > MaxLine
  <2>1. ~(LineSize <= MaxLine)
    BY <1>1, <1>3
  <2>2. Fail(414)
    BY <1>3, <2>1 DEF RecvLine, LineSize
  <2> QED BY <1>2, <1>3, <2>2
<1>4. CASE ~(LineSize > MaxLine)
  <2>1. LineSize <= MaxLine
    BY <1>1, <1>4
  <2>2. CASE LineEnd = 0
    BY <1>2, <1>4, <2>1, <2>2 DEF RecvLine, LineSize
  <2>3. CASE LineEnd # 0 /\ recv_stat = "LINE"
    <3>1. ParseLine(wire[read + 1])
      BY <1>4, <2>1, <2>3 DEF RecvLine, LineSize
    <3> QED BY <1>2, <2>1, <2>3, <3>1
  <2>4. CASE LineEnd # 0 /\ recv_stat # "LINE"
    <3>1. ParseHead(wire[read + 1])
      BY <1>4, <2>1, <2>4 DEF RecvLine, LineSize
    <3> QED BY <1>2, <2>1, <2>4, <3>1
  <2> QED BY <2>2, <2>3, <2>4
<1> QED BY <1>3, <1>4

\* RecvLine is a turn.
LEMMA RecvLineTurn ==
    ASSUME Types, RecvLine, pc = "recv", UNCHANGED connVars
    PROVE  Turn
<1>1. read' = (IF LineEnd = 0 THEN read ELSE LineEnd) /\ UNCHANGED <<wireVars, arrived>>
  BY RecvLineIs
<1>2. read \in read..arrived
  BY Numbers
<1>3. LineEnd # 0 => LineEnd \in read..arrived
  BY LineSizeIs
<1> QED BY <1>1, <1>2, <1>3 DEF Turn

\* RecvLine at the start of a request.
LEMMA LineStage ==
    ASSUME NEW at, Inv(at), pc = "recv", recv_stat = "LINE", RecvLine, UNCHANGED connVars
    PROVE  Inv(at)'
<1> DEFINE k == Len(answered) + 1
           first == wire[read + 1]
<1>1. Types /\ Layout(at)
  BY DEF Inv
<1>2. Turn
  BY <1>1, RecvLineTurn
<1>3. /\ LineSize \in Nat /\ LineEnd \in Nat /\ MaxLine \in Nat
      /\ LineEnd # 0 => read + 1 <= Len(wire)
      /\ LineEnd # 0 \/ LineSize > MaxLine => arrived # read
      /\ LineEnd = 0 => LineSize = ReadableSize
  BY <1>1, LineSizeIs, HttpContextAssumption DEF LineSize
<1>4. req = Fresh
  BY DEF Inv, Parser
<1>5. ASSUME NEW i \in DOMAIN reqs, read = at[i]
      PROVE  /\ reqs[i].line \in Nat \ {0}
             /\ IsLine(i, reqs[i].line, "line")
             /\ LineSize <= reqs[i].line
             /\ LineEnd # 0 => LineEnd = read + reqs[i].line /\ LineSize = reqs[i].line
  <2>1. reqs[i].line \in Nat \ {0}
    BY <1>1, Numbers, KindIs
  <2>2. IsLine(i, reqs[i].line, "line")
    BY <1>1, <1>5, RequestLine
  <2> QED BY <1>1, <2>1, <2>2, LineSizeOf
<1>6. Framed(k) /\ arrived # read => k \in DOMAIN reqs /\ read = at[k]
  BY StartsHere
<1>7. CASE LineSize > MaxLine /\ Fail(414)
  <2>1. ASSUME Framed(k) PROVE k \in DOMAIN reqs /\ Verdict(k) = 414
    <3>1. k \in DOMAIN reqs /\ read = at[k]
      BY <1>3, <1>6, <1>7, <2>1
    <3>2. reqs[k].line > MaxLine
      <4> HIDE DEF k
      <4>1. reqs[k].line \in Nat /\ LineSize <= reqs[k].line
        BY <1>5, <3>1
      <4> QED BY <1>3, <1>7, <4>1
    <3> QED BY <1>1, <3>1, <3>2, VerdictIs
  <2> QED BY <1>2, <1>7, <2>1, FailTurn
<1>8. CASE LineSize <= MaxLine /\ LineEnd = 0 /\ pc' = "done" /\ UNCHANGED ctxVars
  <2>1. read' = read
    BY <1>1, <1>8, RecvLineIs
  <2> QED BY <1>2, <1>3, <1>8, <2>1, AwaitTurn
<1>9. CASE LineSize <= MaxLine /\ LineEnd # 0 /\ ParseLine(first)
  <2>1. read' = LineEnd
    BY <1>1, <1>9, RecvLineIs
  <2>2. CASE first.part = "line" /\ first.first /\ reqs[first.req].proper
    <3>1. PICK i : i = first.req
      OBVIOUS
    <3>2. i \in DOMAIN reqs /\ read = at[i] /\ reqs[i].proper
      BY <1>1, <1>3, <1>9, <2>2, <3>1, StartOfRequest
    <3>3. LineTaken(i) /\ read' = at[i] + reqs[i].line
      <4>1. reqs[i].line <= MaxLine /\ LineEnd = read + reqs[i].line
        BY <1>5, <1>9, <3>2
      <4> QED BY <2>1, <3>2, <4>1 DEF LineTaken
    <3>4. Accept("HEAD", [req EXCEPT !.line = i])
      BY <1>9, <2>2, <3>1 DEF ParseLine
    <3>5. /\ recv_stat' = "HEAD" /\ resp_code' = resp_code /\ pc' = pc
          /\ req' = [line |-> i, head |-> 0, body |-> <<>>]
      BY <1>4, <3>4 DEF Accept, Fresh
    <3>6. req'.line = i /\ req'.head = 0 /\ req'.body = <<>>
      BY <3>5
    <3>7. InHead(at)'
      <4>1. reqs' = reqs
        BY <1>2 DEF Turn, wireVars
      <4>2. LineTaken(i)'
        BY <3>3, <4>1 DEF LineTaken
      <4> QED BY <3>3, <3>6, <4>1, <4>2 DEF InHead
    <3>8. Framed(k) => i = k
      <4>1. ASSUME Framed(k) PROVE i = k
        <5>1. k \in DOMAIN reqs /\ read = at[k]
          BY <1>3, <1>6, <1>9, <4>1
        <5>2. IsLine(k, reqs[k].line, "line")
          BY <1>5, <5>1
        <5> QED BY <3>1, <5>2 DEF IsLine
      <4> QED BY <4>1
    <3>9. req' \in [line : Nat, head : Nat, body : Seq(Nat)]
      <4>1. i \in Nat
        BY <1>1, <3>2, Numbers
      <4>2. <<>> \in Seq(Nat)
        OBVIOUS
      <4> QED BY <3>5, <4>1, <4>2
    <3>10. req'.head \in {0, i}
      BY <3>6
    <3> HIDE DEF k, first
    <3> QED BY <1>2, <3>2, <3>5, <3>6, <3>7, <3>8, <3>9, <3>10, AcceptTurn DEF k
  <2>3. CASE ~(first.part = "line" /\ first.first /\ reqs[first.req].proper)
    <3>1. Fail(400)
      BY <1>9, <2>3 DEF ParseLine
    <3>2. ASSUME Framed(k) PROVE k \in DOMAIN reqs /\ Verdict(k) = 400
      <4>1. k \in DOMAIN reqs /\ read = at[k]
        BY <1>3, <1>6, <1>9, <3>2
      <4>2. IsLine(k, reqs[k].line, "line") /\ reqs[k].line <= MaxLine
        BY <1>5, <1>9, <4>1
      <4>3. ~reqs[k].proper
        BY <2>3, <4>2 DEF IsLine
      <4> QED BY <1>1, <4>1, <4>2, <4>3, VerdictIs
    <3> QED BY <1>2, <3>1, <3>2, FailTurn
  <2> QED BY <2>2, <2>3
<1> QED BY <1>1, <1>7, <1>8, <1>9, RecvLineIs

\* RecvHead at the header of the request whose line was taken.
LEMMA HeaderStage ==
    ASSUME NEW at, Inv(at), pc = "recv", recv_stat = "HEAD", RecvLine, UNCHANGED connVars,
           NEW i \in DOMAIN reqs, req.line = i, req.head = 0, reqs[i].head # 0
    PROVE  Inv(at)'
<1> DEFINE k == Len(answered) + 1
           first == wire[read + 1]
<1>1. Types /\ Layout(at)
  BY DEF Inv
<1>2. Turn /\ reqs' = reqs
  BY <1>1, RecvLineTurn DEF Turn, wireVars
<1>3. /\ LineSize \in Nat /\ LineEnd \in Nat /\ MaxLine \in Nat
      /\ LineEnd = 0 => LineSize = ReadableSize
  BY <1>1, LineSizeIs, HttpContextAssumption DEF LineSize
<1>4. LineTaken(i) /\ req.body = <<>> /\ read = at[i] + reqs[i].line /\ i # 0
  BY <1>1, Numbers DEF Inv, Parser, InHead
<1>5. reqs[i].head \in Nat \ {0}
  BY <1>1, Numbers, KindIs
<1>6. IsLine(i, reqs[i].head, "head")
  BY <1>1, <1>4, HeaderLine
<1>7. /\ LineSize <= reqs[i].head
      /\ LineEnd # 0 => LineEnd = read + reqs[i].head /\ LineSize = reqs[i].head
  BY <1>1, <1>5, <1>6, LineSizeOf
<1>8. Framed(k) => i = k
  BY DEF Inv, Position
<1>9. CASE LineSize > MaxLine /\ Fail(414)
  <2>1. reqs[i].head > MaxLine
    BY <1>3, <1>5, <1>7, <1>9
  <2>2. Verdict(i) = 414
    BY <1>1, <1>4, <2>1, VerdictIs
  <2>3. Framed(k) => k \in DOMAIN reqs /\ Verdict(k) = 414
    BY <1>8, <2>2
  <2> QED BY <1>2, <1>9, <2>3, FailTurn
<1>10. CASE LineSize <= MaxLine /\ LineEnd = 0 /\ pc' = "done" /\ UNCHANGED ctxVars
  <2>1. read' = read
    BY <1>1, <1>10, RecvLineIs
  <2> QED BY <1>2, <1>3, <1>10, <2>1, AwaitTurn
<1>11. CASE LineSize <= MaxLine /\ LineEnd # 0 /\ ParseHead(first)
  <2>1. read' = LineEnd
    BY <1>1, <1>11, RecvLineIs
  <2>2. first.req = i /\ first.part # "blank" /\ reqs[i].head \in 1..MaxLine
    BY <1>3, <1>5, <1>6, <1>7, <1>11 DEF IsLine
  <2>3. CASE reqs[i].field
    <3>1. Accept("HEAD", [req EXCEPT !.head = i])
      BY <1>11, <2>2, <2>3 DEF ParseHead
    <3>2. req \in [line : Nat, head : Nat, body : Seq(Nat)] /\ i \in Nat
      BY <1>1, Numbers DEF Types
    <3>3. /\ recv_stat' = "HEAD" /\ resp_code' = resp_code /\ pc' = pc
          /\ req' = [line |-> i, head |-> i, body |-> <<>>]
      BY <1>4, <3>1, <3>2 DEF Accept
    <3>4. req' \in [line : Nat, head : Nat, body : Seq(Nat)]
      BY <3>2, <3>3
    <3>5. InHead(at)'
      <4>1. LineTaken(i)'
        BY <1>2, <1>4 DEF LineTaken
      <4>2. req'.line = i /\ req'.head = i /\ req'.body = <<>>
        BY <3>3
      <4>3. HeadTaken(i)'
        BY <1>2, <2>2, <2>3, <4>2 DEF HeadTaken
      <4>4. read' = at[i] + reqs[i].line + reqs[i].head
        BY <1>4, <1>7, <1>11, <2>1
      <4> QED BY <1>2, <4>1, <4>2, <4>3, <4>4 DEF InHead
    <3>6. req'.line = i /\ req'.head \in {0, i}
      BY <3>3
    <3> HIDE DEF k, first
    <3> QED BY <1>2, <1>8, <3>3, <3>4, <3>5, <3>6, AcceptTurn DEF k
  <2>4. CASE ~reqs[i].field
    <3>1. Fail(400)
      BY <1>11, <2>2, <2>4 DEF ParseHead
    <3>2. Verdict(i) = 400
      BY <1>1, <1>4, <2>2, <2>4, VerdictIs
    <3>3. Framed(k) => k \in DOMAIN reqs /\ Verdict(k) = 400
      BY <1>8, <3>2
    <3> QED BY <1>2, <3>1, <3>3, FailTurn
  <2> QED BY <2>3, <2>4
<1>12. recv_stat # "LINE"
  OBVIOUS
<1> QED BY <1>1, <1>9, <1>10, <1>11, <1>12, RecvLineIs

\* And at its blank line.
LEMMA BlankStage ==
    ASSUME NEW at, Inv(at), pc = "recv", recv_stat = "HEAD", RecvLine, UNCHANGED connVars,
           NEW i \in DOMAIN reqs, req.line = i, HeadTaken(i),
           read = at[i] + reqs[i].line + reqs[i].head
    PROVE  Inv(at)'
<1> DEFINE k == Len(answered) + 1
           first == wire[read + 1]
<1>1. Types /\ Layout(at)
  BY DEF Inv
<1>2. Turn /\ reqs' = reqs
  BY <1>1, RecvLineTurn DEF Turn, wireVars
<1>3. /\ LineSize \in Nat /\ LineEnd \in Nat /\ MaxLine \in Nat \ {0}
      /\ LineEnd = 0 => LineSize = ReadableSize
  BY <1>1, LineSizeIs, HttpContextAssumption DEF LineSize
<1>4. LineTaken(i) /\ req.body = <<>> /\ i # 0
  BY <1>1, Numbers DEF Inv, Parser, InHead
<1>5. IsLine(i, 1, "blank")
  BY <1>1, BlankLine
<1>6. /\ LineSize <= 1
      /\ LineEnd # 0 => LineEnd = read + 1
  <2>1. 1 \in Nat \ {0}
    OBVIOUS
  <2> QED BY <1>1, <1>5, <2>1, LineSizeOf
<1>7. Framed(k) => i = k
  BY DEF Inv, Position
<1>8. ~(LineSize > MaxLine)
  BY <1>3, <1>6
<1>9. CASE LineSize <= MaxLine /\ LineEnd = 0 /\ pc' = "done" /\ UNCHANGED ctxVars
  <2>1. read' = read
    BY <1>1, <1>9, RecvLineIs
  <2> QED BY <1>2, <1>3, <1>9, <2>1, AwaitTurn
<1>10. CASE LineSize <= MaxLine /\ LineEnd # 0 /\ ParseHead(first)
  <2>1. read' = LineEnd
    BY <1>1, <1>10, RecvLineIs
  <2>2. Accept("BODY", req)
    BY <1>5, <1>10 DEF IsLine, ParseHead
  <2>3. recv_stat' = "BODY" /\ resp_code' = resp_code /\ pc' = pc /\ req' = req
    BY <2>2 DEF Accept
  <2>4. /\ req' \in [line : Nat, head : Nat, body : Seq(Nat)]
        /\ req'.line = i /\ req'.head \in {0, i}
    BY <1>1, <2>3 DEF Types, TypeOK
  <2>5. InBody(at)'
    <3>1. LineTaken(i)' /\ HeadTaken(i)'
      BY <1>2, <1>4, <2>3 DEF LineTaken, HeadTaken
    <3>2. Len(req'.body) = 0 /\ req'.body = [j \in 1..0 |-> BlankAt(at, i) + j]
      BY <1>4, <2>3
    <3>3. reqs[i].length \in Nat
      BY <1>1, Numbers, KindIs
    <3>4. read' = BlankAt(at, i) /\ BlankAt(at, i) \in Nat
      <4>1. /\ at[i] \in Nat /\ reqs[i].line \in Nat /\ reqs[i].head \in Nat
            /\ read \in Nat
        BY <1>1, Bounds, Numbers, KindIs
      <4> QED BY <1>6, <1>10, <2>1, <4>1 DEF BlankAt
    <3>5. BlankAt(at, i)' = BlankAt(at, i)
      BY <1>2 DEF BlankAt
    <3> QED BY <1>2, <2>4, <3>1, <3>2, <3>3, <3>4, <3>5 DEF InBody
  <2> HIDE DEF k, first
  <2> QED BY <1>2, <1>7, <2>3, <2>4, <2>5, AcceptTurn DEF k
<1>11. recv_stat # "LINE"
  OBVIOUS
<1> QED BY <1>1, <1>8, <1>9, <1>10, <1>11, RecvLineIs

\* RecvHead, by what it finds: the header or the blank line.
LEMMA HeadStage ==
    ASSUME NEW at, Inv(at), pc = "recv", recv_stat = "HEAD", RecvLine, UNCHANGED connVars
    PROVE  Inv(at)'
<1>1. PICK i : i = req.line
  OBVIOUS
<1>2. InHead(at)
  BY DEF Inv, Parser
<1>3. i \in DOMAIN reqs
  BY <1>1, <1>2 DEF InHead, LineTaken
<1>4. i # 0 /\ at[i] \in Nat /\ reqs[i].line \in Nat
  BY <1>3, Numbers, Bounds, KindIs DEF Inv
<1>5. CASE req.head = 0 /\ reqs[i].head # 0
  BY <1>1, <1>3, <1>5, HeaderStage
<1>6. CASE ~(req.head = 0 /\ reqs[i].head # 0)
  <2>1. HeadTaken(i)
    BY <1>1, <1>2, <1>4, <1>6 DEF InHead, HeadTaken
  <2>2. read = at[i] + reqs[i].line + reqs[i].head
    <3>1. CASE req.head = 0
      <4>1. reqs[i].head = 0 /\ read = at[i] + reqs[i].line
        BY <1>1, <1>2, <1>4, <1>6, <3>1 DEF InHead
      <4> QED BY <1>4, <4>1
    <3>2. CASE req.head # 0
      BY <1>1, <1>2, <3>2 DEF InHead
    <3> QED BY <3>1, <3>2
  <2> QED BY <1>1, <1>3, <2>1, <2>2, BlankStage
<1> QED BY <1>5, <1>6

\* A body that grows by what the Buffer has next.
LEMMA BodyGrows ==
    ASSUME NEW b \in Nat, NEW m \in Nat, NEW n \in Nat
    PROVE  /\ [j \in 1..m |-> b + j] \o [j \in 1..n |-> b + m + j] = [j \in 1..m + n |-> b + j]
           /\ [j \in 1..m + n |-> b + j] \in Seq(Nat)
           /\ Len([j \in 1..m + n |-> b + j]) = m + n
<1> DEFINE f == [j \in 1..m |-> b + j]
           g == [j \in 1..n |-> b + m + j]
           h == [j \in 1..m + n |-> b + j]
<1>1. f \in Seq(Nat) /\ Len(f) = m /\ g \in Seq(Nat) /\ Len(g) = n /\ h \in Seq(Nat) /\ Len(h) = m + n
  <2>1. f \in [1..m -> Nat] /\ g \in [1..n -> Nat] /\ h \in [1..m + n -> Nat]
    OBVIOUS
  <2> QED BY <2>1
<1>2. /\ f \o g \in Seq(Nat) /\ Len(f \o g) = m + n
      /\ \A j \in 1..m + n : (f \o g)[j] = IF j <= m THEN f[j] ELSE g[j - m]
  <2> HIDE DEF f, g, h
  <2> QED BY <1>1, ConcatProperties
<1>3. ASSUME NEW j \in 1..m + n PROVE (f \o g)[j] = h[j]
  <2>1. CASE j <= m
    <3>1. f[j] = b + j /\ h[j] = b + j
      BY <2>1
    <3> HIDE DEF f, g, h
    <3> QED BY <1>2, <2>1, <3>1
  <2>2. CASE ~(j <= m)
    <3>1. j - m \in 1..n
      BY <2>2
    <3>2. g[j - m] = b + m + (j - m) /\ h[j] = b + j
      BY <3>1
    <3>3. (f \o g)[j] = g[j - m]
      <4> HIDE DEF f, g, h
      <4> QED BY <1>2, <2>2
    <3> QED BY <3>2, <3>3
  <2> QED BY <2>1, <2>2
<1> HIDE DEF f, g, h
<1>4. f \o g = h
  BY <1>1, <1>2, <1>3, SeqEqual
<1> QED BY <1>1, <1>4 DEF f, g, h

\* RecvBody.
LEMMA BodyStage ==
    ASSUME NEW at, Inv(at), pc = "recv", recv_stat = "BODY", RecvBody, UNCHANGED connVars
    PROVE  Inv(at)'
<1>1. PICK i : i = req.line
  OBVIOUS
<1>2. PICK m : m = Len(req.body)
  OBVIOUS
<1>3. PICK n : n = Min({Missing, ReadableSize})
  OBVIOUS
<1>4. PICK b : b = BlankAt(at, i)
  OBVIOUS
<1>5. Types /\ Layout(at) /\ InBody(at)
  BY DEF Inv, Parser
<1>6. i \in DOMAIN reqs /\ ContentLength = reqs[i].length /\ ContentLength \in Nat
  BY <1>1, <1>5, ContentLengthIs
<1>7. /\ LineTaken(i) /\ HeadTaken(i) /\ m <= ContentLength /\ read = b + m
      /\ req.body = [j \in 1..m |-> b + j]
  BY <1>1, <1>2, <1>4, <1>5, <1>6 DEF InBody
<1>8. /\ m \in Nat /\ read \in Nat /\ arrived \in Nat /\ read <= arrived
      /\ ReadableSize = arrived - read
  BY <1>2, <1>5, Numbers DEF ReadableSize
<1>9. b \in Nat
  BY <1>4, <1>5, <1>6, Bounds, KindIs DEF BlankAt
<1>10. Missing = ContentLength - m /\ Missing \in Nat /\ ReadableSize \in Nat
  BY <1>2, <1>6, <1>7, <1>8 DEF Missing
<1>11. n = IF ReadableSize >= Missing THEN Missing ELSE ReadableSize
  <2>1. {Missing, ReadableSize} \in SUBSET Int
    BY <1>10
  <2>2. CASE ReadableSize >= Missing
    <3>1. Missing \in {Missing, ReadableSize} /\ \A x \in {Missing, ReadableSize} : Missing <= x
      BY <1>10, <2>2
    <3> QED BY <1>3, <2>1, <2>2, <3>1, MinIs
  <2>3. CASE ~(ReadableSize >= Missing)
    <3>1. /\ ReadableSize \in {Missing, ReadableSize}
          /\ \A x \in {Missing, ReadableSize} : ReadableSize <= x
      BY <1>10, <2>3
    <3> QED BY <1>3, <2>1, <2>3, <3>1, MinIs
  <2> QED BY <2>2, <2>3
<1>12. n \in Nat /\ n <= ReadableSize /\ m + n <= ContentLength
  BY <1>6, <1>8, <1>10, <1>11
<1>13. /\ req' = [req EXCEPT !.body = @ \o [j \in 1..n |-> read + j]]
       /\ read' = read + n /\ pc' = "done" /\ resp_code' = resp_code
       /\ recv_stat' = IF ReadableSize >= Missing THEN "OVER" ELSE "BODY"
       /\ UNCHANGED <<wireVars, arrived>>
  BY <1>3 DEF RecvBody, BodyOver
<1>14. /\ req'.line = i /\ req'.head = req.head
       /\ req'.body = [j \in 1..m |-> b + j] \o [j \in 1..n |-> b + m + j]
       /\ req' = [line |-> i, head |-> req.head, body |-> req'.body]
  <2>1. req \in [line : Nat, head : Nat, body : Seq(Nat)]
    BY <1>5 DEF Types
  <2>2. req'.body = req.body \o [j \in 1..n |-> read + j]
    BY <1>13, <2>1
  <2> QED BY <1>1, <1>7, <1>13, <2>1, <2>2
<1>15. /\ req'.body \in Seq(Nat) /\ Len(req'.body) = m + n
       /\ req'.body = [j \in 1..m + n |-> b + j]
  <2>1. /\ [j \in 1..m |-> b + j] \o [j \in 1..n |-> b + m + j] = [j \in 1..m + n |-> b + j]
        /\ [j \in 1..m + n |-> b + j] \in Seq(Nat)
        /\ Len([j \in 1..m + n |-> b + j]) = m + n
    BY <1>8, <1>9, <1>12, BodyGrows
  <2> QED BY <1>14, <2>1
<1>16. read' = b + (m + n) /\ read' \in read..arrived
  BY <1>7, <1>8, <1>9, <1>12, <1>13
<1>17. Turn /\ reqs' = reqs
  BY <1>13, <1>16 DEF Turn, wireVars
<1>18. resp_code = 200
  BY DEF Inv, Parser
<1>19. Types' /\ Layout(at)' /\ AnswersMatch'
  <2>1. req' \in [line : Nat, head : Nat, body : Seq(Nat)]
    <3>1. i \in Nat /\ req.head \in Nat
      BY <1>5, <1>6, Numbers
    <3> QED BY <1>14, <1>15, <3>1
  <2>2. req'.line \in 0..Len(reqs) /\ req'.head \in {0, req'.line}
    BY <1>1, <1>5, <1>14 DEF Types, TypeOK
  <2> QED BY <1>13, <1>17, <1>18, <2>1, <2>2, TurnKeeps
<1>20. ContentLength' = ContentLength
  BY <1>14, <1>17 DEF ContentLength
<1>21. InBody(at)'
  <2>1. LineTaken(i)' /\ HeadTaken(i)'
    BY <1>7, <1>14, <1>17 DEF LineTaken, HeadTaken
  <2>2. BlankAt(at, i)' = b
    BY <1>4, <1>17 DEF BlankAt
  <2> QED BY <1>6, <1>12, <1>14, <1>15, <1>16, <1>17, <2>1, <2>2 DEF InBody
<1>22. Parser(at)'
  <2>1. recv_stat' = "OVER" => Len(req'.body) = ContentLength'
    BY <1>6, <1>8, <1>10, <1>11, <1>13, <1>15, <1>20
  <2>2. recv_stat' = "BODY" => Len(req'.body) < ContentLength' /\ read' = arrived
    BY <1>6, <1>8, <1>10, <1>11, <1>13, <1>15, <1>20
  <2>3. recv_stat' = "BODY" => Waits'
    <3>1. recv_stat' = "BODY" => ReadableSize' = 0
      BY <1>8, <1>13, <2>2 DEF ReadableSize
    <3> QED BY <2>2, <3>1 DEF Waits
  <2> QED BY <1>13, <1>18, <1>21, <2>1, <2>2, <2>3 DEF Parser
<1>23. Position(at)'
  <2>1. Framed(Len(answered) + 1) => i = Len(answered) + 1
    BY <1>1 DEF Inv, Position
  <2>2. i <= Len(reqs) + 1
    BY <1>5, <1>6, Numbers
  <2> QED BY <1>13, <1>14, <1>17, <2>1, <2>2, SameFraming DEF Position
<1> QED BY <1>19, <1>22, <1>23 DEF Inv

\* RecvHttpRequest in each of its stages.
LEMMA ParseStep ==
    ASSUME NEW at, Inv(at), Parse
    PROVE  Inv(at)'
<1>1. pc = "recv" /\ UNCHANGED connVars
  BY DEF Parse, RecvHttpRequest
<1>2. recv_stat \in {"LINE", "HEAD", "BODY"}
  BY <1>1 DEF Inv, Types, TypeOK, Parser
<1>3. CASE recv_stat = "LINE"
  <2>1. RecvLine
    BY <1>3 DEF Parse, RecvHttpRequest
  <2> QED BY <1>1, <1>3, <2>1, LineStage
<1>4. CASE recv_stat = "HEAD"
  <2>1. RecvLine
    BY <1>4 DEF Parse, RecvHttpRequest
  <2> QED BY <1>1, <1>4, <2>1, HeadStage
<1>5. CASE recv_stat = "BODY"
  <2>1. RecvBody
    BY <1>5 DEF Parse, RecvHttpRequest
  <2> QED BY <1>1, <1>5, <2>1, BodyStage
<1> QED BY <1>2, <1>3, <1>4, <1>5

-----------------------------------------------------------------------------
(***************************************************************************)
(* Answers.                                                                *)
(***************************************************************************)
\* What answer a is to request k.
Answers(k, a) ==
    /\ k \in DOMAIN reqs
    /\ a.code = Verdict(k)
    /\ a.code \notin Failures =>
          /\ a.req = k
          /\ a.body = [j \in 1..reqs[k].length |-> Blank(k) + j]

\* What an answer leaves alone, and what it resets.
Answered(a) ==
    /\ UNCHANGED <<wireVars, arrived, after>>
    /\ answered' = Append(answered, a) /\ out' = TRUE
    /\ recv_stat' = "LINE" /\ resp_code' = 200 /\ req' = Fresh

\* The history with a response more.
LEMMA AnswerIs ==
    ASSUME NEW at, Inv(at), NEW a \in Answer, Answered(a)
    PROVE  /\ answered' \in Seq(Answer) /\ Len(answered') = Len(answered) + 1
           /\ answered'[Len(answered) + 1] = a
           /\ \A k \in 1..Len(answered) : answered'[k] = answered[k]
           /\ DOMAIN answered' = 1..Len(answered) + 1 /\ DOMAIN answered = 1..Len(answered)
           /\ Len(answered) \in Nat
           /\ reqs' = reqs /\ wire' = wire /\ arrived' = arrived
           /\ \A k : Framed(k)' = Framed(k) /\ Verdict(k)' = Verdict(k) /\ Blank(k)' = Blank(k)
<1>1. answered \in Seq(Answer) /\ answered' = Append(answered, a)
  BY DEF Inv, Types, Answered
<1>2. reqs' = reqs /\ wire' = wire /\ arrived' = arrived
  BY DEF Answered, wireVars
<1>3. \A k : Verdict(k)' = Verdict(k) /\ Blank(k)' = Blank(k)
  BY <1>2 DEF Verdict, Blank
<1>4. \A k : Framed(k)' = Framed(k)
  BY <1>2, <1>3 DEF Framed
<1>5. /\ answered' \in Seq(Answer) /\ Len(answered') = Len(answered) + 1
      /\ answered'[Len(answered) + 1] = a
      /\ \A k \in 1..Len(answered) : answered'[k] = answered[k]
      /\ DOMAIN answered' = 1..Len(answered) + 1 /\ DOMAIN answered = 1..Len(answered)
      /\ Len(answered) \in Nat
  BY <1>1
<1> QED BY <1>2, <1>3, <1>4, <1>5

\* An answer keeps Inv if it is the one its request deserves and the read offset
\* is where the next request starts.
LEMMA AnswerStep ==
    ASSUME NEW at, Inv(at), NEW a \in Answer, Answered(a),
           read' \in read..arrived,
           pc' \in {"idle", "loop"}, depth' \in Nat, depth' = 0 <=> pc' = "idle",
           stat' \in {"CONNECTED", "DISCONNECTING", "DISCONNECTED"},
           pc' = "idle" => read' = arrived,
           Framed(Len(answered) + 1) => Answers(Len(answered) + 1, a),
           Framed(Len(answered) + 2) =>
              Len(answered) + 2 <= Len(reqs) + 1 /\ read' = at[Len(answered) + 2]
    PROVE  Inv(at)'
<1>1. /\ answered' \in Seq(Answer) /\ Len(answered') = Len(answered) + 1
      /\ answered'[Len(answered) + 1] = a
      /\ \A k \in 1..Len(answered) : answered'[k] = answered[k]
      /\ DOMAIN answered' = 1..Len(answered) + 1 /\ DOMAIN answered = 1..Len(answered)
      /\ Len(answered) \in Nat
      /\ reqs' = reqs /\ wire' = wire /\ arrived' = arrived
      /\ \A k : Framed(k)' = Framed(k) /\ Verdict(k)' = Verdict(k) /\ Blank(k)' = Blank(k)
  BY AnswerIs
<1>2. /\ recv_stat' = "LINE" /\ resp_code' = 200 /\ req' = Fresh /\ after' = after
  BY DEF Answered
<1>3. Types'
  <2>1. arrived \in 0..Len(wire) /\ read' \in 0..arrived
    <3>1. Types
      BY DEF Inv
    <3> QED BY <3>1, Numbers
  <2>2. req' \in [line : Nat, head : Nat, body : Seq(Nat)] /\ req'.line = 0 /\ req'.head = 0
    <3>1. <<>> \in Seq(Nat)
      OBVIOUS
    <3> QED BY <1>2, <3>1 DEF Fresh
  <2>3. req'.line \in 0..Len(reqs') /\ req'.head \in {0, req'.line}
    <3>1. Len(reqs) \in Nat
      BY Numbers DEF Inv
    <3> QED BY <1>1, <2>2, <3>1
  <2>4. after' \in {"nothing", "release", "shutdown"}
    BY <1>2 DEF Inv, Types, TypeOK
  <2>5. out' \in BOOLEAN
    BY Zenon DEF Answered
  <2>6. TypeOK'
    <3>1. arrived' \in 0..Len(wire') /\ read' \in 0..arrived'
      BY <1>1, <2>1
    <3>2. /\ recv_stat' \in {"LINE", "HEAD", "BODY", "OVER", "ERROR"}
          /\ resp_code' \in {200, 400, 414}
          /\ pc' \in {"idle", "loop", "recv", "done"}
      BY <1>2
    <3> QED BY <2>3, <2>4, <2>5, <3>1, <3>2, Zenon DEF TypeOK
  <2> QED BY <1>1, <2>2, <2>6, Zenon DEF Inv, Types
<1>4. Layout(at)'
  BY <1>1 DEF Inv, Layout
<1>5. Parser(at)'
  <2>1. pc' = "idle" => Waits'
    <3>1. ASSUME pc' = "idle" PROVE LineEnd' = 0 /\ ReadableSize' = 0
      <4>1. read' = arrived' /\ arrived' \in Nat
        <5>1. Types
          BY DEF Inv
        <5> QED BY <1>1, <3>1, <5>1, Numbers
      <4>2. {x \in (read' + 1)..arrived' : wire'[x].lf} = {}
        BY <4>1
      <4>3. LineEnd' = IF {x \in (read' + 1)..arrived' : wire'[x].lf} # {}
                         THEN Min({x \in (read' + 1)..arrived' : wire'[x].lf}) ELSE 0
        BY DEF LineEnd, SelectInSubSeq
      <4>4. ReadableSize' = 0
        <5>1. PICK x \in Nat : x = arrived' /\ x = read'
          BY <4>1
        <5>2. ReadableSize' = x - x
          BY <5>1 DEF ReadableSize
        <5> QED BY <5>2
      <4> QED BY <4>2, <4>3, <4>4
    <3>2. 0 <= MaxLine
      BY HttpContextAssumption
    <3> QED BY <1>2, <3>1, <3>2 DEF Waits
  <2> QED BY <1>2, <2>1 DEF Parser
<1>6. Position(at)'
  <2>1. Len(answered') + 1 = Len(answered) + 2
    BY <1>1
  <2> QED BY <1>1, <1>2, <2>1 DEF Position
<1>7. AnswersMatch'
  <2>1. ASSUME NEW k \in DOMAIN answered', Framed(k)' PROVE Answers(k, answered[k])'
    <3>1. Framed(k)
      BY <1>1, <2>1
    <3>2. CASE k = Len(answered) + 1
      <4>1. Answers(k, a) /\ answered'[k] = a
        BY <1>1, <3>1, <3>2
      <4> QED BY <1>1, <4>1 DEF Answers
    <3>3. CASE k # Len(answered) + 1
      <4>1. k \in DOMAIN answered /\ answered'[k] = answered[k]
        BY <1>1, <3>3
      <4>2. Answers(k, answered[k])
        BY <3>1, <4>1 DEF Inv, AnswersMatch, Answers
      <4> QED BY <1>1, <4>1, <4>2 DEF Answers
    <3> QED BY <3>2, <3>3
  <2> QED BY <2>1 DEF AnswersMatch, Answers
<1> QED BY <1>3, <1>4, <1>5, <1>6, <1>7 DEF Inv

\* A request that can be said to start somewhere follows such a one.
LEMMA FramedBefore ==
    ASSUME NEW k \in Nat \ {0}, Framed(k + 1)
    PROVE  Framed(k) /\ Verdict(k) \notin Failures /\ reqs[k].length = reqs[k].body
<1>1. k \in 1..(k + 1) - 1 /\ \A j \in 1..k - 1 : j \in 1..(k + 1) - 1
  OBVIOUS
<1> QED BY <1>1 DEF Framed

\* The response that is written, of the request as it is by then.
LEMMA ResponseIs ==
    ASSUME Types, NEW resp, resp.code \in Nat, resp.full \in BOOLEAN, NEW says,
           WriteResponse(resp, says)
    PROVE  \E a \in Answer :
              /\ a.code = resp.code /\ a.req = req.line /\ a.body = req.body
              /\ answered' = Append(answered, a) /\ out' = TRUE
<1>1. PICK c : c = (says = "close" \/ (says = "nothing" /\ IsClose))
  BY Zenon
<1>2. c \in BOOLEAN
  BY <1>1, Zenon
<1>3. PICK a : a = [code |-> resp.code, sized |-> resp.full, req |-> req.line, body |-> req.body,
                    close |-> c]
  BY Zenon
<1>4. req.line \in Nat /\ req.body \in Seq(Nat)
  BY DEF Types
<1>5. a \in Answer
  BY <1>2, <1>3, <1>4, Zenon DEF Answer
<1>6. a.code = resp.code /\ a.req = req.line /\ a.body = req.body
  BY <1>3
<1>7. answered' = Append(answered, a) /\ out' = TRUE
  BY <1>1, <1>3, Zenon DEF WriteResponse
<1> QED BY <1>5, <1>6, <1>7

\* After a request that fails nothing is Framed any more.
LEMMA OnFailureStep ==
    ASSUME NEW at, Inv(at), OnFailure
    PROVE  Inv(at)'
<1> DEFINE k == Len(answered) + 1
<1>1. Types /\ Len(answered) \in Nat /\ read \in Nat /\ arrived \in Nat /\ read <= arrived
  BY Numbers DEF Inv
<1>2. pc = "done" /\ resp_code >= 400 /\ read' = arrived /\ Return("DISCONNECTING") /\ Reset
  BY DEF OnFailure, FailureStat
<1>3. recv_stat = "ERROR" /\ resp_code \in Failures
  BY <1>2 DEF Inv, Types, TypeOK, Parser, Failures
<1>4. PICK resp : resp = ErrorPage
  OBVIOUS
<1>5. resp.code = resp_code /\ resp.full = TRUE
  BY <1>4 DEF ErrorPage
<1>6. WriteResponse(resp, "nothing")
  BY <1>4 DEF OnFailure
<1>7. PICK a \in Answer : a.code = resp_code /\ answered' = Append(answered, a) /\ out' = TRUE
  <2>1. resp.code \in Nat /\ resp.full \in BOOLEAN
    <3>1. resp.code \in Nat
      BY <1>3, <1>5 DEF Failures
    <3>2. resp.full \in BOOLEAN
      BY <1>4, Zenon DEF ErrorPage
    <3> QED BY <3>1, <3>2
  <2>2. \E a \in Answer :
           /\ a.code = resp.code /\ a.req = req.line /\ a.body = req.body
           /\ answered' = Append(answered, a) /\ out' = TRUE
    BY <1>1, <1>6, <2>1, ResponseIs, Zenon
  <2> QED BY <1>5, <2>2
<1>8. Answered(a)
  BY <1>2, <1>7 DEF OnFailure, Reset, Answered
<1>9. /\ depth \in Nat /\ depth # 0
  BY <1>2 DEF Inv, Types, TypeOK
<1>10. /\ pc' \in {"idle", "loop"} /\ depth' \in Nat /\ (depth' = 0 <=> pc' = "idle")
  BY <1>2, <1>9 DEF Return, Finish
<1>11. stat' \in {"CONNECTED", "DISCONNECTING", "DISCONNECTED"}
  BY <1>2, Zenon DEF Return, Finish
<1>12. Framed(k) => k \in DOMAIN reqs /\ Verdict(k) = resp_code
  BY <1>3 DEF Inv, Position
<1>13. Framed(k) => Answers(k, a)
  BY <1>3, <1>7, <1>12 DEF Answers
<1>14. ~Framed(Len(answered) + 2)
  <2>1. ASSUME Framed(Len(answered) + 2) PROVE FALSE
    <3>1. k \in Nat \ {0} /\ k + 1 = Len(answered) + 2
      BY <1>1
    <3>2. Framed(k) /\ Verdict(k) \notin Failures
      <4>1. Framed(k + 1)
        BY <2>1, <3>1
      <4>2. PICK h : h = k
        OBVIOUS
      <4> HIDE DEF k
      <4> QED BY <3>1, <4>1, <4>2, FramedBefore
    <3> QED BY <1>3, <1>12, <3>2
  <2> QED BY <2>1
<1>15. read' \in read..arrived
  BY <1>1, <1>2
<1> QED BY <1>2, <1>8, <1>10, <1>11, <1>13, <1>14, <1>15, AnswerStep

\* Route's codes.
LEMMA RouteIs ==
    ASSUME NEW resp \in Route
    PROVE  /\ resp.code = IF reqs[req.line].route = "none" THEN 404 ELSE 200
           /\ resp.full \in BOOLEAN
<1> DEFINE r == reqs[req.line].route
<1>1. CASE r = "file"
  <2>1. resp \in [code : {200}, full : BOOLEAN]
    BY <1>1 DEF Route
  <2>2. resp.full \in BOOLEAN
    BY <2>1, Zenon
  <2>3. resp.code \in {200}
    BY <2>1, Zenon
  <2> QED BY <1>1, <2>2, <2>3
<1>2. CASE r # "file"
  <2>1. PICK full \in BOOLEAN : resp = [code |-> IF r = "none" THEN 404 ELSE 200, full |-> full]
    <3>1. CASE r = "none"
      <4>1. resp = [code |-> 404, full |-> FALSE]
        BY <1>2, <3>1 DEF Route
      <4> QED BY <3>1, <4>1, Zenon
    <3>2. CASE r = "handler"
      <4>1. resp = [code |-> 200, full |-> TRUE] /\ r # "none"
        BY <1>2, <3>2 DEF Route
      <4> QED BY <4>1, Zenon
    <3>3. CASE r # "none" /\ r # "handler"
      <4>1. resp = [code |-> 200, full |-> FALSE]
        BY <1>2, <3>3 DEF Route
      <4> QED BY <3>3, <4>1, Zenon
    <3> QED BY <3>1, <3>2, <3>3
  <2>2. resp.full \in BOOLEAN
    BY <2>1, Zenon
  <2>3. resp.code = IF r = "none" THEN 404 ELSE 200
    BY <2>1, Zenon
  <2> QED BY <2>2, <2>3
<1> QED BY <1>1, <1>2

\* A whole request is answered; the next starts behind it if its Content-Length
\* was the length of its body.
LEMMA OnRequestStep ==
    ASSUME NEW at, Inv(at), OnRequest
    PROVE  Inv(at)'
<1>1. PICK k : k = Len(answered) + 1
  OBVIOUS
<1>2. PICK i : i = req.line
  OBVIOUS
<1>3. Types /\ Layout(at) /\ k \in Nat \ {0} /\ k + 1 = Len(answered) + 2
      /\ read \in Nat /\ arrived \in Nat /\ read <= arrived
      /\ DOMAIN reqs = 1..Len(reqs) /\ Len(reqs) \in Nat
  BY <1>1, Numbers DEF Inv
<1>4. pc = "done" /\ recv_stat = "OVER" /\ read' = read /\ Reset
  BY DEF OnRequest
<1>5. InBody(at) /\ Len(req.body) = ContentLength
  BY <1>4 DEF Inv, Parser
<1>6. /\ i \in DOMAIN reqs /\ LineTaken(i) /\ HeadTaken(i)
      /\ Len(req.body) = reqs[i].length
      /\ req.body = [j \in 1..reqs[i].length |-> BlankAt(at, i) + j]
      /\ read = BlankAt(at, i) + reqs[i].length
  BY <1>2, <1>3, <1>5, ContentLengthIs DEF InBody
<1>7. Verdict(i) = IF reqs[i].route = "none" THEN 404 ELSE 200
  BY <1>3, <1>6, VerdictIs
<1>8. Framed(k) => i = k
  BY <1>1, <1>2, <1>4 DEF Inv, Position
<1>9. PICK resp \in Route : WriteResponse(resp, reqs[req.line].says)
  BY DEF OnRequest
<1>10. resp.code = Verdict(i) /\ resp.code \in Nat /\ resp.full \in BOOLEAN
  BY <1>2, <1>7, RouteIs
<1>11. PICK a \in Answer : /\ a.code = Verdict(i) /\ a.req = i /\ a.body = req.body
                           /\ answered' = Append(answered, a) /\ out' = TRUE
  <2>1. PICK says : says = reqs[req.line].says
    OBVIOUS
  <2>2. WriteResponse(resp, says)
    BY <1>9, <2>1, Zenon
  <2>3. \E a \in Answer :
           /\ a.code = resp.code /\ a.req = req.line /\ a.body = req.body
           /\ answered' = Append(answered, a) /\ out' = TRUE
    BY <1>3, <1>10, <2>2, ResponseIs, Zenon
  <2> QED BY <1>2, <1>10, <2>3
<1>12. Answered(a)
  BY <1>4, <1>11 DEF OnRequest, Reset, Answered
<1>13. depth \in Nat /\ depth # 0 /\ stat \in {"CONNECTED", "DISCONNECTING", "DISCONNECTED"}
  BY <1>4 DEF Inv, Types, TypeOK
<1>14. ShutDownIf(Last(answered').close)
  BY DEF OnRequest
<1>15. pc' = "loop" /\ depth' \in {depth, depth + 1}
  BY <1>14, Zenon DEF ShutDownIf
<1>16. stat' \in {"CONNECTED", "DISCONNECTING", "DISCONNECTED"}
  BY <1>13, <1>14, Zenon DEF ShutDownIf
<1>17. ASSUME Framed(k) PROVE Answers(k, a)
  <2>1. i = k
    BY <1>8, <1>17
  <2>2. Blank(k) = BlankAt(at, k)
    BY <1>3, <1>6, <2>1, BlankIs
  <2> QED BY <1>6, <1>11, <2>1, <2>2 DEF Answers
<1>18. ASSUME Framed(k + 1) PROVE k + 1 <= Len(reqs) + 1 /\ read' = at[k + 1]
  <2>1. Framed(k) /\ reqs[k].length = reqs[k].body
    BY <1>3, <1>18, FramedBefore
  <2>2. i = k
    BY <1>8, <2>1
  <2>3. /\ at[k] \in Nat /\ reqs[k].line \in Nat /\ reqs[k].head \in Nat /\ reqs[k].body \in Nat
        /\ at[k + 1] = at[k] + Size(reqs[k])
    BY <1>3, <1>6, <2>2, Bounds, KindIs
  <2>4. read = at[k] + reqs[k].line + reqs[k].head + 1 + reqs[k].body
    BY <1>6, <2>1, <2>2 DEF BlankAt
  <2>5. read = at[k + 1]
    BY <2>3, <2>4 DEF Size
  <2>6. k + 1 <= Len(reqs) + 1
    BY <1>3, <1>6, <2>2
  <2> QED BY <1>4, <2>5, <2>6
<1>19. /\ Framed(Len(answered) + 1) => Answers(Len(answered) + 1, a)
       /\ Framed(Len(answered) + 2) =>
            Len(answered) + 2 <= Len(reqs) + 1 /\ read' = at[Len(answered) + 2]
  BY <1>1, <1>3, <1>17, <1>18
<1>20. read' \in read..arrived
  BY <1>3, <1>4
<1>21. depth' \in Nat /\ (depth' = 0 <=> pc' = "idle") /\ pc' \in {"idle", "loop"} /\ pc' # "idle"
  BY <1>13, <1>15
<1> QED BY <1>12, <1>16, <1>19, <1>20, <1>21, AnswerStep

-----------------------------------------------------------------------------
(***************************************************************************)
(* The theorems.                                                           *)
(***************************************************************************)
\* The requests are somewhere on the wire, and Inv holds of those places.
IInv == \E at : Inv(at)

\* Nothing has arrived and the first request is next.
LEMMA InitIInv == Init => IInv
<1> SUFFICES ASSUME Init PROVE IInv
  OBVIOUS
<1>1. /\ reqs \in BoundedSeq(Kind, MaxRequests) \ {<<>>} /\ wire = WireOf(reqs)
      /\ arrived = 0 /\ read = 0 /\ recv_stat = "LINE" /\ resp_code = 200 /\ req = Fresh
      /\ pc = "idle" /\ stat = "CONNECTED" /\ out = FALSE /\ depth = 0 /\ after = "nothing"
      /\ answered = <<>>
  BY DEF Init, ContextInit
<1>2. reqs \in Seq(Kind) /\ reqs # <<>>
  <2>1. PICK m \in 0..MaxRequests : reqs \in [1..m -> Kind]
    BY <1>1 DEF BoundedSeq, SeqOf
  <2>2. m \in Nat
    BY HttpContextAssumption
  <2> QED BY <1>1, <2>1, <2>2
<1>3. wire \in Seq(Piece) /\ \E at : Layout(at)
  BY <1>1, <1>2, WireLayout
<1>4. PICK at : Layout(at)
  BY <1>3
<1>5. Len(wire) \in Nat /\ Len(reqs) \in Nat \ {0}
  BY <1>2, <1>3, EmptySeq
<1>6. Types
  <2>1. arrived \in 0..Len(wire) /\ read \in 0..arrived
    BY <1>1, <1>5
  <2>2. req \in [line : Nat, head : Nat, body : Seq(Nat)] /\ req.line = 0 /\ req.head = 0
    <3>1. <<>> \in Seq(Nat)
      OBVIOUS
    <3> QED BY <1>1, <3>1 DEF Fresh
  <2>3. req.line \in 0..Len(reqs) /\ req.head \in {0, req.line}
    BY <1>5, <2>2
  <2>4. out \in BOOLEAN
    BY <1>1, Zenon
  <2>5. /\ recv_stat \in {"LINE", "HEAD", "BODY", "OVER", "ERROR"}
        /\ resp_code \in {200, 400, 414}
        /\ pc \in {"idle", "loop", "recv", "done"}
        /\ stat \in {"CONNECTED", "DISCONNECTING", "DISCONNECTED"}
        /\ after \in {"nothing", "release", "shutdown"}
        /\ depth \in Nat /\ (depth = 0 <=> pc = "idle")
    BY <1>1
  <2>6. TypeOK
    BY <2>1, <2>3, <2>4, <2>5, Zenon DEF TypeOK
  <2>7. answered \in Seq(Answer)
    BY <1>1
  <2> QED BY <1>2, <1>3, <2>2, <2>6, <2>7, Zenon DEF Types
<1>7. Waits
  BY <1>1, <1>6, NothingToRead
<1>8. Parser(at)
  BY <1>1, <1>7 DEF Parser
<1>9. Position(at)
  <2>1. Len(answered) = 0 /\ at[1] = 0 /\ 1 <= Len(reqs) + 1
    BY <1>1, <1>4, <1>5 DEF Layout
  <2> QED BY <1>1, <2>1 DEF Position
<1>10. AnswersMatch
  BY <1>1 DEF AnswersMatch
<1>11. Inv(at)
  BY <1>4, <1>6, <1>8, <1>9, <1>10 DEF Inv
<1> QED BY <1>11 DEF IInv

\* Every step keeps the places, which are given by the wire, and Inv.
LEMMA NextIInv == IInv /\ [Next]_vars => IInv'
<1> SUFFICES ASSUME IInv, [Next]_vars PROVE IInv'
  OBVIOUS
<1>1. PICK at : Inv(at)
  BY DEF IInv
<1>2. SUFFICES Inv(at)'
  BY DEF IInv
<1>3. CASE HandleRead
  BY <1>1, <1>3, HandleReadStep
<1>4. ASSUME NEW then \in {"release", "shutdown"}, HandleEnd(then) PROVE Inv(at)'
  BY <1>1, <1>4, HandleEndStep
<1>5. CASE HandleWrite \/ Ontime
  BY <1>1, <1>5, OutsideStep
<1>6. CASE OnMessage
  <2>1. CASE Loop
    BY <1>1, <2>1, LoopStep
  <2>2. CASE Parse
    BY <1>1, <2>2, ParseStep
  <2>3. CASE OnFailure
    BY <1>1, <2>3, OnFailureStep
  <2>4. CASE OnIncomplete
    BY <1>1, <2>4, OnIncompleteStep
  <2>5. CASE OnRequest
    BY <1>1, <2>5, OnRequestStep
  <2> QED BY <1>6, <2>1, <2>2, <2>3, <2>4, <2>5 DEF OnMessage
<1>7. CASE UNCHANGED vars
  <2>1. /\ reqs' = reqs /\ wire' = wire /\ arrived' = arrived /\ read' = read
        /\ recv_stat' = recv_stat /\ resp_code' = resp_code /\ req' = req /\ pc' = pc
        /\ stat' = stat /\ out' = out /\ depth' = depth /\ after' = after
        /\ answered' = answered
    BY <1>7 DEF vars, wireVars, ctxVars, connVars
  <2>2. Types /\ Layout(at) /\ Parser(at) /\ Position(at) /\ AnswersMatch
    BY <1>1 DEF Inv
  <2>3. Types'
    BY <2>1, <2>2, Zenon DEF Types, TypeOK
  <2>4. Layout(at)' /\ AnswersMatch' /\ Position(at)'
    <3>1. Layout(at)'
      BY <2>1, <2>2 DEF Layout
    <3>2. AnswersMatch'
      <4>1. AnswersMatch
        BY <2>2
      <4> QED BY <2>1, <4>1 DEF AnswersMatch, Framed, Verdict, Blank
    <3>3. Position(at)'
      BY <2>1, <2>2 DEF Position, Framed, Verdict
    <3> QED BY <3>1, <3>2, <3>3
  <2>5. Waits' = Waits /\ InHead(at)' = InHead(at) /\ InBody(at)' = InBody(at)
        /\ ContentLength' = ContentLength
    BY <2>1 DEF Waits, LineEnd, SelectInSubSeq, ReadableSize, ContentLength, InHead, InBody,
                LineTaken, HeadTaken, BlankAt
  <2>6. Parser(at)'
    BY <2>1, <2>2, <2>5 DEF Parser
  <2> QED BY <2>3, <2>4, <2>6 DEF Inv
<1> QED BY <1>3, <1>4, <1>5, <1>6, <1>7 DEF Next

\* Between handlers what has arrived does not complete the next request.
LEMMA NotYetComplete ==
    ASSUME NEW at, Inv(at), pc = "idle", NEW k \in DOMAIN reqs, k = Len(answered) + 1, Framed(k)
    PROVE  arrived < BlankAt(at, k) + reqs[k].length
<1>1. Types /\ Layout(at) /\ Waits
  BY DEF Inv, Parser
<1>2. /\ arrived \in Nat /\ read \in Nat /\ read <= arrived /\ at[k] \in Nat
      /\ reqs[k].line \in Nat \ {0} /\ reqs[k].head \in Nat /\ reqs[k].length \in Nat
      /\ k # 0
  BY <1>1, Numbers, Bounds, KindIs
<1>3. BlankAt(at, k) = at[k] + reqs[k].line + reqs[k].head + 1
  BY DEF BlankAt
<1>4. CASE recv_stat = "LINE"
  <2>1. LineEnd = 0 /\ read = at[k]
    BY <1>1, <1>4 DEF Waits, Inv, Position
  <2>2. LineEnd = IF read + reqs[k].line <= arrived THEN read + reqs[k].line ELSE 0
    BY <1>1, <2>1, RequestLine DEF IsLine
  <2>3. ~(read + reqs[k].line <= arrived)
    BY <1>2, <2>1, <2>2
  <2> QED BY <1>2, <1>3, <2>1, <2>3
<1>5. CASE recv_stat = "HEAD"
  <2>1. LineEnd = 0 /\ req.line = k /\ InHead(at)
    BY <1>1, <1>5 DEF Waits, Inv, Position, Parser
  <2>2. CASE req.head = 0 /\ reqs[k].head # 0
    <3>1. read = at[k] + reqs[k].line
      BY <1>2, <2>1, <2>2 DEF InHead
    <3>2. LineEnd = IF read + reqs[k].head <= arrived THEN read + reqs[k].head ELSE 0
      BY <1>1, <2>2, <3>1, HeaderLine DEF IsLine
    <3>3. ~(read + reqs[k].head <= arrived)
      BY <1>2, <2>1, <2>2, <3>2
    <3> QED BY <1>2, <1>3, <3>1, <3>3
  <2>3. CASE ~(req.head = 0 /\ reqs[k].head # 0)
    <3>1. read = at[k] + reqs[k].line + reqs[k].head
      <4>1. CASE req.head = 0
        <5>1. reqs[k].head = 0 /\ read = at[k] + reqs[k].line
          BY <1>2, <2>1, <2>3, <4>1 DEF InHead
        <5> QED BY <1>2, <5>1
      <4>2. CASE req.head # 0
        BY <2>1, <4>2 DEF InHead
      <4> QED BY <4>1, <4>2
    <3>2. LineEnd = IF read + 1 <= arrived THEN read + 1 ELSE 0
      BY <1>1, <3>1, BlankLine DEF IsLine
    <3>3. ~(read + 1 <= arrived)
      BY <1>2, <2>1, <3>2
    <3> QED BY <1>2, <1>3, <3>1, <3>3
  <2> QED BY <2>2, <2>3
<1>6. CASE recv_stat = "BODY"
  <2>1. req.line = k /\ InBody(at) /\ ReadableSize = 0 /\ Len(req.body) < ContentLength
    BY <1>1, <1>6 DEF Waits, Inv, Position, Parser
  <2>2. /\ ContentLength = reqs[k].length /\ read = BlankAt(at, k) + Len(req.body)
        /\ Len(req.body) \in Nat /\ BlankAt(at, k) \in Nat
    BY <1>1, <1>2, <1>3, <2>1, ContentLengthIs, Numbers DEF InBody
  <2>3. arrived = read
    BY <1>2, <2>1 DEF ReadableSize
  <2> QED BY <1>2, <2>1, <2>2, <2>3
<1> QED BY <1>1, <1>4, <1>5, <1>6 DEF Waits

\* If a request had arrived whole and unanswered, the next one to be answered,
\* which ends no later, would have too.
LEMMA NothingUnanswered == IInv => AnsweredOnArrival
<1> SUFFICES ASSUME IInv, pc = "idle", NEW m \in DOMAIN reqs, Framed(m),
                    arrived >= Blank(m) + reqs[m].length, ~(Len(answered) >= m)
             PROVE  FALSE
  BY DEF AnsweredOnArrival
<1>1. PICK at : Inv(at)
  BY DEF IInv
<1>2. PICK k : k = Len(answered) + 1
  OBVIOUS
<1>3. Types /\ Layout(at)
  BY <1>1 DEF Inv
<1>4. /\ Len(answered) \in Nat /\ Len(reqs) \in Nat /\ DOMAIN reqs = 1..Len(reqs)
      /\ arrived \in Nat
  BY <1>3, Numbers
<1>5. k \in DOMAIN reqs /\ k <= m /\ k \in 1..Len(reqs) + 1 /\ k \in Nat \ {0} /\ m \in Nat
  BY <1>2, <1>4
<1>6. Framed(k)
  <2>1. \A j \in 1..k - 1 : j \in 1..m - 1
    BY <1>5
  <2> QED BY <2>1 DEF Framed
<1>7. arrived < BlankAt(at, k) + reqs[k].length
  BY <1>1, <1>2, <1>5, <1>6, NotYetComplete
<1>8. arrived >= BlankAt(at, m) + reqs[m].length
  BY <1>3, BlankIs
<1>9. k # m
  <2>1. BlankAt(at, m) \in Nat /\ reqs[m].length \in Nat
    BY <1>3, Bounds, KindIs DEF BlankAt
  <2>2. ASSUME k = m PROVE FALSE
    BY <1>4, <1>7, <1>8, <2>1, <2>2
  <2> QED BY <2>2
<1>10. reqs[k].length = reqs[k].body
  <2>1. k \in 1..m - 1
    BY <1>5, <1>9
  <2> QED BY <2>1 DEF Framed
<1>11. /\ at[k] \in Nat /\ reqs[k].line \in Nat /\ reqs[k].head \in Nat /\ reqs[k].body \in Nat
       /\ at[k + 1] = at[k] + Size(reqs[k])
  BY <1>3, <1>5, Bounds, KindIs
<1>12. at[m] \in Nat /\ reqs[m].line \in Nat /\ reqs[m].head \in Nat /\ reqs[m].length \in Nat
  BY <1>3, Bounds, KindIs
<1>13. at[k + 1] <= at[m]
  <2>1. k + 1 \in 1..Len(reqs) + 1 /\ m \in 1..Len(reqs) + 1 /\ k + 1 <= m
    BY <1>4, <1>5, <1>9
  <2> QED BY <1>3, <2>1 DEF Layout
<1>14. arrived < at[k + 1]
  BY <1>4, <1>7, <1>10, <1>11 DEF BlankAt, Size
<1>15. at[m] <= arrived
  BY <1>4, <1>8, <1>12 DEF BlankAt
<1>16. at[k + 1] \in Nat
  BY <1>11 DEF Size
<1> QED BY <1>4, <1>12, <1>13, <1>14, <1>15, <1>16

\* The parser is always in the request to answer next, whatever was cut where.
THEOREM Invariance == Spec => []IInv
<1> QED BY InitIInv, NextIInv, PTL DEF Spec

\* HttpContext and HttpServer keep their types; in particular OnMessage is
\* active exactly when a handler called it, and _req never mixes two requests.
THEOREM TypeInvariant == Spec => []TypeOK
<1>1. IInv => TypeOK
  BY DEF IInv, Inv, Types
<1> QED BY <1>1, Invariance, PTL

\* The k-th response is the one to the k-th request, to its own body, or the
\* failure it deserves, while the requests before it are well framed.
THEOREM EachAnsweredInTurn == Spec => []AnswersMatch
<1>1. IInv => AnswersMatch
  BY DEF IInv, Inv
<1> QED BY <1>1, Invariance, PTL

\* RecvHttpRequest leaves the Buffer only with what it can do nothing with:
\* HandleClose and ShutDownInLoop may call OnMessage again.
THEOREM NothingIsLeftToParse == Spec => []ParserWaits
<1>1. IInv => ParserWaits
  BY DEF IInv, Inv, Parser, Waits, ParserWaits
<1> QED BY <1>1, Invariance, PTL

\* No request that has arrived whole is left unanswered when the handler ends.
THEOREM NoneKeptWaiting == Spec => []AnsweredOnArrival
<1> QED BY NothingUnanswered, Invariance, PTL
=============================================================================
