-------------------------- MODULE TcpServerProofs --------------------------
(***************************************************************************)
(* Theorems about TcpServer for any number of loops, descriptors, clients  *)
(* and timers, and every interleaving of the loops.                        *)
(***************************************************************************)
EXTENDS TcpServer, Queues, WellFoundedInduction, FiniteSetTheorems

-----------------------------------------------------------------------------
(***************************************************************************)
(* Maps, the least descriptor, and the tasks of a set of timers.           *)
(***************************************************************************)
\* What it is to be a partial function.
LEMMA PartialFcn ==
    ASSUME NEW S, NEW T, NEW f
    PROVE  f \in PartialFcns(S, T) <=> DOMAIN f \subseteq S /\ f \in [DOMAIN f -> T]
BY DEF PartialFcns

\* A map is one after an insertion and after an erasure.
LEMMA WithType ==
    ASSUME NEW S, NEW T, NEW f \in PartialFcns(S, T), NEW k \in S, NEW v \in T
    PROVE  With(f, k, v) \in PartialFcns(S, T)
BY PartialFcn DEF With

LEMMA WithoutType ==
    ASSUME NEW S, NEW T, NEW f \in PartialFcns(S, T), NEW k
    PROVE  Without(f, k) \in PartialFcns(S, T)
BY PartialFcn DEF Without

\* accept() has a least descriptor to take when there is a free one.
LEMMA LeastFd ==
    ASSUME NEW S \in SUBSET Nat, S # {}
    PROVE  Min(S) \in S
<1>1. PICK x \in S : \A y \in S : ~(<<y, x>> \in OpToRel(<, Nat))
  BY NatLessThanWellFounded, WFMin
<1>2. ASSUME NEW y \in S PROVE x <= y
  <2>1. ~(y < x)
    BY <1>1 DEF OpToRel
  <2> QED BY <2>1
<1> QED BY <1>2 DEF Min

\* The tasks of a finite set in some order.
LEMMA SetAsSequence ==
    ASSUME NEW S, IsFiniteSet(S)
    PROVE  SetToSeq(S) \in Seq(S)
<1>1. Cardinality(S) \in Nat /\ ExistsBijection(1..Cardinality(S), S)
  BY FS_CardinalityType
<1>2. PICK f \in [1..Cardinality(S) -> S] : IsInjective(f)
  BY <1>1 DEF ExistsBijection, Bijection, Injection, IsInjective
<1>3. SetToSeq(S) \in [1..Cardinality(S) -> S]
  BY <1>2 DEF SetToSeq
<1> QED BY <1>1, <1>3

-----------------------------------------------------------------------------
(***************************************************************************)
(* The queues.                                                             *)
(***************************************************************************)
\* The tasks by name. Only the next lemma looks into them.
Reg(c) == <<"Register", c>>
Est(c) == <<"Established", c>>
Rel(c) == <<"Release", c>>
Rem(c) == <<"Remove", c>>
Shut(c) == <<"ShutDown", c>>
After == <<"RunAfter", NoConn>>

\* Each task is one of them, for one connection.
LEMMA TaskNames ==
    /\ \A c \in Id : {Reg(c), Est(c), Rel(c), Rem(c), Shut(c)} \subseteq Task
    /\ After \in Task
    /\ \A c, d : /\ Reg(c) = Reg(d) => c = d
                 /\ Est(c) = Est(d) => c = d
                 /\ Rel(c) = Rel(d) => c = d
                 /\ Rem(c) = Rem(d) => c = d
                 /\ Shut(c) = Shut(d) => c = d
                 /\ Reg(c) # Est(d) /\ Reg(c) # Rel(d) /\ Reg(c) # Rem(d)
                 /\ Est(c) # Rel(d) /\ Est(c) # Rem(d) /\ Rel(c) # Rem(d)
                 /\ Shut(c) \notin {Reg(d), Est(d), Rel(d), Rem(d)}
                 /\ After \notin {Reg(c), Est(c), Rel(c), Rem(c), Shut(c)}
    /\ \A t \in Task :
          t = After \/ \E c \in Id : t \in {Reg(c), Est(c), Rel(c), Rem(c), Shut(c)}
BY DEF Task, Reg, Est, Rel, Rem, Shut, After

\* Where RunAfter's tasks are after the first n tasks of q.
AftersIn(q, n) == {i \in n + 1..Len(q) : q[i] = After}

\* They are finitely many.
LEMMA FinitelyMany ==
    ASSUME NEW q \in Seq(Task), NEW n \in Nat
    PROVE  IsFiniteSet(AftersIn(q, n)) /\ Cardinality(AftersIn(q, n)) \in Nat
<1>1. IsFiniteSet(n + 1..Len(q))
  BY FS_Interval, LenProperties
<1>2. AftersIn(q, n) \in SUBSET (n + 1..Len(q))
  BY DEF AftersIn
<1> QED BY <1>1, <1>2, FS_Subset, FS_CardinalityType

\* Appending other tasks adds none, appending one adds one.
LEMMA CountAppended ==
    ASSUME NEW q \in Seq(Task)
    PROVE  /\ \A p \in Seq(Task) : After \notin Range(p) => AftersIn(q \o p, 0) = AftersIn(q, 0)
           /\ Cardinality(AftersIn(q \o <<After>>, 0)) = Cardinality(AftersIn(q, 0)) + 1
<1>1. ASSUME NEW p \in Seq(Task)
      PROVE  /\ Len(q) \in Nat /\ Len(p) \in Nat
             /\ Len(q \o p) = Len(q) + Len(p)
             /\ \A i \in 1..Len(q) + Len(p) :
                   (q \o p)[i] = IF i <= Len(q) THEN q[i] ELSE p[i - Len(q)]
  BY LenProperties, ConcatProperties
<1>2. ASSUME NEW p \in Seq(Task), After \notin Range(p)
      PROVE  AftersIn(q \o p, 0) = AftersIn(q, 0)
  <2>1. \A i \in 1..Len(p) : p[i] # After
    BY <1>2, LenProperties DEF Range
  <2>2. ASSUME NEW i \in 1..Len(q) + Len(p), ~(i <= Len(q)) PROVE (q \o p)[i] # After
    <3>1. i - Len(q) \in 1..Len(p)
      BY <1>1, <2>2
    <3> QED BY <1>1, <2>1, <2>2, <3>1
  <2>3. ASSUME NEW i \in 1..Len(q) PROVE i \in 1..Len(q) + Len(p) /\ (q \o p)[i] = q[i]
    BY <1>1
  <2> QED BY <1>1, <2>2, <2>3 DEF AftersIn
<1>3. <<After>> \in Seq(Task) /\ Len(<<After>>) = 1 /\ <<After>>[1] = After
  BY TaskNames
<1>4. AftersIn(q \o <<After>>, 0) = AftersIn(q, 0) \cup {Len(q) + 1}
  <2> DEFINE r == q \o <<After>>
  <2>1. /\ Len(q) \in Nat /\ Len(r) = Len(q) + 1
        /\ \A i \in 1..Len(q) + 1 : r[i] = IF i <= Len(q) THEN q[i] ELSE <<After>>[i - Len(q)]
    BY <1>1, <1>3
  <2>2. Len(q) + 1 \in 1..Len(r) /\ r[Len(q) + 1] = After
    BY <1>3, <2>1
  <2>3. \A i \in 1..Len(q) : r[i] = q[i]
    BY <2>1
  <2> HIDE DEF r
  <2>4. AftersIn(r, 0) = AftersIn(q, 0) \cup {Len(q) + 1}
    BY <2>1, <2>2, <2>3 DEF AftersIn
  <2> QED BY <2>4 DEF r
<1>5. Len(q) + 1 \notin AftersIn(q, 0)
  BY LenProperties DEF AftersIn
<1> QED BY <1>2, <1>4, <1>5, FinitelyMany, FS_AddElement

\* Running one task, and the end of a batch.
LEMMA CountRun ==
    ASSUME NEW q \in Seq(Task), NEW n \in Nat, n <= Len(q)
    PROVE  /\ n = Len(q) => AftersIn(q, n) = {}
           /\ n < Len(q) =>
                 Cardinality(AftersIn(q, n)) = Cardinality(AftersIn(q, n + 1)) +
                                                  IF q[n + 1] = After THEN 1 ELSE 0
<1>1. Len(q) \in Nat
  BY LenProperties
<1>2. n = Len(q) => AftersIn(q, n) = {}
  BY <1>1 DEF AftersIn
<1>3. ASSUME n < Len(q)
      PROVE  /\ q[n + 1] = After => AftersIn(q, n) = AftersIn(q, n + 1) \cup {n + 1}
             /\ q[n + 1] # After => AftersIn(q, n) = AftersIn(q, n + 1)
  BY <1>1, <1>3 DEF AftersIn
<1>4. n + 1 \notin AftersIn(q, n + 1)
  BY DEF AftersIn
<1>5. IsFiniteSet(AftersIn(q, n + 1)) /\ Cardinality(AftersIn(q, n + 1)) \in Nat
  BY FinitelyMany
<1>6. Cardinality(AftersIn(q, n + 1) \cup {n + 1}) = Cardinality(AftersIn(q, n + 1)) + 1
  BY <1>4, <1>5, FS_AddElement
<1>7. ASSUME n < Len(q)
      PROVE  Cardinality(AftersIn(q, n)) = Cardinality(AftersIn(q, n + 1)) +
                                              IF q[n + 1] = After THEN 1 ELSE 0
  <2>1. CASE q[n + 1] = After
    <3>1. AftersIn(q, n) = AftersIn(q, n + 1) \cup {n + 1}
      BY <1>3, <1>7, <2>1
    <3> QED BY <1>6, <2>1, <3>1
  <2>2. CASE q[n + 1] # After
    BY <1>3, <1>5, <1>7, <2>2
  <2> QED BY <2>1, <2>2
<1> QED BY <1>2, <1>7

\* A push, on any loop.
Pushed(l, q) == tasks' = [tasks EXCEPT ![l] = @ \o q]

\* What it leaves: the queue is longer, the other queues are the same.
LEMMA PushFacts ==
    ASSUME tasks \in [Loop -> Seq(Task)], NEW l \in Loop, NEW q \in Seq(Task), Pushed(l, q)
    PROVE  /\ tasks' \in [Loop -> Seq(Task)]
           /\ tasks'[l] = tasks[l] \o q
           /\ \A t : t \in Range(tasks'[l]) <=> t \in Range(tasks[l]) \/ t \in Range(q)
           /\ \A m \in Loop \ {l} : tasks'[m] = tasks[m]
<1>1. tasks[l] \in Seq(Task) /\ tasks[l] \o q \in Seq(Task)
  BY ConcatProperties
<1>2. /\ tasks' \in [Loop -> Seq(Task)]
      /\ tasks'[l] = tasks[l] \o q
      /\ \A m \in Loop \ {l} : tasks'[m] = tasks[m]
  BY <1>1 DEF Pushed
<1> QED BY <1>1, <1>2, RangeConcat

\* Push pushes one task.
LEMMA PushOne ==
    ASSUME tasks \in [Loop -> Seq(Task)], NEW l \in Loop, NEW t \in Task, Push(l, t)
    PROVE  Pushed(l, <<t>>) /\ <<t>> \in Seq(Task) /\ \A u : u \in Range(<<t>>) <=> u = t
<1>1. Append(tasks[l], t) = tasks[l] \o <<t>>
  BY AppendIsConcat
<1>2. \A u : u \in Range(<<t>>) <=> u = t
  BY DEF Range
<1> QED BY <1>1, <1>2 DEF Push, Pushed

\* A callback of c pushes nothing but Release.
LEMMA ReleasesPush ==
    ASSUME NEW c \in Id, NEW n \in Nat, Releases(c, n)
    PROVE  \E q \in Seq(Task) :
              /\ Pushed(loop[c], q) /\ Range(q) \subseteq {Rel(c)}
              /\ n = 0 => q = <<>>
<1> DEFINE q == [i \in 1..n |-> <<"Release", c>>]
<1>1. tasks' = [tasks EXCEPT ![loop[c]] = @ \o q]
  BY DEF Releases
<1>2. <<"Release", c>> \in Task
  BY TaskNames DEF Rel
<1>3. q \in Seq(Task) /\ Len(q) = n
  BY <1>2
<1>4. Range(q) \subseteq {Rel(c)}
  BY DEF Range, Rel
<1>5. n = 0 => q = <<>>
  BY <1>3
<1> QED BY <1>1, <1>3, <1>4, <1>5 DEF Pushed

\* The expired timers push nothing but theirs.
LEMMA OntimePushes ==
    ASSUME NEW l \in Loop, NEW S \in SUBSET Id,
           tasks' = [tasks EXCEPT ![l] = @ \o SetToSeq({"Release"} \X S)]
    PROVE  \E q \in Seq(Task) : Pushed(l, q) /\ Range(q) \subseteq {Rel(c) : c \in S}
<1> DEFINE R == {"Release"} \X S
           q == SetToSeq(R)
<1>1. IsFiniteSet(S)
  <2>1. IsFiniteSet(Id)
    BY FS_Interval, TcpServerAssumption DEF Id
  <2> QED BY <2>1, FS_Subset
<1>2. IsFiniteSet(R) /\ R = {Rel(c) : c \in S}
  <2>1. R = {Rel(c) : c \in S}
    BY DEF Rel
  <2> DEFINE f == [c \in S |-> Rel(c)]
  <2>2. f \in Surjection(S, R)
    BY <2>1 DEF Surjection
  <2> QED BY <1>1, <2>1, <2>2, FS_Surjection
<1>3. q \in Seq(R)
  BY <1>2, SetAsSequence
<1>4. R \subseteq Task
  BY <1>2, TaskNames
<1>5. q \in Seq(Task) /\ Range(q) \subseteq R
  <2> HIDE DEF q, R
  <2>1. \A i \in DOMAIN q : q[i] \in R
    BY <1>3
  <2> QED BY <1>3, <1>4, <2>1 DEF Range
<1> QED BY <1>2, <1>5 DEF Pushed

\* What is left of a batch.
LEMMA RestFacts ==
    ASSUME batch \in [Loop -> Seq(Task)], done \in [Loop -> Nat], NEW l \in Loop,
           done[l] <= Len(batch[l])
    PROVE  /\ Rest(l) \in Seq(Task)
           /\ Range(Rest(l)) \subseteq Range(batch[l])
           /\ done[l] = 0 => Rest(l) = batch[l]
           /\ done[l] = Len(batch[l]) => Rest(l) = <<>>
           /\ done[l] < Len(batch[l]) =>
                /\ batch[l][done[l] + 1] \in Task
                /\ batch[l][done[l] + 1] \in Range(batch[l])
                /\ Rest(l) # <<>>
                /\ Head(Rest(l)) = batch[l][done[l] + 1]
                /\ Tail(Rest(l)) = SubSeq(batch[l], done[l] + 2, Len(batch[l]))
<1>1. batch[l] \in Seq(Task) /\ done[l] \in Nat
  OBVIOUS
<1> QED BY Zenon, <1>1, RestOfBatch DEF Rest

-----------------------------------------------------------------------------
(***************************************************************************)
(* TypeOK.                                                                 *)
(***************************************************************************)
\* Each id has been taken by a client or by a call of RunAfter that has run.
Counted ==
    next_id + Cardinality(AftersIn(batch[Base], done[Base]))
        + Cardinality(AftersIn(tasks[Base], 0)) = afters + (MaxClients - clients)

\* The tasks that only a call from outside the loops pushes.
Asked == {After} \cup {Shut(c) : c \in Id}

\* The others are not among them.
LEMMA NotAsked == \A c \in Id : {Reg(c), Est(c), Rel(c), Rem(c)} \cap Asked = {}
BY TaskNames DEF Asked

\* A connection that may be subscribed has a descriptor.
HasFd ==
    \A c \in Id :
        \/ stat[c] = "CONNECTING" \/ c \in held
        \/ \E l \in Loop : Shut(c) \in Range(tasks[l]) \cup Range(batch[l])
        => fd[c] \in Fd

\* TypeOK is not inductive by itself: that the next id is an Id takes the
\* count, that accept has a client takes the Acceptor's readiness, that Poll
\* finds a channel for each event takes that epoll watches none but those of
\* _channels, that UpdateEvent puts a descriptor there takes HasFd.
Types ==
    /\ TypeOK
    /\ Counted
    /\ Acceptor \in actives[Base] => clients > 0
    /\ \A l \in Loop : epoll[l] \subseteq DOMAIN channels[l]
    /\ \A l \in Loop \ {Base} : After \notin Range(tasks[l]) \cup Range(batch[l])
    /\ HasFd
    /\ creating # NoConn => creating <= next_id

\* Numbers of loops and ids.
LEMMA Numbers ==
    /\ MaxThreads \in Nat /\ MaxClients \in Nat /\ MaxAfter \in Nat
    /\ MaxCalls \in Nat /\ MaxReleases \in Nat
    /\ Base \in Loop /\ NoConn \notin Id /\ Timer \notin Id /\ Acceptor \notin Id
    /\ \A n \in 0..MaxThreads : 0..n \subseteq Loop
    /\ \A n \in Nat : n \in Id <=> n > 0 /\ n <= MaxClients + MaxAfter
BY TcpServerAssumption DEF Base, Loop, NoConn, Timer, Acceptor, Id

\* Initially there is nothing.
LEMMA InitTypes == Init => Types
<1> SUFFICES ASSUME Init PROVE Types
  OBVIOUS
<1>1. \A S, T, v : [k \in {} |-> v] \in PartialFcns(S, T)
  BY PartialFcn
<1>2. TypeOK
  <2>1. /\ conns \in PartialFcns(Id, Id)
        /\ channels \in [Loop -> PartialFcns(Fd, Id)]
    BY <1>1 DEF Init
  <2>2. /\ 0 \in 0..cnt /\ cnt \in 0..MaxThreads /\ 0 \in 0..MaxClients + MaxAfter
        /\ clients \in 0..MaxClients /\ afters \in 0..MaxAfter /\ calls \in 0..MaxCalls
    BY Numbers DEF Init
  <2>3. /\ open \subseteq {c \in Id : stat[c] # "none"}
        /\ armed \subseteq (0..cnt) \X Id /\ functors \subseteq Id
        /\ held \subseteq Id /\ late \in BOOLEAN
    BY DEF Init
  <2>4. /\ epoll \in [Loop -> SUBSET Fd]
        /\ actives \in [Loop -> SUBSET (Id \cup {Timer, Acceptor})]
        /\ tasks \in [Loop -> Seq(Task)] /\ batch \in [Loop -> Seq(Task)]
        /\ done \in [Loop -> Nat] /\ pc \in [Loop -> {"poll", "dispatch", "run"}]
        /\ \A l \in Loop : actives[l] = {} /\ done[l] = 0 /\ batch[l] = <<>>
    BY DEF Init
  <2> QED BY <2>1, <2>2, <2>3, <2>4 DEF Init, TypeOK, Base
<1>3. Cardinality(AftersIn(<<>>, 0)) = 0
  <2>1. AftersIn(<<>>, 0) = {}
    BY DEF AftersIn
  <2> QED BY <2>1, FS_EmptySet
<1>4. Counted
  BY <1>3, Numbers DEF Init, Counted
<1>5. \A l \in Loop : epoll[l] \subseteq DOMAIN channels[l]
  BY DEF Init
<1>6. \A l \in Loop \ {Base} : After \notin Range(tasks[l]) \cup Range(batch[l])
  BY EmptyRange DEF Init
<1>7. HasFd
  BY EmptyRange DEF Init, HasFd
<1> QED BY <1>2, <1>4, <1>5, <1>6, <1>7, Numbers DEF Init, Types

\* What a connection may be subscribed for is kept.
LEMMA HasFdKept ==
    ASSUME Types, fd' = fd,
           \A c \in Id : stat'[c] = "CONNECTING" => stat[c] = "CONNECTING",
           \A c \in Id : c \in held' => c \in held \/ stat[c] = "CONNECTING",
           \A c \in Id, l \in Loop : Shut(c) \in Range(tasks'[l]) \cup Range(batch'[l]) =>
               \E m \in Loop : Shut(c) \in Range(tasks[m]) \cup Range(batch[m])
    PROVE  HasFd'
BY DEF Types, HasFd

\* Pushing other tasks than those.
LEMMA PushTypes ==
    ASSUME Types, NEW l \in Loop, NEW q \in Seq(Task), Pushed(l, q), Range(q) \cap Asked = {}
    PROVE  /\ tasks' \in [Loop -> Seq(Task)]
           /\ \A c \in Id, m \in Loop : Shut(c) \in Range(tasks'[m]) => Shut(c) \in Range(tasks[m])
           /\ AftersIn(tasks'[Base], 0) = AftersIn(tasks[Base], 0)
           /\ \A m \in Loop \ {Base} : After \notin Range(tasks'[m])
<1>1. tasks \in [Loop -> Seq(Task)] /\ tasks[Base] \in Seq(Task)
  BY Numbers DEF Types, TypeOK
<1>2. /\ tasks' \in [Loop -> Seq(Task)]
      /\ tasks'[l] = tasks[l] \o q
      /\ \A t : t \in Range(tasks'[l]) <=> t \in Range(tasks[l]) \/ t \in Range(q)
      /\ \A m \in Loop \ {l} : tasks'[m] = tasks[m]
  BY <1>1, PushFacts
<1>3. AftersIn(tasks[Base] \o q, 0) = AftersIn(tasks[Base], 0)
  BY <1>1, CountAppended DEF Asked
<1>4. AftersIn(tasks'[Base], 0) = AftersIn(tasks[Base], 0)
  BY <1>2, <1>3, Numbers
<1>5. \A m \in Loop \ {Base} : After \notin Range(tasks'[m])
  BY <1>2 DEF Types, Asked
<1>6. ASSUME NEW c \in Id, NEW m \in Loop, Shut(c) \in Range(tasks'[m])
      PROVE  Shut(c) \in Range(tasks[m])
  BY <1>2, <1>6 DEF Asked
<1> QED BY <1>2, <1>4, <1>5, <1>6

\* The count is a number, and leaves room for the next id.
LEMMA CountRoom ==
    ASSUME Types
    PROVE  /\ next_id \in Nat /\ afters \in Nat /\ clients \in Nat
           /\ clients <= MaxClients /\ afters <= MaxAfter
           /\ Cardinality(AftersIn(batch[Base], done[Base])) \in Nat
           /\ Cardinality(AftersIn(tasks[Base], 0)) \in Nat
           /\ clients > 0 \/ afters < MaxAfter => next_id + 1 \in Id
           /\ Cardinality(AftersIn(batch[Base], done[Base])) > 0 => next_id + 1 \in Id
<1>1. /\ next_id \in Nat /\ afters \in Nat /\ clients \in Nat
      /\ clients <= MaxClients /\ afters <= MaxAfter
      /\ batch[Base] \in Seq(Task) /\ done[Base] \in Nat /\ tasks[Base] \in Seq(Task)
  BY Numbers DEF Types, TypeOK
<1>2. /\ Cardinality(AftersIn(batch[Base], done[Base])) \in Nat
      /\ Cardinality(AftersIn(tasks[Base], 0)) \in Nat
  BY <1>1, FinitelyMany
<1>3. next_id + Cardinality(AftersIn(batch[Base], done[Base]))
        + Cardinality(AftersIn(tasks[Base], 0)) = afters + (MaxClients - clients)
  BY DEF Types, Counted
<1>4. next_id + 1 \in Id <=> next_id + 1 <= MaxClients + MaxAfter
  BY <1>1, Numbers
<1> QED BY <1>1, <1>2, <1>3, <1>4, Numbers

\* What UpdateEvent leaves of the Poller of loop l.
LEMMA UpdateEventTypes ==
    ASSUME Types, NEW l \in Loop, NEW c \in Id, fd[c] \in Fd, UpdateEvent(l, c)
    PROVE  /\ channels' \in [Loop -> PartialFcns(Fd, Id)]
           /\ epoll' \in [Loop -> SUBSET Fd]
           /\ \A m \in Loop : epoll'[m] \subseteq DOMAIN channels'[m]
<1>1. channels[l] \in PartialFcns(Fd, Id) /\ epoll[l] \subseteq DOMAIN channels[l]
  BY DEF Types, TypeOK
<1>2. CASE fd[c] \in DOMAIN channels[l]
  BY <1>2 DEF UpdateEvent, pollerVars, Types, TypeOK
<1>3. CASE fd[c] \notin DOMAIN channels[l]
  <2> DEFINE w == With(channels[l], fd[c], c)
  <2>1. /\ w \in PartialFcns(Fd, Id)
        /\ DOMAIN w = DOMAIN channels[l] \cup {fd[c]}
    <3>1. w \in PartialFcns(Fd, Id)
      BY <1>1, WithType
    <3> QED BY <3>1 DEF With
  <2>2. /\ channels' = [channels EXCEPT ![l] = w]
        /\ epoll' = [epoll EXCEPT ![l] = @ \cup ({fd[c]} \cap {fd[d] : d \in open})]
    BY <1>3 DEF UpdateEvent
  <2> HIDE DEF w
  <2> QED BY <1>1, <2>1, <2>2 DEF Types, TypeOK
<1> QED BY <1>2, <1>3

\* What RemoveEvent leaves of it.
LEMMA RemoveEventTypes ==
    ASSUME Types, NEW l \in Loop, NEW c \in Id, RemoveEvent(l, c)
    PROVE  /\ channels' \in [Loop -> PartialFcns(Fd, Id)]
           /\ epoll' \in [Loop -> SUBSET Fd]
           /\ \A m \in Loop : epoll'[m] \subseteq DOMAIN channels'[m]
<1> DEFINE w == Without(channels[l], fd[c])
<1>1. channels[l] \in PartialFcns(Fd, Id) /\ epoll[l] \subseteq DOMAIN channels[l]
  BY DEF Types, TypeOK
<1>2. /\ w \in PartialFcns(Fd, Id)
      /\ DOMAIN w = DOMAIN channels[l] \ {fd[c]}
  <2>1. w \in PartialFcns(Fd, Id)
    BY <1>1, WithoutType
  <2> QED BY <2>1 DEF Without
<1>3. channels' = [channels EXCEPT ![l] = w]
  BY DEF RemoveEvent
<1>4. /\ epoll' \in [Loop -> SUBSET Fd]
      /\ \A m \in Loop : epoll'[m] \subseteq epoll[m]
      /\ fd[c] \in DOMAIN channels[l] => fd[c] \notin epoll'[l]
  BY DEF RemoveEvent, Types, TypeOK
<1> HIDE DEF w
<1>5. channels' \in [Loop -> PartialFcns(Fd, Id)]
  BY <1>2, <1>3 DEF Types, TypeOK
<1>6. epoll' \in [Loop -> SUBSET Fd] /\ \A m \in Loop : epoll'[m] \subseteq DOMAIN channels'[m]
  BY <1>1, <1>2, <1>3, <1>4 DEF Types, TypeOK
<1> QED BY <1>5, <1>6

\* RunAfter.
LEMMA RunAfterTypes == Types /\ RunAfter => Types'
<1> SUFFICES ASSUME Types, RunAfter PROVE Types'
  OBVIOUS
<1>1. /\ afters < MaxAfter /\ afters' = afters + 1
      /\ UNCHANGED <<newVars, conns, connVars, clients, calls, held, pollerVars, loopVars, late>>
  BY DEF RunAfter
<1>2. afters' \in 0..MaxAfter
  BY <1>1, CountRoom, Numbers
<1>3. CASE Push(Base, <<"RunAfter", NoConn>>) /\ UNCHANGED timerVars
  <2>1. tasks \in [Loop -> Seq(Task)] /\ tasks[Base] \in Seq(Task)
    BY Numbers DEF Types, TypeOK
  <2>2. /\ Pushed(Base, <<After>>) /\ <<After>> \in Seq(Task)
        /\ \A u : u \in Range(<<After>>) <=> u = After
    BY <1>3, <2>1, Numbers, TaskNames, PushOne DEF After
  <2>3. /\ tasks' \in [Loop -> Seq(Task)]
        /\ tasks'[Base] = tasks[Base] \o <<After>>
        /\ \A m \in Loop \ {Base} : tasks'[m] = tasks[m]
        /\ \A t : t \in Range(tasks'[Base]) <=> t \in Range(tasks[Base]) \/ t \in Range(<<After>>)
    BY <2>1, <2>2, Numbers, PushFacts
  <2>4. Cardinality(AftersIn(tasks'[Base], 0)) = Cardinality(AftersIn(tasks[Base], 0)) + 1
    <3>1. Cardinality(AftersIn(tasks[Base] \o <<After>>, 0))
            = Cardinality(AftersIn(tasks[Base], 0)) + 1
      BY <2>1, CountAppended
    <3> QED BY <2>3, <3>1
  <2>5. TypeOK'
    BY <1>1, <1>2, <1>3, <2>3
       DEF Types, TypeOK, newVars, connVars, pollerVars, loopVars, timerVars
  <2>7. HasFd'
    <3>1. ASSUME NEW c \in Id, NEW m \in Loop, Shut(c) \in Range(tasks'[m])
          PROVE  Shut(c) \in Range(tasks[m])
      <4>1. Shut(c) # After
        BY TaskNames
      <4> QED BY <2>2, <2>3, <3>1, <4>1
    <3> QED BY <1>1, <3>1, HasFdKept DEF connVars, loopVars
  <2>6. Counted'
    BY <1>1, <1>3, <2>4, CountRoom, Numbers
       DEF Types, Counted, newVars, connVars, pollerVars, loopVars, timerVars
  <2> QED BY <1>1, <1>3, <2>3, <2>5, <2>6, <2>7
          DEF Types, newVars, connVars, pollerVars, loopVars, timerVars
<1>4. CASE RunAfterInLoop /\ UNCHANGED tasks
  <2>1. next_id' = next_id + 1 /\ next_id + 1 \in Id
    BY <1>1, <1>4, CountRoom DEF RunAfterInLoop
  <2>2. next_id' \in 0..MaxClients + MaxAfter
    BY <2>1, CountRoom, Numbers
  <2>3. armed' \subseteq (0..cnt) \X Id /\ functors' \subseteq Id
    BY <1>4, <2>1 DEF RunAfterInLoop, Types, TypeOK, Base
  <2>4. TypeOK'
    BY <1>1, <1>2, <1>4, <2>2, <2>3
       DEF Types, TypeOK, newVars, connVars, pollerVars, loopVars
  <2>5. Counted'
    BY <1>1, <1>4, <2>1, CountRoom, Numbers
       DEF Types, Counted, newVars, connVars, pollerVars, loopVars
  <2>6. creating' # NoConn => creating' <= next_id'
    <3>1. creating = NoConn \/ creating \in Nat
      BY Numbers DEF Types, TypeOK, Id
    <3>2. creating' = creating /\ next_id \in Nat
      BY <1>1, CountRoom DEF newVars
    <3> QED BY <2>1, <3>1, <3>2 DEF Types
  <2>7. HasFd'
    BY <1>1, <1>4, HasFdKept DEF connVars, loopVars
  <2> QED BY <1>1, <1>4, <2>4, <2>5, <2>6, <2>7
          DEF Types, newVars, connVars, pollerVars, loopVars
<1> QED BY <1>3, <1>4 DEF RunAfter

\* What a successful accept leaves: connection c with descriptor f, on loop l.
Accepted(c, f, l) ==
    /\ c = next_id + 1 /\ stat' = [stat EXCEPT ![c] = "CONNECTING"]
    /\ fd' = [fd EXCEPT ![c] = f] /\ loop' = [loop EXCEPT ![c] = l]
    /\ open' = open \cup {c}
    /\ next_id' = c /\ creating' = c /\ step' = "establish"
    /\ clients > 0 /\ clients' = clients - 1
    /\ next_idx' \in Nat /\ (next_idx' = 0 \/ next_idx' < cnt)

\* The two outcomes of accept.
LEMMA HandleReadCases ==
    ASSUME Types, HandleRead
    PROVE  /\ pc[Base] = "dispatch" /\ creating = NoConn
           /\ actives' = [actives EXCEPT ![Base] = @ \ {Acceptor}]
           /\ UNCHANGED <<batch, done, pc, cnt, conns, armed, functors, afters, calls, held, channels, epoll,
                          tasks, late>>
           /\ \/ UNCHANGED <<next_id, next_idx, creating, step, fd, loop, stat, open, clients>>
              \/ \E c \in Id, f \in FreeFds, l \in 0..cnt : Accepted(c, f, l)
<1>1. /\ Dispatching(Base) /\ Acceptor \in actives[Base]
      /\ actives' = [actives EXCEPT ![Base] = @ \ {Acceptor}]
      /\ UNCHANGED <<batch, done, pc, cnt, conns, armed, functors, afters, calls, held, channels, epoll,
                          tasks, late>>
  BY DEF HandleRead, Dispatch, pollerVars
<1>2. pc[Base] = "dispatch" /\ creating = NoConn
  BY <1>1 DEF Dispatching
<1>3. CASE FreeFds = {}
  BY <1>1, <1>2, <1>3 DEF HandleRead, connVars
<1>4. CASE FreeFds # {}
  <2>1. clients > 0
    BY <1>1 DEF Types
  <2>2. next_id + 1 \in Id
    BY <2>1, CountRoom
  <2>3. Min(FreeFds) \in FreeFds
    BY <1>4, LeastFd, TcpServerAssumption DEF FreeFds
  <2>4. /\ clients' = clients - 1 /\ next_id' = next_id + 1 /\ NextLoop
        /\ creating' = next_id' /\ step' = "establish"
        /\ fd' = [fd EXCEPT ![next_id'] = Min(FreeFds)]
        /\ stat' = [stat EXCEPT ![next_id'] = "CONNECTING"]
        /\ open' = open \cup {next_id'}
    BY <1>4 DEF HandleRead
  <2>5. /\ next_idx' \in Nat /\ (next_idx' = 0 \/ next_idx' < cnt)
        /\ \E l \in 0..cnt : loop' = [loop EXCEPT ![next_id'] = l]
    <3>1. cnt \in Nat /\ next_idx \in Nat /\ (next_idx = 0 \/ next_idx < cnt)
      BY Numbers DEF Types, TypeOK
    <3>2. CASE cnt = 0
      BY <2>4, <3>1, <3>2 DEF NextLoop, Base
    <3>3. CASE cnt # 0
      <4>1. /\ next_idx' = (next_idx + 1) % cnt
            /\ loop' = [loop EXCEPT ![next_id'] = next_idx' + 1]
        BY <2>4, <3>3 DEF NextLoop
      <4>2. next_idx' \in 0..cnt - 1
        BY <3>1, <3>3, <4>1
      <4>3. next_idx' + 1 \in 0..cnt /\ next_idx' \in Nat /\ next_idx' < cnt
        <5>1. PICK m \in Nat : m = cnt
          BY <3>1
        <5>2. PICK k \in 0..m - 1 : k = next_idx'
          BY <4>2, <5>1
        <5>3. k + 1 \in 0..m /\ k \in Nat /\ k < m
          OBVIOUS
        <5> QED BY <5>1, <5>2, <5>3
      <4>4. \E l \in 0..cnt : loop' = [loop EXCEPT ![next_id'] = l]
        BY Zenon, <4>1, <4>3
      <4> QED BY <4>3, <4>4
    <3> QED BY <3>2, <3>3
  <2>6. PICK l \in 0..cnt : loop' = [loop EXCEPT ![next_id'] = l]
    BY <2>5
  <2>7. Accepted(next_id + 1, Min(FreeFds), l)
    BY <2>1, <2>4, <2>5, <2>6 DEF Accepted
  <2>8. \E c \in Id, f \in FreeFds, m \in 0..cnt : Accepted(c, f, m)
    BY <2>2, <2>3, <2>7
  <2> QED BY <1>1, <1>2, <2>8
<1> QED BY <1>1, <1>2, <1>3, <1>4

\* HandleRead.
LEMMA HandleReadTypes == Types /\ HandleRead => Types'
<1> SUFFICES ASSUME Types, HandleRead PROVE Types'
  OBVIOUS
<1>1. /\ pc[Base] = "dispatch" /\ creating = NoConn
      /\ actives' = [actives EXCEPT ![Base] = @ \ {Acceptor}]
      /\ UNCHANGED <<batch, done, pc, cnt, conns, armed, functors, afters, calls, held, channels, epoll,
                          tasks, late>>
      /\ \/ UNCHANGED <<next_id, next_idx, creating, step, fd, loop, stat, open, clients>>
         \/ \E c \in Id, f \in FreeFds, l \in 0..cnt : Accepted(c, f, l)
  BY HandleReadCases
<1>2. /\ actives' \in [Loop -> SUBSET (Id \cup {Timer, Acceptor})]
      /\ Acceptor \notin actives'[Base]
      /\ \A l \in Loop : actives'[l] \subseteq actives[l]
  BY <1>1, Numbers DEF Types, TypeOK
<1>3. CASE UNCHANGED <<next_id, next_idx, creating, step, fd, loop, stat, open, clients>>
  <2>1. TypeOK'
    BY <1>1, <1>2, <1>3 DEF Types, TypeOK
  <2>2. Counted'
    BY <1>1, <1>3 DEF Types, Counted
  <2>3. HasFd'
    BY <1>1, <1>3, HasFdKept
  <2> QED BY <1>1, <1>2, <1>3, <2>1, <2>2, <2>3 DEF Types
<1>4. ASSUME NEW c \in Id, NEW f \in FreeFds, NEW l \in 0..cnt, Accepted(c, f, l)
      PROVE  Types'
  <2>1. f \in Fd
    BY DEF FreeFds
  <2>2. /\ next_id' \in 0..MaxClients + MaxAfter /\ clients' \in 0..MaxClients
        /\ creating' <= next_id'
    BY <1>4, CountRoom, Numbers DEF Accepted, Id
  <2>3. /\ fd' \in [Id -> Fd \cup {0}] /\ loop' \in [Id -> 0..cnt]
        /\ stat' \in [Id -> {"none", "CONNECTING", "CONNECTED", "DISCONNECTED"}]
        /\ open' \subseteq {d \in Id : stat'[d] # "none"}
    BY <1>4, <2>1 DEF Accepted, Types, TypeOK
  <2>4. TypeOK'
    BY <1>1, <1>2, <1>4, <2>2, <2>3 DEF Accepted, Types, TypeOK
  <2>5. Counted'
    BY <1>1, <1>4, CountRoom, Numbers DEF Accepted, Types, Counted
  <2>6. HasFd'
    <3>1. /\ fd'[c] \in Fd
          /\ \A d \in Id \ {c} : fd'[d] = fd[d] /\ stat'[d] = stat[d]
      BY <1>4, <2>1 DEF Accepted, Types, TypeOK
    <3>2. UNCHANGED <<held, tasks, batch>>
      BY <1>1
    <3> QED BY <3>1, <3>2 DEF Types, HasFd
  <2> QED BY <1>1, <1>2, <2>2, <2>3, <2>4, <2>5, <2>6 DEF Types
<1> QED BY <1>1, <1>3, <1>4

\* What EstablishInLoop leaves.
LEMMA EstablishFacts ==
    ASSUME Types, NEW c \in Id, EstablishInLoop(c)
    PROVE  /\ loop[c] \in Loop /\ stat[c] = "CONNECTING"
           /\ stat' = [stat EXCEPT ![c] = "CONNECTED"]
           /\ UpdateEvent(loop[c], c)
           /\ channels' \in [Loop -> PartialFcns(Fd, Id)] /\ epoll' \in [Loop -> SUBSET Fd]
           /\ \A m \in Loop : epoll'[m] \subseteq DOMAIN channels'[m]
           /\ held' \in {held, held \cup {c}} /\ (CallThreads = {} => held' = held)
           /\ \E q \in Seq(Task) : Pushed(loop[c], q) /\ Range(q) \subseteq {Rel(c)}
<1>1. loop[c] \in Loop
  BY Numbers DEF Types, TypeOK
<1>2. /\ stat[c] = "CONNECTING" /\ UpdateEvent(loop[c], c)
      /\ stat' = [stat EXCEPT ![c] = "CONNECTED"]
      /\ held' \in {held, held \cup {c}} /\ (CallThreads = {} => held' = held)
      /\ \E n \in 0..IF loop[c] \in MayQuit THEN MaxReleases ELSE 0 : Releases(c, n)
  BY Numbers DEF EstablishInLoop
<1>3. fd[c] \in Fd
  BY <1>2 DEF Types, HasFd
<1>4. PICK n \in Nat : Releases(c, n)
  BY <1>2
<1>5. \E q \in Seq(Task) : Pushed(loop[c], q) /\ Range(q) \subseteq {Rel(c)}
  BY <1>4, ReleasesPush
<1> QED BY <1>1, <1>2, <1>3, <1>5, UpdateEventTypes

\* A connection changes its status to another one.
LEMMA StatTypes ==
    ASSUME Types, NEW c \in Id,
           NEW s \in {"CONNECTED", "DISCONNECTED"}, stat' = [stat EXCEPT ![c] = s],
           open' \subseteq open, fd' = fd
    PROVE  /\ stat' \in [Id -> {"none", "CONNECTING", "CONNECTED", "DISCONNECTED"}]
           /\ open' \subseteq {d \in Id : stat'[d] # "none"}
           /\ \A d \in Id : stat'[d] = "CONNECTING" => stat[d] = "CONNECTING"
BY DEF Types, TypeOK

\* What they push on a sub loop.
LEMMA SetUpTasks ==
    ASSUME NEW c \in Id, NEW q \in {<<>>, <<Reg(c)>>}
    PROVE  /\ q \in Seq(Task) /\ <<Est(c)>> \in Seq(Task)
           /\ q \o <<Est(c)>> \in Seq(Task)
           /\ Range(q \o <<Est(c)>>) \subseteq {Reg(c), Est(c)}
<1>1. Reg(c) \in Task /\ Est(c) \in Task
  BY TaskNames
<1>2. q \in Seq(Task) /\ <<Est(c)>> \in Seq(Task)
  <2>1. <<>> \in Seq(Task) /\ <<Reg(c)>> \in Seq(Task) /\ <<Est(c)>> \in Seq(Task)
    BY <1>1
  <2> QED BY <2>1
<1>3. Range(q) \subseteq {Reg(c)} /\ Range(<<Est(c)>>) \subseteq {Est(c)}
  BY <1>1 DEF Range
<1> QED BY <1>2, <1>3, RangeConcat, ConcatProperties

\* NewConnection's calls of RegisterInactiveRelease and Established.
LEMMA EstablishedCases ==
    ASSUME Types, Established
    PROVE  /\ creating \in Id /\ step = "establish" /\ step' = "insert"
           /\ UNCHANGED <<cnt, next_id, next_idx, creating, conns, fd, loop, open,
                          functors, clients, afters, calls, actives, batch, done, pc, late>>
           /\ \/ /\ loop[creating] = Base /\ EstablishInLoop(creating)
                 /\ armed' \in {armed, armed \cup {<<Base, creating>>}}
              \/ /\ loop[creating] \in Loop \ {Base}
                 /\ \E q \in {<<>>, <<Reg(creating)>>} : Pushed(loop[creating], q \o <<Est(creating)>>)
                 /\ UNCHANGED <<stat, armed, channels, epoll, held>>
<1>1. /\ creating # NoConn /\ step = "establish" /\ step' = "insert"
      /\ UNCHANGED <<cnt, next_id, next_idx, creating, conns, fd, loop, open,
                     functors, clients, afters, calls, actives, batch, done, pc, late>>
  BY DEF Established, loopVars
<1>2. creating \in Id /\ loop[creating] \in Loop
  BY <1>1, Numbers DEF Types, TypeOK
<1>3. CASE loop[creating] = Base
  <2>1. EstablishInLoop(creating) /\ armed' \in {armed, armed \cup {<<Base, creating>>}}
    BY <1>3 DEF Established, RegisterInactiveReleaseInLoop
  <2> QED BY <1>1, <1>2, <1>3, <2>1
<1>4. CASE loop[creating] # Base
  <2>1. /\ tasks' = [tasks EXCEPT ![loop[creating]] = @ \o
                    (IF cnt \in TimedThreads THEN <<Reg(creating)>> ELSE <<>>) \o <<Est(creating)>>]
        /\ UNCHANGED <<stat, armed, channels, epoll, held>>
    BY <1>4 DEF Established, pollerVars, Reg, Est
  <2>2. PICK q \in {<<>>, <<Reg(creating)>>} :
          q = IF cnt \in TimedThreads THEN <<Reg(creating)>> ELSE <<>>
    OBVIOUS
  <2>3. q \in Seq(Task) /\ <<Est(creating)>> \in Seq(Task)
    BY <1>2, SetUpTasks
  <2>4. ASSUME NEW s \in Seq(Task)
        PROVE  (s \o q) \o <<Est(creating)>> = s \o (q \o <<Est(creating)>>)
    BY <2>3, ConcatAssociative
  <2>5. Pushed(loop[creating], q \o <<Est(creating)>>)
    <3>1. tasks[loop[creating]] \in Seq(Task)
      BY <1>2 DEF Types, TypeOK
    <3> QED BY <2>1, <2>2, <2>4, <3>1 DEF Pushed
  <2> QED BY <1>1, <1>2, <1>4, <2>1, <2>5
<1> QED BY <1>3, <1>4

LEMMA EstablishedTypes == Types /\ Established => Types'
<1> SUFFICES ASSUME Types, Established PROVE Types'
  OBVIOUS
<1>1. /\ creating \in Id /\ step = "establish" /\ step' = "insert"
      /\ UNCHANGED <<cnt, next_id, next_idx, creating, conns, fd, loop, open,
                     functors, clients, afters, calls, actives, batch, done, pc, late>>
      /\ \/ /\ loop[creating] = Base /\ EstablishInLoop(creating)
            /\ armed' \in {armed, armed \cup {<<Base, creating>>}}
         \/ /\ loop[creating] \in Loop \ {Base}
            /\ \E q \in {<<>>, <<Reg(creating)>>} : Pushed(loop[creating], q \o <<Est(creating)>>)
            /\ UNCHANGED <<stat, armed, channels, epoll, held>>
  BY EstablishedCases
<1>2. CASE /\ loop[creating] = Base /\ EstablishInLoop(creating)
           /\ armed' \in {armed, armed \cup {<<Base, creating>>}}
  <2>1. PICK q \in Seq(Task) : Pushed(loop[creating], q) /\ Range(q) \subseteq {Rel(creating)}
    BY <1>1, <1>2, EstablishFacts
  <2>2. Range(q) \cap Asked = {}
    BY <1>1, <2>1, NotAsked
  <2>3. /\ tasks' \in [Loop -> Seq(Task)]
        /\ \A c \in Id, m \in Loop : Shut(c) \in Range(tasks'[m]) => Shut(c) \in Range(tasks[m])
        /\ AftersIn(tasks'[Base], 0) = AftersIn(tasks[Base], 0)
        /\ \A m \in Loop \ {Base} : After \notin Range(tasks'[m])
    BY <1>2, <2>1, <2>2, Numbers, PushTypes
  <2>4. /\ stat[creating] = "CONNECTING" /\ stat' = [stat EXCEPT ![creating] = "CONNECTED"]
        /\ channels' \in [Loop -> PartialFcns(Fd, Id)] /\ epoll' \in [Loop -> SUBSET Fd]
        /\ \A m \in Loop : epoll'[m] \subseteq DOMAIN channels'[m]
        /\ held' \in {held, held \cup {creating}}
    BY <1>1, <1>2, EstablishFacts
  <2>5. /\ stat' \in [Id -> {"none", "CONNECTING", "CONNECTED", "DISCONNECTED"}]
        /\ open' \subseteq {d \in Id : stat'[d] # "none"}
        /\ \A d \in Id : stat'[d] = "CONNECTING" => stat[d] = "CONNECTING"
    BY <1>1, <2>4, StatTypes
  <2>6. armed' \subseteq (0..cnt) \X Id
    BY <1>1, <1>2, Numbers DEF Types, TypeOK, Base
  <2>7. TypeOK'
    BY <1>1, <2>3, <2>4, <2>5, <2>6 DEF Types, TypeOK
  <2>8. Counted'
    BY <1>1, <2>3 DEF Types, Counted
  <2>9. HasFd'
    BY <1>1, <2>3, <2>4, <2>5, HasFdKept
  <2> QED BY <1>1, <2>3, <2>4, <2>5, <2>7, <2>8, <2>9 DEF Types
<1>3. CASE /\ loop[creating] \in Loop \ {Base}
           /\ \E q \in {<<>>, <<Reg(creating)>>} : Pushed(loop[creating], q \o <<Est(creating)>>)
           /\ UNCHANGED <<stat, armed, channels, epoll, held>>
  <2>1. PICK q \in {<<>>, <<Reg(creating)>>} : Pushed(loop[creating], q \o <<Est(creating)>>)
    BY <1>3
  <2>2. q \o <<Est(creating)>> \in Seq(Task) /\ Range(q \o <<Est(creating)>>) \cap Asked = {}
    BY <1>1, SetUpTasks, NotAsked
  <2>3. /\ tasks' \in [Loop -> Seq(Task)]
        /\ \A c \in Id, m \in Loop : Shut(c) \in Range(tasks'[m]) => Shut(c) \in Range(tasks[m])
        /\ AftersIn(tasks'[Base], 0) = AftersIn(tasks[Base], 0)
        /\ \A m \in Loop \ {Base} : After \notin Range(tasks'[m])
    BY <1>3, <2>1, <2>2, PushTypes
  <2>4. TypeOK'
    BY <1>1, <1>3, <2>3 DEF Types, TypeOK
  <2>5. Counted'
    BY <1>1, <2>3 DEF Types, Counted
  <2>6. HasFd'
    BY <1>1, <1>3, <2>3, HasFdKept
  <2> QED BY <1>1, <1>3, <2>3, <2>4, <2>5, <2>6 DEF Types
<1> QED BY <1>1, <1>2, <1>3

\* The insertion into _conns.
LEMMA InsertTypes == Types /\ Insert => Types'
<1> SUFFICES ASSUME Types, Insert PROVE Types'
  OBVIOUS
<1>1. /\ creating # NoConn /\ conns' = With(conns, next_id, creating)
      /\ creating' = NoConn
      /\ UNCHANGED <<cnt, next_idx, step, connVars, timerVars, envVars, pollerVars,
                     loopVars, tasks, late>>
  BY DEF Insert
<1>2. creating \in Id /\ next_id \in Id
  <2>1. creating \in Id /\ creating <= next_id
    BY <1>1 DEF Types, TypeOK
  <2>2. creating \in Nat /\ creating > 0 /\ next_id \in 0..MaxClients + MaxAfter
    BY <2>1, Numbers DEF Id, Types, TypeOK
  <2> QED BY <2>1, <2>2, Numbers DEF Id
<1>3. conns' \in PartialFcns(Id, Id)
  BY <1>1, <1>2, WithType DEF Types, TypeOK
<1>4. TypeOK'
  BY <1>1, <1>3 DEF Types, TypeOK, connVars, timerVars, envVars, pollerVars, loopVars
<1>5. Counted'
  BY <1>1 DEF Types, Counted, connVars, timerVars, envVars, pollerVars, loopVars
<1>6. HasFd'
  BY <1>1, HasFdKept DEF connVars, envVars, loopVars
<1> QED BY <1>1, <1>4, <1>5, <1>6
        DEF Types, connVars, timerVars, envVars, pollerVars, loopVars

\* Poll: each event has its channel.
LEMMA PollTypes == \A l \in Loop : Types /\ Poll(l) => Types'
<1> SUFFICES ASSUME NEW l \in Loop, Types, Poll(l) PROVE Types'
  OBVIOUS
<1>1. PICK ready \in SUBSET epoll[l], tick \in SUBSET {Timer} :
        actives' = [actives EXCEPT ![l] =
                        {channels[l][f] : f \in ready} \cup tick \cup AcceptorReady(l)]
  BY DEF Poll
<1>2. /\ pc[l] = "poll" /\ pc' = [pc EXCEPT ![l] = "dispatch"]
      /\ UNCHANGED <<newVars, conns, connVars, timerVars, envVars, pollerVars,
                     tasks, batch, done, late>>
  BY DEF Poll
<1>3. /\ actives' \in [Loop -> SUBSET (Id \cup {Timer, Acceptor})]
      /\ \A m \in Loop : Acceptor \in actives'[m] => m = Base
      /\ Acceptor \in actives'[Base] => clients > 0
  <2>1. channels[l] \in [DOMAIN channels[l] -> Id] /\ ready \subseteq DOMAIN channels[l]
    <3>1. channels[l] \in PartialFcns(Fd, Id)
      BY DEF Types, TypeOK
    <3> QED BY <3>1, PartialFcn DEF Types
  <2>2. \A f \in ready : channels[l][f] \in Id
    BY <2>1
  <2>3. AcceptorReady(l) \subseteq {Acceptor} /\ (AcceptorReady(l) # {} => l = Base /\ clients > 0)
    BY DEF AcceptorReady
  <2>4. actives'[l] \subseteq Id \cup {Timer} \cup AcceptorReady(l)
    BY <1>1, <2>2 DEF Types, TypeOK
  <2>5. Acceptor \notin Id /\ Acceptor # Timer
    BY Numbers DEF Acceptor, Timer
  <2>6. \A m \in Loop \ {l} : actives'[m] = actives[m]
    BY <1>1 DEF Types, TypeOK
  <2>7. DOMAIN actives' = Loop /\ actives' = [m \in Loop |-> actives'[m]]
    BY <1>1 DEF Types, TypeOK
  <2>8. \A m \in Loop : actives'[m] \in SUBSET (Id \cup {Timer, Acceptor})
    BY <2>3, <2>4, <2>6 DEF Types, TypeOK
  <2>9. actives' \in [Loop -> SUBSET (Id \cup {Timer, Acceptor})]
    BY <2>7, <2>8
  <2>10. \A m \in Loop : Acceptor \in actives'[m] => m = Base
    <3>1. \A m \in Loop : Acceptor \in actives[m] => m = Base
      BY DEF Types, TypeOK
    <3> QED BY <2>3, <2>4, <2>5, <2>6, <3>1
  <2>11. Acceptor \in actives'[Base] => clients > 0
    BY <2>3, <2>4, <2>5, <2>6, Numbers DEF Types, TypeOK
  <2> QED BY <2>9, <2>10, <2>11
<1>4. TypeOK'
  <2>1. pc' \in [Loop -> {"poll", "dispatch", "run"}]
    BY <1>2 DEF Types, TypeOK
  <2>2. \A m \in Loop : /\ batch'[m] # <<>> => pc'[m] = "run"
                        /\ actives'[m] # {} => pc'[m] = "dispatch"
    BY <1>1, <1>2 DEF Types, TypeOK
  <2>3. creating' # NoConn => pc'[Base] = "dispatch"
    BY <1>2, Numbers DEF Types, TypeOK, newVars
  <2> QED BY <1>2, <1>3, <2>1, <2>2, <2>3
          DEF Types, TypeOK, newVars, connVars, timerVars, envVars, pollerVars
<1>5. Counted'
  BY <1>2 DEF Types, Counted, timerVars, envVars
<1>6. HasFd'
  BY <1>2, HasFdKept DEF connVars, envVars
<1> QED BY <1>2, <1>3, <1>4, <1>5, <1>6
        DEF Types, newVars, connVars, timerVars, envVars, pollerVars

\* A handler takes its channel off and pushes Releases, Ontime may disarm.
LEMMA DispatchTypes ==
    ASSUME Types, NEW l \in Loop, NEW channel, Dispatch(l, channel), NEW m \in Loop,
           \E q \in Seq(Task) : Pushed(m, q) /\ Range(q) \cap Asked = {},
           armed' \subseteq armed, functors' \subseteq functors,
           UNCHANGED <<newVars, next_id, conns, connVars, envVars, pollerVars>>,
           late' \in BOOLEAN
    PROVE  Types'
<1>1. PICK q \in Seq(Task) : Pushed(m, q) /\ Range(q) \cap Asked = {}
  OBVIOUS
<1>2. /\ tasks' \in [Loop -> Seq(Task)]
      /\ \A c \in Id, k \in Loop : Shut(c) \in Range(tasks'[k]) => Shut(c) \in Range(tasks[k])
      /\ AftersIn(tasks'[Base], 0) = AftersIn(tasks[Base], 0)
      /\ \A k \in Loop \ {Base} : After \notin Range(tasks'[k])
  BY <1>1, PushTypes
<1>3. /\ actives' = [actives EXCEPT ![l] = @ \ {channel}]
      /\ UNCHANGED <<batch, done, pc>>
  BY DEF Dispatch
<1>4. /\ actives' \in [Loop -> SUBSET (Id \cup {Timer, Acceptor})]
      /\ \A k \in Loop : actives'[k] \subseteq actives[k]
  BY <1>3 DEF Types, TypeOK
<1>5. TypeOK'
  BY <1>2, <1>3, <1>4 DEF Types, TypeOK, newVars, connVars, envVars, pollerVars
<1>6. Counted'
  BY <1>2, <1>3 DEF Types, Counted, envVars
<1>7. HasFd'
  BY <1>2, <1>3, HasFdKept DEF connVars, envVars
<1> QED BY <1>2, <1>3, <1>4, <1>5, <1>6, <1>7, Numbers
        DEF Types, newVars, connVars, envVars, pollerVars

LEMMA HandleEventTypes == \A l \in Loop, c \in Id : Types /\ HandleEvent(l, c) => Types'
<1> SUFFICES ASSUME NEW l \in Loop, NEW c \in Id, Types, HandleEvent(l, c) PROVE Types'
  OBVIOUS
<1>1. /\ Dispatch(l, c) /\ late' \in BOOLEAN
      /\ UNCHANGED <<newVars, conns, connVars, timerVars, envVars, pollerVars>>
  BY DEF HandleEvent, Types, TypeOK, Ending
<1>2. loop[c] \in Loop
  BY Numbers DEF Types, TypeOK
<1>7. PICK n \in Nat : Releases(c, n)
  BY Numbers DEF HandleEvent
<1>3. PICK q \in Seq(Task) : Pushed(loop[c], q) /\ Range(q) \subseteq {Rel(c)}
  BY <1>7, ReleasesPush
<1>4. Range(q) \cap Asked = {}
  BY <1>3, NotAsked
<1>5. /\ armed' = armed /\ functors' = functors
      /\ UNCHANGED <<newVars, next_id, conns, connVars, envVars, pollerVars>>
  BY <1>1 DEF timerVars
<1>6. armed' \subseteq armed /\ functors' \subseteq functors
  BY <1>5
<1> QED BY Zenon, <1>1, <1>2, <1>3, <1>4, <1>5, <1>6, DispatchTypes

\* What the expiry of the ids in `off` leaves.
LEMMA OntimeCases ==
    ASSUME NEW l \in Loop, Ontime(l)
    PROVE  /\ Dispatch(l, Timer)
           /\ UNCHANGED <<newVars, next_id, conns, connVars, envVars, pollerVars, late>>
           /\ \E off \in SUBSET Expirable(l), q \in Seq(Task) :
                 /\ armed' = armed \ ({l} \X off) /\ functors' = functors \ off
                 /\ Pushed(l, q) /\ Range(q) \subseteq {Rel(c) : c \in off \ functors}
<1>1. PICK off \in SUBSET Expirable(l) :
        /\ armed' = armed \ ({l} \X off) /\ functors' = functors \ off
        /\ tasks' = [tasks EXCEPT ![l] = @ \o SetToSeq({"Release"} \X (off \ functors))]
  BY DEF Ontime
<1>2. off \ functors \in SUBSET Id
  BY DEF Expirable
<1>3. \E q \in Seq(Task) : Pushed(l, q) /\ Range(q) \subseteq {Rel(c) : c \in off \ functors}
  BY <1>1, <1>2, OntimePushes
<1> QED BY <1>1, <1>3 DEF Ontime

LEMMA OntimeTypes == \A l \in Loop : Types /\ Ontime(l) => Types'
<1> SUFFICES ASSUME NEW l \in Loop, Types, Ontime(l) PROVE Types'
  OBVIOUS
<1>1. PICK off \in SUBSET Expirable(l), q \in Seq(Task) :
        /\ armed' = armed \ ({l} \X off) /\ functors' = functors \ off
        /\ Pushed(l, q) /\ Range(q) \subseteq {Rel(c) : c \in off \ functors}
  BY OntimeCases
<1>2. Range(q) \cap Asked = {}
  BY <1>1, NotAsked DEF Expirable
<1>3. armed' \subseteq armed /\ functors' \subseteq functors
  BY <1>1
<1>4. /\ Dispatch(l, Timer) /\ late' \in BOOLEAN
      /\ UNCHANGED <<newVars, next_id, conns, connVars, envVars, pollerVars>>
  BY OntimeCases DEF Types, TypeOK
<1> QED BY Zenon, <1>1, <1>2, <1>3, <1>4, DispatchTypes

\* The swap.
LEMMA SwapTasksTypes == \A l \in Loop : Types /\ SwapTasks(l) => Types'
<1> SUFFICES ASSUME NEW l \in Loop, Types, SwapTasks(l) PROVE Types'
  OBVIOUS
<1>1. /\ pc[l] = "dispatch" /\ (l = Base => creating = NoConn) /\ actives[l] = {}
      /\ batch' = [batch EXCEPT ![l] = tasks[l]]
      /\ tasks' = [tasks EXCEPT ![l] = <<>>]
      /\ pc' = [pc EXCEPT ![l] = IF tasks[l] = <<>> THEN "poll" ELSE "run"]
      /\ UNCHANGED <<newVars, conns, connVars, timerVars, envVars, pollerVars,
                     actives, done, late>>
  BY DEF SwapTasks, AllDispatched, Dispatching
<1>2. batch[l] = <<>> /\ done[l] = 0
  <2>1. batch[l] = <<>> /\ done[l] \in Nat /\ done[l] <= Len(batch[l])
    BY <1>1 DEF Types, TypeOK
  <2> QED BY <2>1
<1>3. TypeOK'
  <2>1. /\ tasks' \in [Loop -> Seq(Task)] /\ batch' \in [Loop -> Seq(Task)]
        /\ pc' \in [Loop -> {"poll", "dispatch", "run"}]
    BY <1>1 DEF Types, TypeOK
  <2>2. creating' # NoConn => pc'[Base] = "dispatch"
    BY <1>1, Numbers DEF Types, TypeOK, newVars
  <2>3. \A m \in Loop : done'[m] <= Len(batch'[m])
    <3>1. Len(tasks[l]) >= 0
      BY LenProperties DEF Types, TypeOK
    <3> QED BY <1>1, <1>2, <3>1 DEF Types, TypeOK
  <2>4. \A m \in Loop : /\ batch'[m] # <<>> => pc'[m] = "run"
                        /\ actives'[m] # {} => pc'[m] = "dispatch"
    BY <1>1 DEF Types, TypeOK
  <2> QED BY <1>1, <2>1, <2>2, <2>3, <2>4
          DEF Types, TypeOK, newVars, connVars, timerVars, envVars, pollerVars
<1>4. Counted'
  <2>1. CASE l = Base
    <3>1. /\ AftersIn(batch'[Base], done'[Base]) = AftersIn(tasks[Base], 0)
          /\ AftersIn(tasks'[Base], 0) = AftersIn(batch[Base], done[Base])
      BY <1>1, <1>2, <2>1 DEF Types, TypeOK
    <3>2. /\ Cardinality(AftersIn(batch[Base], done[Base])) \in Nat
          /\ Cardinality(AftersIn(tasks[Base], 0)) \in Nat /\ next_id \in Nat
      BY CountRoom
    <3> QED BY <1>1, <3>1, <3>2 DEF Types, Counted, timerVars, envVars
  <2>2. CASE l # Base
    <3>1. batch'[Base] = batch[Base] /\ tasks'[Base] = tasks[Base] /\ done' = done
      BY <1>1, <2>2, Numbers DEF Types, TypeOK
    <3> QED BY <1>1, <3>1 DEF Types, Counted, timerVars, envVars
  <2> QED BY <2>1, <2>2
<1>5. \A m \in Loop \ {Base} : After \notin Range(tasks'[m]) \cup Range(batch'[m])
  <2>1. \A m \in Loop : tasks'[m] \in {tasks[m], <<>>} /\ batch'[m] \in {tasks[m], batch[m]}
    BY <1>1 DEF Types, TypeOK
  <2> QED BY <2>1, EmptyRange DEF Types
<1>6. HasFd'
  <2>1. \A m \in Loop : tasks'[m] \in {tasks[m], <<>>} /\ batch'[m] \in {tasks[m], batch[m]}
    BY <1>1 DEF Types, TypeOK
  <2>2. ASSUME NEW m \in Loop PROVE Range(tasks'[m]) \cup Range(batch'[m])
                                       \subseteq Range(tasks[m]) \cup Range(batch[m])
    BY <2>1, EmptyRange
  <2> QED BY <1>1, <2>2, HasFdKept DEF connVars, envVars
<1> QED BY <1>1, <1>3, <1>4, <1>5, <1>6
        DEF Types, newVars, connVars, timerVars, envVars, pollerVars

\* The end of a batch.
LEMMA EndOfBatchTypes == \A l \in Loop : Types /\ EndOfBatch(l) => Types'
<1> SUFFICES ASSUME NEW l \in Loop, Types, EndOfBatch(l) PROVE Types'
  OBVIOUS
<1>1. /\ pc[l] = "run" /\ done[l] = Len(batch[l])
      /\ batch' = [batch EXCEPT ![l] = <<>>]
      /\ done' = [done EXCEPT ![l] = 0]
      /\ pc' = [pc EXCEPT ![l] = "poll"]
      /\ UNCHANGED <<newVars, conns, connVars, timerVars, envVars, pollerVars,
                     actives, tasks, late>>
  BY DEF EndOfBatch
<1>2. TypeOK'
  <2>1. /\ batch' \in [Loop -> Seq(Task)] /\ done' \in [Loop -> Nat]
        /\ pc' \in [Loop -> {"poll", "dispatch", "run"}]
    BY <1>1 DEF Types, TypeOK
  <2>2. creating' # NoConn => pc'[Base] = "dispatch"
    BY <1>1, Numbers DEF Types, TypeOK, newVars
  <2>3. \A m \in Loop : done'[m] <= Len(batch'[m])
    BY <1>1 DEF Types, TypeOK
  <2>4. \A m \in Loop : /\ batch'[m] # <<>> => pc'[m] = "run"
                        /\ actives'[m] # {} => pc'[m] = "dispatch"
    BY <1>1 DEF Types, TypeOK
  <2> QED BY <1>1, <2>1, <2>2, <2>3, <2>4
          DEF Types, TypeOK, newVars, connVars, timerVars, envVars, pollerVars
<1>3. AftersIn(batch'[Base], done'[Base]) = AftersIn(batch[Base], done[Base])
  <2>1. CASE l = Base
    <3>1. batch'[Base] = <<>> /\ done'[Base] = 0 /\ <<>> \in Seq(Task) /\ Len(<<>>) = 0
      BY <1>1, <2>1 DEF Types, TypeOK
    <3>2. AftersIn(batch'[Base], done'[Base]) = {}
      BY <3>1 DEF AftersIn
    <3>3. batch[Base] \in Seq(Task) /\ done[Base] \in Nat /\ done[Base] = Len(batch[Base])
      BY <1>1, <2>1 DEF Types, TypeOK
    <3>4. AftersIn(batch[Base], done[Base]) = {}
      BY <3>3, CountRun
    <3> QED BY <3>2, <3>4
  <2>2. CASE l # Base
    BY <1>1, <2>2, Numbers DEF Types, TypeOK
  <2> QED BY <2>1, <2>2
<1>4. Counted'
  BY <1>1, <1>3 DEF Types, Counted, timerVars, envVars
<1>5. \A m \in Loop \ {Base} : After \notin Range(tasks'[m]) \cup Range(batch'[m])
  <2>1. \A m \in Loop : tasks'[m] = tasks[m] /\ batch'[m] \in {<<>>, batch[m]}
    BY <1>1 DEF Types, TypeOK
  <2> QED BY <2>1, EmptyRange DEF Types
<1>6. HasFd'
  <2>1. \A m \in Loop : tasks'[m] = tasks[m] /\ batch'[m] \in {<<>>, batch[m]}
    BY <1>1 DEF Types, TypeOK
  <2>2. ASSUME NEW m \in Loop PROVE Range(tasks'[m]) \cup Range(batch'[m])
                                       \subseteq Range(tasks[m]) \cup Range(batch[m])
    BY <2>1, EmptyRange
  <2> QED BY <1>1, <2>2, HasFdKept DEF connVars, envVars
<1> QED BY <1>1, <1>2, <1>4, <1>5, <1>6
        DEF Types, newVars, connVars, timerVars, envVars, pollerVars

\* The six kinds of tasks.
LEMMA RunTaskCases ==
    ASSUME Types, NEW l \in Loop, RunTask(l)
    PROVE  /\ pc[l] = "run" /\ done[l] < Len(batch[l]) /\ done' = [done EXCEPT ![l] = @ + 1]
           /\ batch[l][done[l] + 1] \in Range(batch[l])
           /\ UNCHANGED <<newVars, clients, afters, calls, actives, batch, pc>>
           /\ \/ /\ batch[l][done[l] + 1] = After
                 /\ RunAfterInLoop
                 /\ UNCHANGED <<conns, connVars, pollerVars, tasks, held, late>>
              \/ \E c \in Id :
                   \/ /\ batch[l][done[l] + 1] = Reg(c)
                      /\ RegisterInactiveReleaseInLoop(c)
                      /\ UNCHANGED <<next_id, conns, connVars, functors, pollerVars, tasks, held, late>>
                   \/ /\ batch[l][done[l] + 1] = Est(c)
                      /\ EstablishInLoop(c)
                      /\ UNCHANGED <<conns, fd, loop, open, timerVars, late>>
                   \/ /\ batch[l][done[l] + 1] = Rel(c)
                      /\ ReleaseInLoop(c)
                      /\ UNCHANGED <<next_id, fd, loop, functors, held, late>>
                   \/ /\ batch[l][done[l] + 1] = Shut(c)
                      /\ ShutDownInLoop(c)
                      /\ UNCHANGED <<conns, connVars, timerVars, held>>
                   \/ /\ batch[l][done[l] + 1] = Rem(c)
                      /\ RemoveConnectionInLoop(c)
                      /\ UNCHANGED <<connVars, timerVars, pollerVars, tasks, held, late>>
<1> DEFINE task == batch[l][done[l] + 1]
<1>1. /\ pc[l] = "run" /\ done[l] < Len(batch[l]) /\ done' = [done EXCEPT ![l] = @ + 1]
      /\ UNCHANGED <<newVars, clients, afters, calls, actives, batch, pc>>
      /\ \/ /\ task[1] = "Register" /\ RegisterInactiveReleaseInLoop(task[2])
            /\ UNCHANGED <<next_id, conns, connVars, functors, pollerVars, tasks, held, late>>
         \/ /\ task[1] = "Established" /\ EstablishInLoop(task[2])
            /\ UNCHANGED <<conns, fd, loop, open, timerVars, late>>
         \/ /\ task[1] = "Release" /\ ReleaseInLoop(task[2])
            /\ UNCHANGED <<next_id, fd, loop, functors, held, late>>
         \/ /\ task[1] = "ShutDown" /\ ShutDownInLoop(task[2])
            /\ UNCHANGED <<conns, connVars, timerVars, held>>
         \/ /\ task[1] = "Remove" /\ RemoveConnectionInLoop(task[2])
            /\ UNCHANGED <<connVars, timerVars, pollerVars, tasks, held, late>>
         \/ /\ task[1] = "RunAfter" /\ RunAfterInLoop
            /\ UNCHANGED <<conns, connVars, pollerVars, tasks, held, late>>
  BY DEF RunTask
<1>2. task \in Task /\ task \in Range(batch[l])
  <2>1. /\ batch \in [Loop -> Seq(Task)] /\ done \in [Loop -> Nat]
        /\ done[l] <= Len(batch[l])
    BY DEF Types, TypeOK
  <2> QED BY <1>1, <2>1, RestFacts
<1>3. CASE task = After
  <2>1. task[1] = "RunAfter"
    BY <1>3 DEF After
  <2>2. RunAfterInLoop /\ UNCHANGED <<conns, connVars, pollerVars, tasks, held, late>>
    BY <1>1, <2>1
  <2> QED BY <1>1, <1>2, <1>3, <2>2
<1>4. ASSUME NEW c \in Id, task \in {Reg(c), Est(c), Rel(c), Rem(c), Shut(c)}
      PROVE  \/ /\ task = Reg(c) /\ RegisterInactiveReleaseInLoop(c)
                /\ UNCHANGED <<next_id, conns, connVars, functors, pollerVars, tasks, held, late>>
             \/ /\ task = Est(c) /\ EstablishInLoop(c)
                /\ UNCHANGED <<conns, fd, loop, open, timerVars, late>>
             \/ /\ task = Rel(c) /\ ReleaseInLoop(c)
                /\ UNCHANGED <<next_id, fd, loop, functors, held, late>>
             \/ /\ task = Shut(c) /\ ShutDownInLoop(c)
                /\ UNCHANGED <<conns, connVars, timerVars, held>>
             \/ /\ task = Rem(c) /\ RemoveConnectionInLoop(c)
                /\ UNCHANGED <<connVars, timerVars, pollerVars, tasks, held, late>>
  <2>1. task[2] = c /\ /\ task = Reg(c) => task[1] = "Register"
                       /\ task = Est(c) => task[1] = "Established"
                       /\ task = Rel(c) => task[1] = "Release"
                       /\ task = Rem(c) => task[1] = "Remove"
                       /\ task = Shut(c) => task[1] = "ShutDown"
    BY <1>4 DEF Reg, Est, Rel, Rem, Shut
  <2> HIDE DEF task
  <2> QED BY <1>1, <1>4, <2>1
<1> QED BY <1>1, <1>2, <1>3, <1>4, TaskNames

\* What ReleaseInLoop pushes, and what is left of the table.
LEMMA ReleaseFacts ==
    ASSUME Types, NEW c \in Id, ReleaseInLoop(c)
    PROVE  /\ loop[c] \in Loop
           /\ stat' = [stat EXCEPT ![c] = "DISCONNECTED"]
           /\ RemoveEvent(loop[c], c)
           /\ channels' \in [Loop -> PartialFcns(Fd, Id)] /\ epoll' \in [Loop -> SUBSET Fd]
           /\ \A m \in Loop : epoll'[m] \subseteq DOMAIN channels'[m]
           /\ open' = open \ {c} /\ armed' = armed \ {<<loop[c], c>>}
           /\ conns' \in {conns, Without(conns, AsInt(c))}
           /\ conns' \in PartialFcns(Id, Id)
           /\ \E q \in Seq(Task) : Pushed(Base, q) /\ Range(q) \subseteq {Rem(c)}
           /\ loop[c] = Base => conns' = Without(conns, AsInt(c)) /\ tasks' = tasks
           /\ loop[c] # Base => conns' = conns /\ Rem(c) \in Range(tasks'[Base])
<1>1. loop[c] \in Loop /\ tasks \in [Loop -> Seq(Task)] /\ conns \in PartialFcns(Id, Id)
  BY Numbers DEF Types, TypeOK
<1>2. /\ stat' = [stat EXCEPT ![c] = "DISCONNECTED"]
      /\ RemoveEvent(loop[c], c) /\ open' = open \ {c}
      /\ armed' = armed \ {<<loop[c], c>>}
  BY DEF ReleaseInLoop, Close
<1>3. /\ channels' \in [Loop -> PartialFcns(Fd, Id)] /\ epoll' \in [Loop -> SUBSET Fd]
      /\ \A m \in Loop : epoll'[m] \subseteq DOMAIN channels'[m]
  BY <1>1, <1>2, RemoveEventTypes
<1>4. Without(conns, AsInt(c)) \in PartialFcns(Id, Id)
  BY <1>1, WithoutType
<1>5. CASE loop[c] = Base
  <2>1. conns' = Without(conns, AsInt(c)) /\ tasks' = tasks
    BY <1>5 DEF ReleaseInLoop, RemoveConnection, RemoveConnectionInLoop
  <2>2. Pushed(Base, <<>>) /\ <<>> \in Seq(Task) /\ Range(<<>>) \subseteq {Rem(c)}
    <3>1. \A m \in Loop : tasks[m] \o <<>> = tasks[m]
      BY <1>1, ConcatEmptySeq
    <3> QED BY <1>1, <2>1, <3>1, EmptyRange DEF Pushed
  <2> QED BY <1>1, <1>2, <1>3, <1>4, <1>5, <2>1, <2>2
<1>6. CASE loop[c] # Base
  <2>1. Push(Base, Rem(c)) /\ conns' = conns
    BY <1>6 DEF ReleaseInLoop, RemoveConnection, Rem
  <2>2. /\ Pushed(Base, <<Rem(c)>>) /\ <<Rem(c)>> \in Seq(Task)
        /\ \A u : u \in Range(<<Rem(c)>>) <=> u = Rem(c)
    BY <1>1, <2>1, Numbers, TaskNames, PushOne
  <2>3. Rem(c) \in Range(tasks'[Base])
    BY <1>1, <2>2, Numbers, PushFacts
  <2>4. \E q \in Seq(Task) : Pushed(Base, q) /\ Range(q) \subseteq {Rem(c)}
    BY <2>2
  <2> QED BY <1>1, <1>2, <1>3, <1>6, <2>1, <2>3, <2>4
<1> QED BY <1>5, <1>6

\* What ShutDownInLoop pushes, and what it leaves of the Poller.
LEMMA ShutDownFacts ==
    ASSUME Types, NEW c \in Id, fd[c] \in Fd, ShutDownInLoop(c)
    PROVE  /\ loop[c] \in Loop
           /\ UNCHANGED pollerVars \/ UpdateEvent(loop[c], c)
           /\ channels' \in [Loop -> PartialFcns(Fd, Id)] /\ epoll' \in [Loop -> SUBSET Fd]
           /\ \A m \in Loop : epoll'[m] \subseteq DOMAIN channels'[m]
           /\ late' \in BOOLEAN /\ (late => late')
           /\ (~late' /\ stat[c] = "DISCONNECTED") => UNCHANGED pollerVars
           /\ \E q \in Seq(Task) :
                 /\ Pushed(loop[c], q) /\ Range(q) \subseteq {Rel(c)}
                 /\ ~late' /\ Ending(c) => q = <<>>
<1>1. PICK n \in 0..MaxReleases, write \in BOOLEAN :
        /\ Releases(c, n)
        /\ IF write THEN UpdateEvent(loop[c], c) ELSE UNCHANGED pollerVars
        /\ late' = (\/ late
                    \/ n > 0 /\ Ending(c)
                    \/ write /\ stat[c] = "DISCONNECTED")
  BY DEF ShutDownInLoop
<1>2. n \in Nat /\ loop[c] \in Loop
  <2>1. loop[c] \in Loop
    BY Numbers DEF Types, TypeOK
  <2> QED BY <2>1
<1>3. PICK q \in Seq(Task) :
        Pushed(loop[c], q) /\ Range(q) \subseteq {Rel(c)} /\ (n = 0 => q = <<>>)
  BY <1>1, <1>2, ReleasesPush
<1>4. /\ late' \in BOOLEAN /\ (late => late')
      /\ n > 0 /\ Ending(c) => late'
      /\ write /\ stat[c] = "DISCONNECTED" => late'
  BY Zenon, <1>1
<1>5. n > 0 \/ n = 0
  BY <1>2
<1>6. ~late' /\ Ending(c) => q = <<>>
  BY <1>3, <1>4, <1>5
<1>7. \/ UpdateEvent(loop[c], c) /\ (~late' => stat[c] # "DISCONNECTED")
      \/ UNCHANGED pollerVars
  BY Zenon, <1>1, <1>4
<1>8. /\ channels' \in [Loop -> PartialFcns(Fd, Id)] /\ epoll' \in [Loop -> SUBSET Fd]
      /\ \A m \in Loop : epoll'[m] \subseteq DOMAIN channels'[m]
  <2>1. CASE UpdateEvent(loop[c], c)
    BY <1>2, <2>1, UpdateEventTypes
  <2>2. CASE UNCHANGED pollerVars
    BY <2>2 DEF pollerVars, Types, TypeOK
  <2> QED BY <1>7, <2>1, <2>2
<1> QED BY <1>2, <1>3, <1>4, <1>6, <1>7, <1>8

\* A task of the batch.
LEMMA RunTaskTypes == \A l \in Loop : Types /\ RunTask(l) => Types'
<1> SUFFICES ASSUME NEW l \in Loop, Types, RunTask(l) PROVE Types'
  OBVIOUS
<1> DEFINE task == batch[l][done[l] + 1]
<1>1. /\ pc[l] = "run" /\ done[l] < Len(batch[l]) /\ done' = [done EXCEPT ![l] = @ + 1]
      /\ task \in Range(batch[l])
      /\ UNCHANGED <<cnt, next_idx, creating, step, clients, afters, calls, actives, batch, pc>>
  BY RunTaskCases DEF newVars
<1>2. /\ done' \in [Loop -> Nat]
      /\ \A m \in Loop : done'[m] <= Len(batch'[m])
  <2>1. done[l] + 1 <= Len(batch[l])
    BY <1>1, LenProperties DEF Types, TypeOK
  <2> QED BY <1>1, <2>1 DEF Types, TypeOK
<1>3. /\ Cardinality(AftersIn(batch'[Base], done'[Base])) \in Nat
      /\ task = After /\ l = Base =>
            Cardinality(AftersIn(batch[Base], done[Base]))
                = Cardinality(AftersIn(batch'[Base], done'[Base])) + 1
      /\ task # After \/ l # Base =>
            Cardinality(AftersIn(batch[Base], done[Base]))
                = Cardinality(AftersIn(batch'[Base], done'[Base]))
  <2>1. batch'[Base] \in Seq(Task) /\ done'[Base] \in Nat
    BY <1>1, <1>2, Numbers DEF Types, TypeOK
  <2>2. Cardinality(AftersIn(batch'[Base], done'[Base])) \in Nat
    BY <2>1, FinitelyMany
  <2>3. CASE l = Base
    <3>1. /\ batch[l] \in Seq(Task) /\ done[l] \in Nat
          /\ done'[l] = done[l] + 1 /\ batch'[l] = batch[l] /\ done[l] <= Len(batch[l])
      BY <1>1 DEF Types, TypeOK
    <3>2. Cardinality(AftersIn(batch[l], done[l]))
            = Cardinality(AftersIn(batch[l], done[l] + 1)) + IF task = After THEN 1 ELSE 0
      BY <1>1, <3>1, CountRun
    <3> QED BY <2>2, <2>3, <3>1, <3>2
  <2>4. CASE l # Base
    <3>1. AftersIn(batch'[Base], done'[Base]) = AftersIn(batch[Base], done[Base])
      BY <1>1, <2>4, Numbers DEF Types, TypeOK
    <3> QED BY <2>2, <2>4, <3>1
  <2> QED BY <2>3, <2>4
<1>4. task = After => l = Base
  BY <1>1 DEF Types
<1> HIDE DEF task
<1>5. CASE /\ task = After /\ RunAfterInLoop
           /\ UNCHANGED <<conns, connVars, pollerVars, tasks, held, late>>
  <2>1. /\ next_id' = next_id + 1
        /\ armed' = armed \cup {<<Base, next_id + 1>>}
        /\ functors' = functors \cup {next_id + 1}
    BY <1>5 DEF RunAfterInLoop
  <2>2. Cardinality(AftersIn(batch[Base], done[Base]))
           = Cardinality(AftersIn(batch'[Base], done'[Base])) + 1
    BY <1>3, <1>4, <1>5
  <2>3. Cardinality(AftersIn(batch[Base], done[Base])) > 0
    BY <1>3, <2>2
  <2>4. next_id + 1 \in Id /\ next_id' \in 0..MaxClients + MaxAfter
    BY <2>1, <2>3, CountRoom, Numbers DEF Id
  <2>5. armed' \subseteq (0..cnt) \X Id /\ functors' \subseteq Id
    BY <2>1, <2>4 DEF Types, TypeOK, Base
  <2>6. TypeOK'
    BY <1>1, <1>2, <1>5, <2>4, <2>5 DEF Types, TypeOK, connVars, pollerVars
  <2>7. Counted'
    BY <1>1, <1>3, <1>5, <2>1, <2>2, CountRoom DEF Types, Counted
  <2>8. creating' # NoConn => creating' <= next_id'
    <3>1. creating = NoConn \/ creating \in Nat
      BY Numbers DEF Types, TypeOK, Id
    <3>2. creating' = creating /\ next_id \in Nat
      BY <1>1, CountRoom
    <3> QED BY <2>1, <3>1, <3>2 DEF Types
  <2>9. HasFd'
    BY <1>1, <1>5, HasFdKept DEF connVars
  <2> QED BY <1>1, <1>5, <2>6, <2>7, <2>8, <2>9 DEF Types, connVars, pollerVars
<1>6. ASSUME NEW c \in Id,
             \/ /\ task = Reg(c) /\ RegisterInactiveReleaseInLoop(c)
                /\ UNCHANGED <<next_id, conns, connVars, functors, pollerVars, tasks, held, late>>
             \/ /\ task = Rem(c) /\ RemoveConnectionInLoop(c)
                /\ UNCHANGED <<connVars, timerVars, pollerVars, tasks, held, late>>
      PROVE  Types'
  <2>1. Cardinality(AftersIn(batch'[Base], done'[Base]))
            = Cardinality(AftersIn(batch[Base], done[Base]))
    BY <1>3, <1>6, TaskNames
  <2>2. armed' \subseteq (0..cnt) \X Id
    BY <1>6 DEF RegisterInactiveReleaseInLoop, timerVars, Types, TypeOK
  <2>3. conns' \in PartialFcns(Id, Id)
    <3>1. conns \in PartialFcns(Id, Id)
      BY DEF Types, TypeOK
    <3>2. Without(conns, AsInt(c)) \in PartialFcns(Id, Id)
      BY <3>1, WithoutType
    <3> QED BY <1>6, <3>1, <3>2 DEF RemoveConnectionInLoop
  <2>4. UNCHANGED <<next_id, connVars, functors, pollerVars, tasks, held, late>>
    BY <1>6 DEF timerVars
  <2>5. TypeOK'
    BY <1>1, <1>2, <2>2, <2>3, <2>4 DEF Types, TypeOK, connVars, pollerVars
  <2>6. Counted'
    BY <1>1, <2>1, <2>4 DEF Types, Counted
  <2>7. HasFd'
    BY <1>1, <2>4, HasFdKept DEF connVars
  <2> QED BY <1>1, <2>4, <2>5, <2>6, <2>7 DEF Types, connVars, pollerVars
\* EstablishInLoop, ReleaseInLoop and ShutDownInLoop.
<1>7. ASSUME NEW c \in Id, task # After,
             \/ stat' = stat
             \/ \E s \in {"CONNECTED", "DISCONNECTED"} : stat' = [stat EXCEPT ![c] = s],
             held' \subseteq held \cup {d \in Id : stat[d] = "CONNECTING"}, late' \in BOOLEAN,
             open' \subseteq open, UNCHANGED <<next_id, fd, loop, functors>>,
             armed' \subseteq armed, conns' \in PartialFcns(Id, Id),
             channels' \in [Loop -> PartialFcns(Fd, Id)] /\ epoll' \in [Loop -> SUBSET Fd],
             \A m \in Loop : epoll'[m] \subseteq DOMAIN channels'[m],
             NEW m \in Loop, NEW q \in Seq(Task), Pushed(m, q), Range(q) \cap Asked = {}
      PROVE  Types'
  <2>1. /\ stat' \in [Id -> {"none", "CONNECTING", "CONNECTED", "DISCONNECTED"}]
        /\ open' \subseteq {d \in Id : stat'[d] # "none"}
        /\ \A d \in Id : stat'[d] = "CONNECTING" => stat[d] = "CONNECTING"
    BY <1>7, StatTypes DEF Types, TypeOK
  <2>2. /\ tasks' \in [Loop -> Seq(Task)]
        /\ \A d \in Id, k \in Loop : Shut(d) \in Range(tasks'[k]) => Shut(d) \in Range(tasks[k])
        /\ AftersIn(tasks'[Base], 0) = AftersIn(tasks[Base], 0)
        /\ \A k \in Loop \ {Base} : After \notin Range(tasks'[k])
    BY <1>7, PushTypes
  <2>3. TypeOK'
    BY <1>1, <1>2, <1>7, <2>1, <2>2 DEF Types, TypeOK
  <2>4. Counted'
    BY <1>1, <1>3, <1>7, <2>2 DEF Types, Counted
  <2>5. HasFd'
    BY <1>1, <1>7, <2>1, <2>2, HasFdKept
  <2> QED BY <1>1, <1>7, <2>1, <2>2, <2>3, <2>4, <2>5 DEF Types
<1>8. ASSUME NEW c \in Id, task = Est(c), EstablishInLoop(c),
             UNCHANGED <<conns, fd, loop, open, timerVars, late>>
      PROVE  Types'
  <2>1. PICK q \in Seq(Task) : Pushed(loop[c], q) /\ Range(q) \subseteq {Rel(c)}
    BY <1>8, EstablishFacts
  <2>2. Range(q) \cap Asked = {} /\ task # After
    BY <1>8, <2>1, NotAsked, TaskNames
  <2>3. /\ loop[c] \in Loop /\ stat' = [stat EXCEPT ![c] = "CONNECTED"]
        /\ held' \subseteq held \cup {d \in Id : stat[d] = "CONNECTING"}
        /\ channels' \in [Loop -> PartialFcns(Fd, Id)] /\ epoll' \in [Loop -> SUBSET Fd]
        /\ \A m \in Loop : epoll'[m] \subseteq DOMAIN channels'[m]
    BY <1>8, EstablishFacts
  <2>4. /\ open' \subseteq open /\ armed' \subseteq armed /\ conns' \in PartialFcns(Id, Id)
        /\ UNCHANGED <<next_id, fd, loop, functors>> /\ late' \in BOOLEAN
    BY <1>8 DEF timerVars, Types, TypeOK
  <2> QED BY <1>7, <2>1, <2>2, <2>3, <2>4
<1>9. ASSUME NEW c \in Id, task = Rel(c), ReleaseInLoop(c),
             UNCHANGED <<next_id, fd, loop, functors, held, late>>
      PROVE  Types'
  <2>1. PICK q \in Seq(Task) : Pushed(Base, q) /\ Range(q) \subseteq {Rem(c)}
    BY <1>9, ReleaseFacts
  <2>2. Range(q) \cap Asked = {} /\ task # After
    BY <1>9, <2>1, NotAsked, TaskNames
  <2>3. /\ stat' = [stat EXCEPT ![c] = "DISCONNECTED"] /\ open' \subseteq open
        /\ armed' \subseteq armed /\ conns' \in PartialFcns(Id, Id)
        /\ channels' \in [Loop -> PartialFcns(Fd, Id)] /\ epoll' \in [Loop -> SUBSET Fd]
        /\ \A m \in Loop : epoll'[m] \subseteq DOMAIN channels'[m]
    BY <1>9, ReleaseFacts
  <2>4. late' \in BOOLEAN /\ held' \subseteq held
    BY <1>9 DEF Types, TypeOK
  <2> QED BY <1>7, <1>9, <2>1, <2>2, <2>3, <2>4, Numbers
<1>10. ASSUME NEW c \in Id, task = Shut(c), ShutDownInLoop(c),
              UNCHANGED <<conns, connVars, timerVars, held>>
       PROVE  Types'
  <2>1. fd[c] \in Fd /\ loop[c] \in Loop
    BY <1>1, <1>10, Numbers DEF Types, TypeOK, HasFd
  <2>2. PICK q \in Seq(Task) : Pushed(loop[c], q) /\ Range(q) \subseteq {Rel(c)}
    BY <1>10, <2>1, ShutDownFacts
  <2>3. Range(q) \cap Asked = {} /\ task # After
    BY <1>10, <2>2, NotAsked, TaskNames
  <2>4. /\ channels' \in [Loop -> PartialFcns(Fd, Id)] /\ epoll' \in [Loop -> SUBSET Fd]
        /\ \A m \in Loop : epoll'[m] \subseteq DOMAIN channels'[m]
        /\ late' \in BOOLEAN
    BY <1>10, <2>1, ShutDownFacts
  <2>5. /\ stat' = stat /\ open' \subseteq open /\ armed' \subseteq armed
        /\ conns' \in PartialFcns(Id, Id) /\ held' \subseteq held
        /\ UNCHANGED <<next_id, fd, loop, functors>>
    BY <1>10 DEF timerVars, connVars, Types, TypeOK
  <2> QED BY <1>7, <2>1, <2>2, <2>3, <2>4, <2>5
<1> QED BY <1>5, <1>6, <1>8, <1>9, <1>10, RunTaskCases DEF task

LEMMA StutterTypes == Types /\ UNCHANGED vars => Types'
<1> SUFFICES ASSUME Types, UNCHANGED vars PROVE Types'
  OBVIOUS
<1>1. TypeOK'
  BY DEF vars, newVars, connVars, timerVars, envVars, pollerVars, loopVars, Types, TypeOK
<1>2. Counted'
  BY DEF vars, newVars, timerVars, envVars, loopVars, Types, Counted
<1>3. HasFd'
  BY HasFdKept DEF vars, connVars, envVars, loopVars
<1> QED BY <1>1, <1>2, <1>3
        DEF vars, newVars, connVars, timerVars, envVars, pollerVars, loopVars, Types

\* What a call of another thread pushes.
LEMMA CallCases ==
    ASSUME Types, Call
    PROVE  /\ calls < MaxCalls /\ calls' = calls + 1
           /\ UNCHANGED <<newVars, conns, connVars, timerVars, clients, afters, held,
                          pollerVars, loopVars>>
           /\ \E c \in held :
                 /\ c \in Id /\ loop[c] \in Loop
                 /\ \/ Pushed(loop[c], <<Shut(c)>>) /\ late' = late
                    \/ Pushed(loop[c], <<Rel(c)>>) /\ late' = (late \/ Ending(c))
<1>1. /\ calls < MaxCalls /\ calls' = calls + 1
      /\ UNCHANGED <<newVars, conns, connVars, timerVars, clients, afters, held,
                     pollerVars, loopVars>>
      /\ \E c \in held : ShutDown(c) \/ Release(c)
  BY DEF Call
<1>2. PICK c \in held : ShutDown(c) \/ Release(c)
  BY <1>1
<1>3. c \in Id /\ loop[c] \in Loop /\ tasks \in [Loop -> Seq(Task)]
  BY Numbers DEF Types, TypeOK
<1>4. Shut(c) \in Task /\ Rel(c) \in Task
  BY <1>3, TaskNames
<1>5. CASE ShutDown(c)
  <2>1. Push(loop[c], Shut(c)) /\ late' = late
    BY <1>5 DEF ShutDown, Shut
  <2> QED BY <1>1, <1>3, <1>4, <2>1, PushOne
<1>6. CASE Release(c)
  <2>1. Push(loop[c], Rel(c)) /\ late' = (late \/ Ending(c))
    BY <1>6 DEF Release, Rel
  <2> QED BY <1>1, <1>3, <1>4, <2>1, PushOne
<1> QED BY <1>2, <1>5, <1>6

LEMMA CallTypes == Types /\ Call => Types'
<1> SUFFICES ASSUME Types, Call PROVE Types'
  OBVIOUS
<1>1. /\ calls < MaxCalls /\ calls' = calls + 1
      /\ UNCHANGED <<newVars, conns, connVars, timerVars, clients, afters, held,
                     pollerVars, loopVars>>
  BY CallCases
<1>0. PICK c \in held :
        /\ c \in Id /\ loop[c] \in Loop
        /\ \/ Pushed(loop[c], <<Shut(c)>>) /\ late' = late
           \/ Pushed(loop[c], <<Rel(c)>>) /\ late' = (late \/ Ending(c))
  BY CallCases
<1>2. PICK t \in {Shut(c), Rel(c)} :
        /\ c \in Id /\ loop[c] \in Loop /\ Pushed(loop[c], <<t>>)
        /\ late' \in BOOLEAN
  BY <1>0 DEF Types, TypeOK, Ending
<1>3. t \in Task /\ t # After /\ <<t>> \in Seq(Task) /\ Range(<<t>>) = {t}
  <2>1. t \in Task /\ t # After
    BY <1>2, TaskNames
  <2> QED BY <2>1 DEF Range
<1>4. tasks \in [Loop -> Seq(Task)] /\ tasks[Base] \in Seq(Task)
  BY Numbers DEF Types, TypeOK
<1>5. /\ tasks' \in [Loop -> Seq(Task)]
      /\ tasks'[loop[c]] = tasks[loop[c]] \o <<t>>
      /\ \A u : u \in Range(tasks'[loop[c]]) <=> u \in Range(tasks[loop[c]]) \/ u \in Range(<<t>>)
      /\ \A m \in Loop \ {loop[c]} : tasks'[m] = tasks[m]
  BY <1>2, <1>3, <1>4, PushFacts
<1>6. AftersIn(tasks'[Base], 0) = AftersIn(tasks[Base], 0)
  <2>1. AftersIn(tasks[Base] \o <<t>>, 0) = AftersIn(tasks[Base], 0)
    BY <1>3, <1>4, CountAppended
  <2> QED BY <1>5, <2>1, Numbers
<1>7. \A m \in Loop \ {Base} : After \notin Range(tasks'[m])
  BY <1>3, <1>5 DEF Types
<1>8. calls' \in 0..MaxCalls
  BY <1>1, Numbers DEF Types, TypeOK
<1>9. TypeOK'
  BY <1>1, <1>2, <1>5, <1>8
     DEF Types, TypeOK, newVars, connVars, timerVars, pollerVars, loopVars
<1>10. Counted'
  BY <1>1, <1>6 DEF Types, Counted, timerVars, loopVars
<1>11. HasFd'
  <2>1. fd[c] \in Fd
    BY <1>2 DEF Types, HasFd
  <2>2. ASSUME NEW d \in Id, NEW m \in Loop, Shut(d) \in Range(tasks'[m]), d # c
        PROVE  Shut(d) \in Range(tasks[m])
    <3>1. Shut(d) # t
      BY <1>2, <2>2, TaskNames
    <3> QED BY <1>3, <1>5, <2>2, <3>1
  <2> QED BY <1>1, <2>1, <2>2 DEF Types, HasFd, connVars, loopVars
<1> QED BY <1>1, <1>7, <1>9, <1>10, <1>11
        DEF Types, newVars, connVars, timerVars, pollerVars, loopVars

\* Another thread drops its pointer.
LEMMA DropTypes == \A c \in Id : Types /\ Drop(c) => Types'
<1> SUFFICES ASSUME NEW c \in Id, Types, Drop(c) PROVE Types'
  OBVIOUS
<1>1. /\ held' = held \ {c}
      /\ UNCHANGED <<newVars, conns, connVars, timerVars, clients, afters, calls, pollerVars,
                     loopVars, tasks, late>>
  BY DEF Drop
<1>2. TypeOK'
  BY <1>1 DEF newVars, connVars, timerVars, pollerVars, loopVars, Types, TypeOK
<1>3. Counted'
  BY <1>1 DEF timerVars, loopVars, Types, Counted
<1>4. HasFd'
  BY <1>1, HasFdKept DEF connVars, loopVars
<1> QED BY <1>1, <1>2, <1>3, <1>4
        DEF newVars, connVars, timerVars, pollerVars, loopVars, Types

LEMMA StartTypes == \A l \in Loop : Types /\ Start(l) => Types'
BY PollTypes, StutterTypes, OntimeTypes, SwapTasksTypes, RunTaskTypes, EndOfBatchTypes,
   HandleEventTypes, HandleReadTypes, EstablishedTypes, InsertTypes
   DEF Start, NewConnection, IdleTick

\* Every step keeps the types.
LEMMA NextTypes == Types /\ [Next]_vars => Types'
BY StartTypes, RunAfterTypes, CallTypes, DropTypes, StutterTypes DEF Next

\* TypeOK holds throughout: NewConnection and RunAfter never run out of ids,
\* the batch is empty unless its loop runs it, channels wait only in a
\* dispatch loop, and NewConnection runs only there.
THEOREM TypeInvariant == Spec => []TypeOK
<1>1. Spec => []Types
  BY InitTypes, NextTypes, PTL DEF Spec
<1>2. Types => TypeOK
  BY DEF Types
<1> QED BY <1>1, <1>2, PTL

-----------------------------------------------------------------------------
(***************************************************************************)
(* The safety invariants. Ids stay below 2^(IntBits - 1), or at least no   *)
(* id that was cut off to an int is another's.                             *)
(***************************************************************************)
NoWrap == \A c \in Id : AsInt(c) = c \/ AsInt(c) \notin Id

LEMMA NoWrapIsConstant == NoWrap' <=> NoWrap
BY DEF NoWrap, AsInt, Id

Live(c) == stat[c] \in {"CONNECTING", "CONNECTED"}

\* Ids are given out in order, to connections or to functions, and a
\* descriptor has one owner.
IdsOK ==
    /\ \A c \in Id : c \in open <=> Live(c)
    /\ \A k \in Id : k > next_id => stat[k] = "none"
    /\ creating # NoConn =>
          /\ stat[creating] # "none"
          /\ \A k \in Id : k > creating => stat[k] = "none"
          /\ step = "establish" => stat[creating] = "CONNECTING"
    /\ \A id \in functors : stat[id] = "none" /\ id <= next_id
    /\ \A c \in open : fd[c] \in Fd
    /\ \A c, d \in open : fd[c] = fd[d] => c = d

\* What other threads and the Pollers have was established on its loop.
EST == {"CONNECTED", "DISCONNECTED"}

EstablishedOK ==
    /\ \A c \in held : stat[c] \in EST
    /\ \A l \in Loop, f \in Fd : f \in DOMAIN channels[l] =>
          stat[channels[l][f]] \in EST /\ loop[channels[l][f]] = l

\* _conns has what is served, under the key that Remove erases or under one
\* that no connection has.
TableOK ==
    /\ \A k \in DOMAIN conns : k <= next_id /\ (creating # NoConn => k < creating)
    /\ NoWrap =>
          /\ \A c \in Id : Live(c) => creating = c \/ c \in Range(conns)
          /\ \A k \in DOMAIN conns : conns[k] # k => stat[k] = "none"

\* The wheels have the functions that wait, and timers of live connections.
TimersOK ==
    /\ FunctorsKept
    /\ \A l \in Loop, id \in Id :
          <<l, id>> \in armed => \/ l = Base /\ id \in functors
                                 \/ Live(id) /\ loop[id] = l

\* The task is still to be run.
Pending(l, t) == t \in Range(Rest(l)) \/ t \in Range(tasks[l])

\* The task is referred to.
Queued(l, t) == t \in Range(batch[l]) \/ t \in Range(tasks[l])

\* What a task says about its connection. A Release that waits for the next
\* batch is the only one left, and finds the connection established, unless
\* somebody acted on an Ending one.
QueuesOK ==
    \A l \in Loop, c \in Id :
        /\ Pending(l, Reg(c)) \/ Pending(l, Est(c)) =>
              /\ stat[c] = "CONNECTING" /\ loop[c] = l /\ l # Base
              /\ ~(creating = c /\ step = "establish")
        /\ Queued(l, Rel(c)) => loop[c] = l /\ stat[c] \in EST
        /\ ~late /\ Rel(c) \in Range(tasks[l]) =>
              stat[c] = "CONNECTED" /\ Rel(c) \notin Range(Rest(l))
        /\ Queued(l, Rem(c)) => stat[c] = "DISCONNECTED"
        /\ Pending(l, Shut(c)) => c \in held /\ loop[c] = l

\* No setup of a connection comes behind its Established.
SetUpOnce(q) ==
    \A i, j \in 1..Len(q), c \in Id : i < j /\ q[i] = Est(c) => q[j] \notin {Reg(c), Est(c)}

SetUpOK ==
    \A l \in Loop :
        /\ SetUpOnce(Rest(l)) /\ SetUpOnce(tasks[l])
        /\ \A c \in Id : Est(c) \in Range(Rest(l)) =>
              Reg(c) \notin Range(tasks[l]) /\ Est(c) \notin Range(tasks[l])

\* Events are those of connections that are established, on their loop.
ActivesOK ==
    \A l \in Loop, c \in Id : c \in actives[l] =>
        loop[c] = l /\ stat[c] \in EST /\ (~late => stat[c] = "CONNECTED")

\* While a Release waits to be run again, nothing on that loop that is or is
\* about to be established has the descriptor.
ReuseOK ==
    \A l \in Loop, c, d \in Id :
        /\ ~late
        /\ stat[c] = "DISCONNECTED" /\ Rel(c) \in Range(Rest(l))
        /\ stat[d] = "CONNECTED" \/ Est(d) \in Range(Rest(l))
        /\ loop[d] = l
        => fd[c] # fd[d]

Safe ==
    /\ IdsOK /\ EstablishedOK /\ TableOK /\ TimersOK /\ QueuesOK /\ SetUpOK
    /\ ActivesOK /\ WatchesOwnFds /\ ReuseOK

\* Running the first task leaves its connection no setup behind Established.
LEMMA SetUpRun ==
    ASSUME NEW q \in Seq(Task), q # <<>>, SetUpOnce(q)
    PROVE  /\ SetUpOnce(Tail(q))
           /\ \A c \in Id : Head(q) = Est(c) =>
                 Reg(c) \notin Range(Tail(q)) /\ Est(c) \notin Range(Tail(q))
<1>1. /\ Len(q) \in Nat /\ Len(q) # 0 /\ Head(q) = q[1]
      /\ Tail(q) \in Seq(Task) /\ Len(Tail(q)) = Len(q) - 1
      /\ \A i \in 1..Len(q) - 1 : Tail(q)[i] = q[i + 1]
  BY HeadTailProperties, LenProperties, EmptySeq
<1>2. DOMAIN Tail(q) = 1..Len(q) - 1
  BY <1>1, LenProperties
<1>3. \A i \in 1..Len(q) - 1 : i + 1 \in 1..Len(q) /\ 1 < i + 1
  BY <1>1
<1>4. SetUpOnce(Tail(q))
  BY <1>1, <1>3 DEF SetUpOnce
<1>5. ASSUME NEW c \in Id, Head(q) = Est(c), NEW t \in {Reg(c), Est(c)}, t \in Range(Tail(q))
      PROVE  FALSE
  <2>1. PICK i \in 1..Len(q) - 1 : Tail(q)[i] = t
    BY <1>2, <1>5 DEF Range
  <2>2. q[i + 1] = t /\ i + 1 \in 1..Len(q) /\ 1 < i + 1 /\ 1 \in 1..Len(q)
    BY <1>1, <1>3, <2>1
  <2> QED BY <1>1, <1>5, <2>2 DEF SetUpOnce
<1> QED BY <1>4, <1>5

\* Appending tasks of which none is behind an Established.
LEMMA SetUpPush ==
    ASSUME NEW q \in Seq(Task), NEW p \in Seq(Task), SetUpOnce(q), SetUpOnce(p),
           \A c \in Id : Est(c) \in Range(q) => Reg(c) \notin Range(p) /\ Est(c) \notin Range(p)
    PROVE  SetUpOnce(q \o p)
<1>1. /\ Len(q) \in Nat /\ Len(p) \in Nat /\ Len(q \o p) = Len(q) + Len(p)
      /\ \A i \in 1..Len(q) + Len(p) :
            (q \o p)[i] = IF i <= Len(q) THEN q[i] ELSE p[i - Len(q)]
  BY LenProperties, ConcatProperties
<1>2. \A i \in 1..Len(q) : q[i] \in Range(q)
  BY LenProperties DEF Range
<1>3. \A i \in 1..Len(p) : p[i] \in Range(p)
  BY LenProperties DEF Range
<1>4. ASSUME NEW i \in 1..Len(q \o p), NEW j \in 1..Len(q \o p), NEW c \in Id, i < j,
             (q \o p)[i] = Est(c), (q \o p)[j] \in {Reg(c), Est(c)}
      PROVE  FALSE
  <2>1. CASE j <= Len(q)
    <3>1. i \in 1..Len(q) /\ j \in 1..Len(q)
      BY <1>1, <1>4, <2>1
    <3>2. q[i] = Est(c) /\ q[j] \in {Reg(c), Est(c)}
      BY <1>1, <1>4, <3>1
    <3> QED BY <1>4, <3>1, <3>2 DEF SetUpOnce
  <2>2. CASE i <= Len(q) /\ ~(j <= Len(q))
    <3>1. i \in 1..Len(q) /\ j - Len(q) \in 1..Len(p)
      BY <1>1, <1>4, <2>2
    <3>2. q[i] = Est(c) /\ p[j - Len(q)] \in {Reg(c), Est(c)}
      BY <1>1, <1>4, <2>2
    <3> QED BY <1>2, <1>3, <3>1, <3>2
  <2>3. CASE ~(i <= Len(q))
    <3>1. i - Len(q) \in 1..Len(p) /\ j - Len(q) \in 1..Len(p) /\ i - Len(q) < j - Len(q)
      BY <1>1, <1>4, <2>3
    <3>2. p[i - Len(q)] = Est(c) /\ p[j - Len(q)] \in {Reg(c), Est(c)}
      BY <1>1, <1>4, <2>3
    <3> QED BY <3>1, <3>2 DEF SetUpOnce
  <2> QED BY <1>1, <2>1, <2>2, <2>3
<1> QED BY <1>4 DEF SetUpOnce

\* Other tasks are never behind one, nor is the setup itself.
LEMMA SetUpAlone ==
    /\ SetUpOnce(<<>>)
    /\ \A q \in Seq(Task) :
          (\A c \in Id : Est(c) \notin Range(q)) => SetUpOnce(q)
    /\ \A c \in Id : \A q \in {<<>>, <<Reg(c)>>} : SetUpOnce(q \o <<Est(c)>>)
<1>1. SetUpOnce(<<>>)
  BY DEF SetUpOnce
<1>2. ASSUME NEW q \in Seq(Task), \A c \in Id : Est(c) \notin Range(q)
      PROVE  SetUpOnce(q)
  <2>1. \A i \in 1..Len(q) : q[i] \in Range(q)
    BY LenProperties DEF Range
  <2> QED BY <1>2, <2>1 DEF SetUpOnce
<1>3. ASSUME NEW c \in Id PROVE SetUpOnce(<<Est(c)>>) /\ SetUpOnce(<<Reg(c)>>)
  BY DEF SetUpOnce
<1>4. ASSUME NEW c \in Id, NEW q \in {<<>>, <<Reg(c)>>} PROVE SetUpOnce(q \o <<Est(c)>>)
  <2>1. q \in Seq(Task) /\ <<Est(c)>> \in Seq(Task)
    BY SetUpTasks
  <2>2. \A d \in Id : Est(d) \notin Range(q)
    BY TaskNames DEF Range
  <2>3. SetUpOnce(q)
    BY <1>1, <1>3
  <2> QED BY <1>3, <2>1, <2>2, <2>3, SetUpPush
<1> QED BY <1>1, <1>2, <1>4

-----------------------------------------------------------------------------
(***************************************************************************)
(* The queues and the rest of the batches, action by action.               *)
(***************************************************************************)
\* What Types says of a loop's queues.
LEMMA QueueTypes ==
    ASSUME Types, NEW l \in Loop
    PROVE  /\ tasks[l] \in Seq(Task) /\ batch[l] \in Seq(Task) /\ Rest(l) \in Seq(Task)
           /\ Range(Rest(l)) \subseteq Range(batch[l])
           /\ pc[l] # "run" => batch[l] = <<>> /\ done[l] = 0 /\ Rest(l) = <<>>
<1>1. /\ batch \in [Loop -> Seq(Task)] /\ done \in [Loop -> Nat] /\ tasks \in [Loop -> Seq(Task)]
      /\ done[l] <= Len(batch[l]) /\ (pc[l] # "run" => batch[l] = <<>>)
  BY DEF Types, TypeOK
<1>2. pc[l] # "run" => done[l] = 0
  <2>1. done[l] \in Nat /\ (batch[l] = <<>> => done[l] <= Len(<<>>)) /\ Len(<<>>) = 0
    BY <1>1
  <2> QED BY <1>1, <2>1
<1> QED BY <1>1, <1>2, RestFacts

\* A push, by a loop that runs no task just then or one that does.
LEMMA PushQueues ==
    ASSUME Types, NEW l \in Loop, NEW q \in Seq(Task), Pushed(l, q)
    PROVE  \A m \in Loop : \A t : t \in Range(tasks'[m]) <=>
                t \in Range(tasks[m]) \/ (m = l /\ t \in Range(q))
<1>1. tasks \in [Loop -> Seq(Task)]
  BY DEF Types, TypeOK
<1> QED BY <1>1, PushFacts

\* It may be the push of nothing.
LEMMA PushNothing ==
    ASSUME Types, tasks' = tasks
    PROVE  Pushed(Base, <<>>) /\ <<>> \in Seq(Task)
<1>1. tasks \in [Loop -> Seq(Task)] /\ tasks[Base] \in Seq(Task)
  BY Numbers DEF Types, TypeOK
<1>2. tasks[Base] \o <<>> = tasks[Base]
  BY <1>1, ConcatEmptySeq
<1> QED BY <1>1, <1>2 DEF Pushed

\* Behind a push of q, each connection is set up once if q sets up none that
\* waits for its Established.
LEMMA PushSetUp ==
    ASSUME Types, SetUpOK, NEW l \in Loop, NEW q \in Seq(Task), Pushed(l, q), SetUpOnce(q),
           \A c \in Id : ({Reg(c), Est(c)} \cap Range(q)) # {} => ~Pending(l, Est(c)),
           \A m \in Loop : SetUpOnce(Rest(m)') /\ Range(Rest(m)') \subseteq Range(Rest(m))
    PROVE  SetUpOK'
<1>1. tasks \in [Loop -> Seq(Task)]
  BY DEF Types, TypeOK
<1>2. /\ tasks'[l] = tasks[l] \o q
      /\ \A m \in Loop \ {l} : tasks'[m] = tasks[m]
  BY <1>1, PushFacts
<1>3. \A m \in Loop : \A t : t \in Range(tasks'[m]) <=>
          t \in Range(tasks[m]) \/ (m = l /\ t \in Range(q))
  BY PushQueues
<1>4. ASSUME NEW c \in Id, Est(c) \in Range(tasks[l]) \/ Est(c) \in Range(Rest(l))
      PROVE  Reg(c) \notin Range(q) /\ Est(c) \notin Range(q)
  BY <1>4 DEF Pending
<1>5. SetUpOnce(tasks[l] \o q)
  BY <1>1, <1>4, SetUpPush DEF SetUpOK
<1>6. \A m \in Loop : SetUpOnce(tasks'[m])
  BY <1>2, <1>5 DEF SetUpOK
<1>7. ASSUME NEW m \in Loop, NEW c \in Id, Est(c) \in Range(Rest(m)')
      PROVE  Reg(c) \notin Range(tasks'[m]) /\ Est(c) \notin Range(tasks'[m])
  <2>1. Est(c) \in Range(Rest(m))
    BY <1>7
  <2>2. Reg(c) \notin Range(tasks[m]) /\ Est(c) \notin Range(tasks[m])
    BY <2>1 DEF SetUpOK
  <2> QED BY <1>3, <1>4, <2>1, <2>2
<1> QED BY <1>6, <1>7 DEF SetUpOK

\* A push by a handler, or of another thread.
LEMMA HandlerSetUp ==
    ASSUME Types, SetUpOK, NEW l \in Loop, NEW q \in Seq(Task), Pushed(l, q), SetUpOnce(q),
           \A c \in Id : ({Reg(c), Est(c)} \cap Range(q)) # {} => ~Pending(l, Est(c)),
           UNCHANGED <<batch, done>>
    PROVE  SetUpOK' /\ \A m \in Loop : Rest(m)' = Rest(m)
<1>1. \A m \in Loop : Rest(m)' = Rest(m)
  BY DEF Rest
<1>2. \A m \in Loop : SetUpOnce(Rest(m))
  BY DEF SetUpOK
<1>3. \A m \in Loop : SetUpOnce(Rest(m)') /\ Range(Rest(m)') \subseteq Range(Rest(m))
  BY <1>1, <1>2
<1> QED BY Zenon, <1>1, <1>3, PushSetUp

\* A task leaves the batch of l.
LEMMA RunQueues ==
    ASSUME Types, NEW l \in Loop, RunTask(l)
    PROVE  /\ Rest(l) # <<>> /\ Head(Rest(l)) = batch[l][done[l] + 1]
           /\ Rest(l)' = Tail(Rest(l))
           /\ \A t : t \in Range(Rest(l)) <=> t = batch[l][done[l] + 1] \/ t \in Range(Rest(l)')
           /\ \A m \in Loop \ {l} : Rest(m)' = Rest(m)
           /\ \A m \in Loop : Range(Rest(m)') \subseteq Range(Rest(m))
<1>1. /\ done[l] < Len(batch[l]) /\ done' = [done EXCEPT ![l] = @ + 1] /\ batch' = batch
  BY RunTaskCases
<1>2. /\ batch \in [Loop -> Seq(Task)] /\ done \in [Loop -> Nat] /\ done[l] <= Len(batch[l])
  BY DEF Types, TypeOK
<1>3. /\ Rest(l) \in Seq(Task) /\ Rest(l) # <<>>
      /\ Head(Rest(l)) = batch[l][done[l] + 1]
      /\ Tail(Rest(l)) = SubSeq(batch[l], done[l] + 2, Len(batch[l]))
  BY <1>1, <1>2, RestFacts
<1>4. \A m \in Loop \ {l} : Rest(m)' = Rest(m)
  BY <1>1, <1>2 DEF Rest
<1>5. Rest(l)' = Tail(Rest(l))
  <2>1. done'[l] = done[l] + 1
    BY <1>1, <1>2
  <2>2. (done[l] + 1) + 1 = done[l] + 2
    BY <1>2
  <2>3. Rest(l)' = SubSeq(batch'[l], done'[l] + 1, Len(batch'[l]))
    BY DEF Rest
  <2> QED BY <1>1, <1>3, <2>1, <2>2, <2>3
<1>6. \A t : t \in Range(Rest(l)) <=> t = Head(Rest(l)) \/ t \in Range(Tail(Rest(l)))
  BY <1>3, PopTask
<1> QED BY <1>3, <1>4, <1>5, <1>6

\* Running a task that sets nothing up on another queue.
LEMMA RunSetUp ==
    ASSUME Types, SetUpOK, NEW l \in Loop, RunTask(l),
           NEW m \in Loop, NEW q \in Seq(Task), Pushed(m, q),
           \A c \in Id : Reg(c) \notin Range(q) /\ Est(c) \notin Range(q)
    PROVE  SetUpOK'
<1>1. /\ Rest(l) # <<>> /\ Rest(l)' = Tail(Rest(l))
      /\ \A k \in Loop \ {l} : Rest(k)' = Rest(k)
      /\ \A k \in Loop : Range(Rest(k)') \subseteq Range(Rest(k))
  BY RunQueues
<1>2. SetUpOnce(q)
  BY SetUpAlone
<1>3. \A k \in Loop : SetUpOnce(Rest(k)')
  <2>1. Rest(l) \in Seq(Task)
    BY QueueTypes
  <2>2. SetUpOnce(Tail(Rest(l)))
    BY <1>1, <2>1, SetUpRun DEF SetUpOK
  <2> QED BY <1>1, <2>2 DEF SetUpOK
<1>4. \A c \in Id : ({Reg(c), Est(c)} \cap Range(q)) # {} => ~Pending(m, Est(c))
  OBVIOUS
<1>5. \A k \in Loop : SetUpOnce(Rest(k)') /\ Range(Rest(k)') \subseteq Range(Rest(k))
  BY <1>1, <1>3
<1> QED BY Zenon, <1>2, <1>4, <1>5, PushSetUp
-----------------------------------------------------------------------------
(***************************************************************************)
(* The functions the loops run.                                            *)
(***************************************************************************)
\* In a queue, the tasks of a connection that nobody has to establish.
LEMMA Settled ==
    ASSUME Types, QueuesOK, NEW l \in Loop, NEW c \in Id
    PROVE  /\ stat[c] # "CONNECTING" => ~Pending(l, Reg(c)) /\ ~Pending(l, Est(c))
           /\ stat[c] \notin EST => ~Queued(l, Rel(c))
           /\ stat[c] # "DISCONNECTED" => ~Queued(l, Rem(c))
BY DEF QueuesOK

\* What is still to be run is referred to.
LEMMA PendingQueued ==
    ASSUME Types, NEW l \in Loop, NEW t, Pending(l, t)
    PROVE  Queued(l, t)
BY QueueTypes DEF Pending, Queued

\* The next id goes to a function.
LEMMA RunAfterInLoopSafe ==
    ASSUME Types, Types', IdsOK, TableOK, TimersOK, RunAfterInLoop,
           UNCHANGED <<creating, step, conns, fd, loop, stat, open>>
    PROVE  IdsOK' /\ TableOK' /\ TimersOK'
<1>1. /\ next_id' = next_id + 1 /\ armed' = armed \cup {<<Base, next_id'>>}
      /\ functors' = functors \cup {next_id'}
  BY DEF RunAfterInLoop
<1>2. /\ next_id \in Nat /\ next_id' \in Nat /\ functors \subseteq Id /\ functors' \subseteq Id
      /\ conns \in PartialFcns(Id, Id)
  BY Numbers DEF Types, TypeOK
<1>3. next_id' \in Id /\ next_id' > next_id
  BY <1>1, <1>2
<1>4. stat[next_id'] = "none"
  BY <1>3 DEF IdsOK
<1>5. \A k \in Id : k > next_id' => k > next_id
  BY <1>1, <1>2 DEF Id
<1>6. \A k \in Id : k <= next_id => k <= next_id'
  BY <1>1, <1>2 DEF Id
<1>7. DOMAIN conns \subseteq Id
  BY <1>2, PartialFcn
<1>8. next_id' <= next_id'
  BY <1>2
<1>9. IdsOK'
  <2>1. /\ \A c \in Id : c \in open' <=> Live(c)'
        /\ \A c, d \in open' : fd'[c] = fd'[d] => c = d
    BY DEF IdsOK, Live
  <2>2. \A k \in Id : k > next_id' => stat'[k] = "none"
    BY <1>5 DEF IdsOK
  <2>3. creating' # NoConn =>
          /\ stat'[creating'] # "none"
          /\ \A k \in Id : k > creating' => stat'[k] = "none"
          /\ step' = "establish" => stat'[creating'] = "CONNECTING"
    BY DEF IdsOK
  <2>4. \A id \in functors' : stat'[id] = "none" /\ id <= next_id'
    BY <1>1, <1>2, <1>4, <1>6, <1>8 DEF IdsOK
  <2> QED BY <2>1, <2>2, <2>3, <2>4 DEF IdsOK
<1>10. TableOK'
  BY <1>6, <1>7, NoWrapIsConstant DEF TableOK, Live
<1>11. TimersOK'
  BY <1>1, <1>3 DEF TimersOK, FunctorsKept, Live
<1> QED BY <1>9, <1>10, <1>11

\* UpdateEvent of a connection that is or gets established.
LEMMA UpdateEventKeeps ==
    ASSUME Types, EstablishedOK, NEW c \in Id, fd[c] \in Fd, loop' = loop,
           UpdateEvent(loop[c], c) \/ UNCHANGED pollerVars,
           stat'[c] \in EST, \A d \in Id \ {c} : stat'[d] = stat[d],
           held' \subseteq held \cup {c}
    PROVE  EstablishedOK'
<1>1. /\ loop[c] \in Loop /\ held \subseteq Id
      /\ channels \in [Loop -> PartialFcns(Fd, Id)]
  BY Numbers DEF Types, TypeOK
<1>2. \A d \in Id : stat[d] \in EST => stat'[d] \in EST
  OBVIOUS
<1>3. \A d \in held' : stat'[d] \in EST
  BY <1>1, <1>2 DEF EstablishedOK
<1>4. ASSUME NEW m \in Loop, NEW f \in DOMAIN channels[m]
      PROVE  f \in Fd /\ channels[m][f] \in Id
  BY <1>1, PartialFcn
<1>5. ASSUME NEW m \in Loop, NEW f \in Fd, f \in DOMAIN channels'[m]
      PROVE  (f \in DOMAIN channels[m] /\ channels'[m][f] = channels[m][f])
                \/ (m = loop[c] /\ channels'[m][f] = c)
  <2>1. CASE channels' = channels
    BY <1>5, <2>1
  <2>2. CASE channels' = [channels EXCEPT ![loop[c]] = With(@, fd[c], c)]
    <3>1. PICK w : w = With(channels[loop[c]], fd[c], c)
      OBVIOUS
    <3>2. \A x \in DOMAIN w : \/ x \in DOMAIN channels[loop[c]] /\ w[x] = channels[loop[c]][x]
                              \/ w[x] = c
      BY <3>1 DEF With
    <3>3. channels'[m] = IF m = loop[c] THEN w ELSE channels[m]
      BY <1>1, <2>2, <3>1
    <3> QED BY <1>5, <3>2, <3>3
  <2> QED BY <2>1, <2>2 DEF UpdateEvent, pollerVars
<1>6. ASSUME NEW m \in Loop, NEW f \in Fd, f \in DOMAIN channels'[m]
      PROVE  stat'[channels'[m][f]] \in EST /\ loop'[channels'[m][f]] = m
  <2>1. CASE f \in DOMAIN channels[m] /\ channels'[m][f] = channels[m][f]
    BY <1>2, <1>4, <2>1 DEF EstablishedOK
  <2>2. CASE m = loop[c] /\ channels'[m][f] = c
    BY <2>2
  <2> QED BY <1>5, <1>6, <2>1, <2>2
<1> QED BY <1>3, <1>6 DEF EstablishedOK

\* A connection is established: its descriptor was not watched, as it is open
\* and no other open connection has it.
LEMMA EstablishSafe ==
    ASSUME Types, Types', Safe, NEW c \in Id, EstablishInLoop(c),
           UNCHANGED <<creating, conns, fd, loop, open, next_id, functors, actives>>,
           step' \in {step, "insert"}, creating = c => step' = "insert",
           armed' \in {armed, armed \cup {<<loop[c], c>>}}, late' = late
    PROVE  /\ IdsOK' /\ EstablishedOK' /\ TableOK' /\ TimersOK'
           /\ ActivesOK' /\ WatchesOwnFds'
<1> DEFINE l == loop[c]
<1>1. /\ l \in Loop /\ stat[c] = "CONNECTING"
      /\ stat' = [stat EXCEPT ![c] = "CONNECTED"] /\ UpdateEvent(l, c)
      /\ held' \in {held, held \cup {c}}
  BY EstablishFacts
<1>2. /\ stat \in [Id -> {"none", "CONNECTING", "CONNECTED", "DISCONNECTED"}]
      /\ channels \in [Loop -> PartialFcns(Fd, Id)] /\ epoll \in [Loop -> SUBSET Fd]
      /\ creating \in Id \cup {NoConn} /\ conns \in PartialFcns(Id, Id)
      /\ functors \subseteq Id /\ open \subseteq Id /\ fd[c] \in Fd
  BY <1>1 DEF Types, TypeOK, HasFd
<1>3. /\ stat'[c] = "CONNECTED"
      /\ \A d \in Id \ {c} : stat'[d] = stat[d]
  BY <1>1, <1>2
<1>4. \A d \in Id : Live(d)' <=> Live(d)
  BY <1>1, <1>3 DEF Live
<1>5. \A d \in Id : stat[d] = "none" <=> stat'[d] = "none"
  BY <1>1, <1>3
<1>6. c \in open
  BY <1>1 DEF Safe, IdsOK, Live
<1>7. IdsOK'
  <2>1. /\ \A d \in Id : d \in open' <=> Live(d)'
        /\ \A d \in open' : fd'[d] \in Fd
        /\ \A d, e \in open' : fd'[d] = fd'[e] => d = e
    BY <1>4 DEF Safe, IdsOK
  <2>2. /\ \A k \in Id : k > next_id' => stat'[k] = "none"
        /\ \A id \in functors' : stat'[id] = "none" /\ id <= next_id'
    BY <1>2, <1>5 DEF Safe, IdsOK
  <2>3. ASSUME creating' # NoConn
        PROVE  /\ stat'[creating'] # "none"
               /\ \A k \in Id : k > creating' => stat'[k] = "none"
               /\ step' = "establish" => stat'[creating'] = "CONNECTING"
    BY <1>2, <1>3, <1>5, <2>3 DEF Safe, IdsOK
  <2> QED BY <2>1, <2>2, <2>3 DEF IdsOK
<1>8. TableOK'
  <2>1. DOMAIN conns \subseteq Id
    BY <1>2, PartialFcn
  <2> QED BY <1>4, <1>5, <2>1, NoWrapIsConstant DEF Safe, TableOK
<1>9. TimersOK'
  <2>1. FunctorsKept'
    BY DEF Safe, TimersOK, FunctorsKept
  <2>2. ASSUME NEW m \in Loop, NEW id \in Id, <<m, id>> \in armed'
        PROVE  (m = Base /\ id \in functors') \/ (Live(id)' /\ loop'[id] = m)
    <3>1. CASE <<m, id>> \in armed
      BY <1>4, <3>1 DEF Safe, TimersOK
    <3>2. CASE m = loop[c] /\ id = c
      BY <1>3, <3>2 DEF Live
    <3> QED BY <2>2, <3>1, <3>2
  <2> QED BY <2>1, <2>2 DEF TimersOK
<1>10. ActivesOK'
  BY <1>1, <1>3 DEF Safe, ActivesOK, EST
<1>11. EstablishedOK'
  <2>1. EstablishedOK /\ stat'[c] \in EST
    BY <1>3 DEF Safe, EST
  <2>2. held' \subseteq held \cup {c} /\ loop' = loop
    BY <1>1
  <2> QED BY <1>1, <1>2, <1>3, <2>1, <2>2, UpdateEventKeeps
<1>12. SUFFICES ASSUME ~late PROVE WatchesOwnFds'
  BY <1>7, <1>8, <1>9, <1>10, <1>11 DEF WatchesOwnFds
<1>13. \A m \in Loop :
          /\ epoll[m] = DOMAIN channels[m]
          /\ \A f \in Fd, d \in Id :
                f \in epoll[m] /\ channels[m][f] = d
                  <=> stat[d] = "CONNECTED" /\ d \in open /\ fd[d] = f /\ loop[d] = m
  BY <1>12 DEF Safe, WatchesOwnFds
<1>14. fd[c] \notin DOMAIN channels[l]
  <2>1. SUFFICES ASSUME fd[c] \in DOMAIN channels[l] PROVE FALSE
    OBVIOUS
  <2>2. channels[l] \in [DOMAIN channels[l] -> Id] /\ epoll[l] = DOMAIN channels[l]
    BY <1>1, <1>2, <1>13, PartialFcn
  <2>3. PICK d \in Id : channels[l][fd[c]] = d
    BY <2>1, <2>2
  <2>4. stat[d] = "CONNECTED" /\ d \in open /\ fd[d] = fd[c]
    BY <1>1, <1>2, <1>13, <2>1, <2>2, <2>3
  <2> QED BY <1>1, <1>6, <2>4 DEF Safe, IdsOK
<1>15. /\ channels' = [channels EXCEPT ![l] = With(channels[l], fd[c], c)]
       /\ epoll' = [epoll EXCEPT ![l] = @ \cup {fd[c]}]
  <2>1. {fd[c]} \cap {fd[d] : d \in open} = {fd[c]}
    BY <1>6
  <2> QED BY <1>1, <1>14, <2>1 DEF UpdateEvent
<1>16. /\ channels'[l] = With(channels[l], fd[c], c) /\ epoll'[l] = epoll[l] \cup {fd[c]}
       /\ \A m \in Loop \ {l} : channels'[m] = channels[m] /\ epoll'[m] = epoll[m]
  BY <1>1, <1>2, <1>15
<1>17. /\ DOMAIN channels'[l] = DOMAIN channels[l] \cup {fd[c]}
       /\ channels'[l][fd[c]] = c
       /\ \A f \in DOMAIN channels[l] : channels'[l][f] = channels[l][f]
  <2>1. PICK w : w = With(channels[l], fd[c], c)
    OBVIOUS
  <2>2. /\ DOMAIN w = DOMAIN channels[l] \cup {fd[c]} /\ w[fd[c]] = c
        /\ \A f \in DOMAIN channels[l] : w[f] = channels[l][f]
    BY <1>14, <2>1 DEF With
  <2> QED BY <1>16, <2>1, <2>2
<1>18. \A m \in Loop : epoll'[m] = DOMAIN channels'[m]
  BY <1>13, <1>16, <1>17
<1>19. ASSUME NEW m \in Loop, NEW f \in Fd, NEW d \in Id
       PROVE  f \in epoll'[m] /\ channels'[m][f] = d
                  <=> stat'[d] = "CONNECTED" /\ d \in open' /\ fd'[d] = f /\ loop'[d] = m
  <2>1. f \in epoll[m] /\ channels[m][f] = d
                  <=> stat[d] = "CONNECTED" /\ d \in open /\ fd[d] = f /\ loop[d] = m
    BY <1>13
  <2>2. CASE m # l
    <3>1. f \in epoll'[m] /\ channels'[m][f] = d <=> f \in epoll[m] /\ channels[m][f] = d
      BY <1>16, <2>2
    <3> QED BY <1>1, <1>3, <2>1, <2>2, <3>1
  <2>3. CASE m = l /\ f # fd[c]
    <3>1. f \in epoll'[m] /\ channels'[m][f] = d <=> f \in epoll[m] /\ channels[m][f] = d
      BY <1>13, <1>16, <1>17, <2>3
    <3> QED BY <1>1, <1>3, <2>1, <2>3, <3>1
  <2>4. CASE m = l /\ f = fd[c]
    <3>1. f \in epoll'[m] /\ channels'[m][f] = c
      BY <1>1, <1>16, <1>17, <2>4
    <3>2. d \in open /\ fd[d] = f => d = c
      BY <1>6, <2>4 DEF Safe, IdsOK
    <3> QED BY <1>1, <1>3, <1>6, <2>4, <3>1, <3>2
  <2> QED BY <2>2, <2>3, <2>4
<1> QED BY <1>18, <1>19 DEF WatchesOwnFds

\* The base loop erases a connection that has been released: its own entry,
\* if it has one, or none.
LEMMA EraseSafe ==
    ASSUME Types, Types', IdsOK, TableOK, NEW c \in Id,
           stat'[c] = "DISCONNECTED", creating' = creating, next_id' = next_id,
           \A d \in Id : Live(d)' => Live(d) /\ d # c,
           \A d \in Id : stat[d] = "none" <=> stat'[d] = "none",
           conns' \in {conns, Without(conns, AsInt(c))}
    PROVE  TableOK'
<1>1. conns \in [DOMAIN conns -> Id] /\ DOMAIN conns \subseteq Id
  BY PartialFcn DEF Types, TypeOK
<1>2. /\ DOMAIN conns' \subseteq DOMAIN conns
      /\ \A k \in DOMAIN conns' : conns'[k] = conns[k]
      /\ NoWrap => \A k \in DOMAIN conns : k # c => k \in DOMAIN conns'
  <2>1. CASE conns' = conns
    BY <2>1
  <2>2. CASE conns' = Without(conns, AsInt(c))
    <3>1. PICK w : w = Without(conns, AsInt(c))
      OBVIOUS
    <3>2. /\ DOMAIN w = DOMAIN conns \ {AsInt(c)}
          /\ \A k \in DOMAIN w : w[k] = conns[k]
      BY <3>1 DEF Without
    <3>3. NoWrap => AsInt(c) = c \/ AsInt(c) \notin DOMAIN conns
      BY <1>1 DEF NoWrap
    <3> QED BY <2>2, <3>1, <3>2, <3>3
  <2> QED BY <2>1, <2>2
<1>3. ASSUME NoWrap, NEW d \in Id, Live(d)', creating # d
      PROVE  d \in Range(conns')
  <2>1. PICK k \in DOMAIN conns : conns[k] = d
    BY <1>3 DEF TableOK, Range
  <2>2. k # c
    <3>1. SUFFICES ASSUME k = c PROVE FALSE
      OBVIOUS
    <3>2. d # c
      BY <1>3
    <3>3. stat[c] = "none"
      BY <1>3, <2>1, <3>1, <3>2 DEF TableOK
    <3> QED BY <3>3
  <2>3. k \in DOMAIN conns' /\ conns'[k] = d
    BY <1>2, <1>3, <2>1, <2>2
  <2> QED BY <2>3 DEF Range
<1>4. ASSUME NEW k \in DOMAIN conns'
      PROVE  /\ k <= next_id' /\ (creating' # NoConn => k < creating')
             /\ NoWrap => (conns'[k] # k => stat'[k] = "none")
  <2>1. k \in DOMAIN conns /\ k \in Id /\ conns'[k] = conns[k]
    BY <1>1, <1>2
  <2> QED BY <2>1 DEF TableOK
<1> QED BY <1>3, <1>4, NoWrapIsConstant DEF TableOK
-----------------------------------------------------------------------------
(***************************************************************************)
(* Every action keeps them.                                                *)
(***************************************************************************)
LEMMA InitSafe == Init => Safe
<1> SUFFICES ASSUME Init PROVE Safe
  OBVIOUS
<1>1. Types
  BY InitTypes
<1>2. \A c \in Id : stat[c] = "none" /\ ~Live(c)
  BY DEF Init, Live
<1>3. IdsOK /\ TableOK /\ TimersOK
  BY <1>2 DEF Init, IdsOK, TableOK, TimersOK, FunctorsKept
<1>4. \A l \in Loop : Rest(l) = <<>> /\ tasks[l] = <<>> /\ batch[l] = <<>>
  BY <1>1, QueueTypes DEF Init
<1>5. QueuesOK /\ SetUpOK /\ ReuseOK
  <2>1. \A l \in Loop : \A t : ~Pending(l, t) /\ ~Queued(l, t) /\ t \notin Range(tasks[l]) /\ t \notin Range(Rest(l))
    BY <1>4, EmptyRange DEF Pending, Queued
  <2>2. \A l \in Loop : SetUpOnce(Rest(l)) /\ SetUpOnce(tasks[l])
    BY <1>4, SetUpAlone
  <2> QED BY <2>1, <2>2 DEF QueuesOK, SetUpOK, ReuseOK
<1>6. ActivesOK /\ WatchesOwnFds /\ EstablishedOK
  BY <1>2 DEF Init, ActivesOK, WatchesOwnFds, EstablishedOK
<1> QED BY <1>3, <1>5, <1>6 DEF Safe

LEMMA StutterSafe == Safe /\ UNCHANGED vars => Safe'
<1> SUFFICES ASSUME Safe, UNCHANGED vars PROVE Safe'
  OBVIOUS
<1> USE DEF vars, newVars, connVars, timerVars, envVars, pollerVars, loopVars
<1>4. EstablishedOK'
  BY DEF Safe, EstablishedOK
<1>1. IdsOK' /\ TableOK' /\ TimersOK'
  BY NoWrapIsConstant DEF Safe, IdsOK, TableOK, TimersOK, FunctorsKept, Live
<1>2. QueuesOK' /\ SetUpOK' /\ ReuseOK'
  BY DEF Safe, QueuesOK, SetUpOK, ReuseOK, Pending, Queued, Rest
<1>3. ActivesOK' /\ WatchesOwnFds'
  BY DEF Safe, ActivesOK, WatchesOwnFds
<1> QED BY <1>1, <1>2, <1>3, <1>4 DEF Safe

\* A push by a handler or another thread that changes no connection's status,
\* ownership or loop.
LEMMA HandlerQueues ==
    ASSUME Types, QueuesOK, NEW l \in Loop, NEW q \in Seq(Task), Pushed(l, q),
           UNCHANGED <<batch, done, stat, loop, held, creating, step>>, ~late' => ~late,
           \A c \in Id : /\ Reg(c) \notin Range(q) /\ Est(c) \notin Range(q) /\ Rem(c) \notin Range(q)
                         /\ Rel(c) \in Range(q) =>
                               /\ loop[c] = l /\ stat[c] \in EST
                               /\ ~late' => stat[c] = "CONNECTED" /\ Rel(c) \notin Range(Rest(l))
                         /\ Shut(c) \in Range(q) => c \in held /\ loop[c] = l
    PROVE  QueuesOK'
<1>1. \A m \in Loop : \A t : t \in Range(tasks'[m]) <=>
            t \in Range(tasks[m]) \/ (m = l /\ t \in Range(q))
  BY PushQueues
<1>2. \A m \in Loop : Rest(m)' = Rest(m)
  BY DEF Rest
<1>3. \A m \in Loop :
                  \A t : /\ Pending(m, t)' <=> Pending(m, t) \/ (m = l /\ t \in Range(q))
                         /\ Queued(m, t)' <=> Queued(m, t) \/ (m = l /\ t \in Range(q))
  BY <1>1, <1>2 DEF Pending, Queued
<1>4. ASSUME NEW m \in Loop, NEW c \in Id
      PROVE  /\ Pending(m, Reg(c))' \/ Pending(m, Est(c))' =>
                  /\ stat'[c] = "CONNECTING" /\ loop'[c] = m /\ m # Base
                  /\ ~(creating' = c /\ step' = "establish")
             /\ Queued(m, Rel(c))' => loop'[c] = m /\ stat'[c] \in EST
             /\ Queued(m, Rem(c))' => stat'[c] = "DISCONNECTED"
             /\ Pending(m, Shut(c))' => c \in held' /\ loop'[c] = m
  BY <1>3 DEF QueuesOK
<1>5. ASSUME NEW m \in Loop, NEW c \in Id, ~late', Rel(c) \in Range(tasks'[m])
      PROVE  stat'[c] = "CONNECTED" /\ Rel(c) \notin Range(Rest(m)')
  BY <1>1, <1>2, <1>5 DEF QueuesOK
<1> QED BY <1>4, <1>5 DEF QueuesOK

LEMMA RunAfterSafe == Types /\ Types' /\ Safe /\ RunAfter => Safe'
<1> SUFFICES ASSUME Types, Types', Safe, RunAfter PROVE Safe'
  OBVIOUS
<1>1. UNCHANGED <<creating, step, conns, fd, loop, stat, open, batch, done, actives,
                  channels, epoll, held, late>>
  BY DEF RunAfter, newVars, connVars, pollerVars, loopVars
<1>2. ActivesOK' /\ WatchesOwnFds' /\ EstablishedOK'
  BY <1>1 DEF Safe, ActivesOK, WatchesOwnFds, EstablishedOK
<1>3. ReuseOK'
  BY <1>1 DEF Safe, ReuseOK, Rest
<1>4. CASE Push(Base, <<"RunAfter", NoConn>>) /\ UNCHANGED timerVars
  <2>1. tasks \in [Loop -> Seq(Task)]
    BY DEF Types, TypeOK
  <2>2. /\ Pushed(Base, <<After>>) /\ <<After>> \in Seq(Task)
        /\ \A u : u \in Range(<<After>>) <=> u = After
    BY <1>4, <2>1, Numbers, TaskNames, PushOne DEF After
  <2>3. \A c \in Id : /\ Reg(c) \notin Range(<<After>>) /\ Est(c) \notin Range(<<After>>)
                      /\ Rel(c) \notin Range(<<After>>) /\ Rem(c) \notin Range(<<After>>)
                      /\ Shut(c) \notin Range(<<After>>)
    BY <2>2, TaskNames
  <2>4. QueuesOK'
    BY <1>1, <2>2, <2>3, Numbers, HandlerQueues DEF Safe
  <2>5. SetUpOnce(<<After>>)
    BY <2>2, <2>3, SetUpAlone
  <2>6. SetUpOK'
    BY <1>1, <2>2, <2>3, <2>5, Numbers, HandlerSetUp DEF Safe
  <2>7. IdsOK' /\ TableOK' /\ TimersOK'
    BY <1>1, <1>4, NoWrapIsConstant DEF timerVars, Safe, IdsOK, TableOK, TimersOK, FunctorsKept, Live
  <2> QED BY <1>2, <1>3, <2>4, <2>6, <2>7 DEF Safe
<1>5. CASE RunAfterInLoop /\ UNCHANGED tasks
  <2>1. IdsOK' /\ TableOK' /\ TimersOK'
    BY <1>1, <1>5, RunAfterInLoopSafe DEF Safe
  <2>2. QueuesOK' /\ SetUpOK'
    BY <1>1, <1>5 DEF Safe, QueuesOK, SetUpOK, Pending, Queued, Rest
  <2> QED BY <1>2, <1>3, <2>1, <2>2 DEF Safe
<1> QED BY <1>4, <1>5 DEF RunAfter

LEMMA HandleReadSafe == Types /\ Types' /\ Safe /\ HandleRead => Safe'
<1> SUFFICES ASSUME Types, Types', Safe, HandleRead PROVE Safe'
  OBVIOUS
<1>1. /\ pc[Base] = "dispatch" /\ creating = NoConn
      /\ actives' = [actives EXCEPT ![Base] = @ \ {Acceptor}]
      /\ UNCHANGED <<batch, done, pc, cnt, conns, armed, functors, afters, calls, held, channels, epoll,
                     tasks, late>>
      /\ \/ UNCHANGED <<next_id, next_idx, creating, step, fd, loop, stat, open, clients>>
         \/ \E c \in Id, f \in FreeFds, l \in 0..cnt : Accepted(c, f, l)
  BY HandleReadCases
<1>2. \A l \in Loop : actives'[l] \subseteq actives[l]
  BY <1>1 DEF Types, TypeOK
<1>3. CASE UNCHANGED <<next_id, next_idx, creating, step, fd, loop, stat, open, clients>>
  <2>1. IdsOK' /\ TableOK' /\ TimersOK'
    BY <1>1, <1>3, NoWrapIsConstant DEF Safe, IdsOK, TableOK, TimersOK, FunctorsKept, Live
  <2>2. QueuesOK' /\ SetUpOK' /\ ReuseOK'
    BY <1>1, <1>3 DEF Safe, QueuesOK, SetUpOK, ReuseOK, Pending, Queued, Rest
  <2>3. ActivesOK' /\ WatchesOwnFds' /\ EstablishedOK'
    BY <1>1, <1>2, <1>3 DEF Safe, ActivesOK, WatchesOwnFds, EstablishedOK
  <2> QED BY <2>1, <2>2, <2>3 DEF Safe
<1>4. ASSUME NEW c \in Id, NEW f \in FreeFds, NEW l \in 0..cnt, Accepted(c, f, l)
      PROVE  Safe'
  <2>1. /\ c = next_id + 1 /\ stat' = [stat EXCEPT ![c] = "CONNECTING"]
        /\ fd' = [fd EXCEPT ![c] = f] /\ loop' = [loop EXCEPT ![c] = l]
        /\ open' = open \cup {c}
        /\ next_id' = c /\ creating' = c /\ step' = "establish"
    BY <1>4 DEF Accepted
  <2>2. /\ stat \in [Id -> {"none", "CONNECTING", "CONNECTED", "DISCONNECTED"}]
        /\ fd \in [Id -> Fd \cup {0}] /\ DOMAIN loop = Id /\ next_id \in Nat
        /\ functors \subseteq Id /\ open \subseteq Id /\ DOMAIN conns \subseteq Id
    <3>1. DOMAIN conns \subseteq Id
      BY PartialFcn DEF Types, TypeOK
    <3>2. next_id \in Nat /\ functors \subseteq Id /\ open \subseteq Id
      BY Numbers DEF Types, TypeOK
    <3>3. DOMAIN loop = Id /\ fd \in [Id -> Fd \cup {0}]
      BY DEF Types, TypeOK
    <3>4. stat \in [Id -> {"none", "CONNECTING", "CONNECTED", "DISCONNECTED"}]
      BY DEF Types, TypeOK
    <3> QED BY <3>1, <3>2, <3>3, <3>4
  <2>3. /\ c > next_id
        /\ \A k \in Id : /\ k > c => k > next_id
                         /\ k <= next_id => k <= c /\ k < c
    BY <2>1, <2>2 DEF Id
  <2>4. stat[c] = "none" /\ ~Live(c)
    BY <2>3 DEF Safe, IdsOK, Live
  <2>5. /\ stat'[c] = "CONNECTING" /\ fd'[c] = f
        /\ \A d \in Id \ {c} : stat'[d] = stat[d] /\ fd'[d] = fd[d] /\ loop'[d] = loop[d]
    BY <2>1, <2>2
  <2>6. Live(c)' /\ \A d \in Id \ {c} : Live(d)' <=> Live(d)
    BY <2>5 DEF Live
  <2>7. c \notin open /\ \A d \in open : d # c /\ fd'[d] = fd[d] /\ fd[d] # f
    <3>1. c \notin open
      BY <2>4 DEF Safe, IdsOK
    <3> QED BY <2>2, <2>5, <3>1 DEF FreeFds
  <2>8. c \notin functors /\ \A id \in functors : id # c
    <3>1. ASSUME c \in functors PROVE FALSE
      <4>1. c <= next_id
        BY <3>1 DEF Safe, IdsOK
      <4> QED BY <2>1, <2>2, <4>1
    <3> QED BY <3>1
  <2>9. IdsOK'
    <3>1. \A d \in Id : d \in open' <=> Live(d)'
      BY <2>1, <2>6 DEF Safe, IdsOK
    <3>2. \A k \in Id : k > c => stat'[k] = "none"
      BY <2>1, <2>2, <2>3, <2>5 DEF Safe, IdsOK, Id
    <3>3. \A id \in functors : stat'[id] = "none" /\ id <= c
      BY <2>2, <2>3, <2>5, <2>8 DEF Safe, IdsOK
    <3>4. /\ \A d \in open' : fd'[d] \in Fd
          /\ \A d, e \in open' : fd'[d] = fd'[e] => d = e
      BY <2>1, <2>5, <2>7 DEF Safe, IdsOK, FreeFds
    <3>5. functors' = functors /\ stat'[creating'] # "none"
      BY <1>1, <2>1, <2>5
    <3> QED BY <2>1, <2>5, <3>1, <3>2, <3>3, <3>4, <3>5 DEF IdsOK
  <2>10. TableOK'
    <3>1. NoWrap => \A d \in Id : Live(d)' => creating' = d \/ d \in Range(conns')
      BY <1>1, <2>1, <2>6, Numbers DEF Safe, TableOK
    <3>2. ASSUME NEW k \in DOMAIN conns
          PROVE  k <= c /\ k < c /\ (NoWrap => (conns[k] # k => stat'[k] = "none"))
      <4>1. k \in Id /\ k <= next_id
        BY <2>2 DEF Safe, TableOK
      <4>2. k <= c /\ k < c
        BY <2>3, <4>1
      <4>3. k # c
        BY <2>1, <2>2, <4>1, <4>2
      <4> QED BY <2>5, <4>1, <4>2, <4>3 DEF Safe, TableOK
    <3> QED BY <1>1, <2>1, <3>1, <3>2, NoWrapIsConstant DEF TableOK
  <2>11. TimersOK'
    <3>1. ASSUME NEW m \in Loop, NEW id \in Id, <<m, id>> \in armed
          PROVE  (m = Base /\ id \in functors) \/ (Live(id)' /\ loop'[id] = m)
      BY <2>4, <2>5, <2>6, <2>8, <3>1 DEF Safe, TimersOK
    <3> QED BY <1>1, <3>1 DEF Safe, TimersOK, FunctorsKept
  <2>12. \A m \in Loop : Rest(m)' = Rest(m)
    BY <1>1 DEF Rest
  <2>13. \A m \in Loop : \A t : (Pending(m, t)' <=> Pending(m, t)) /\ (Queued(m, t)' <=> Queued(m, t))
    BY <1>1, <2>12 DEF Pending, Queued
  <2>14. QueuesOK'
    <3>1. ASSUME NEW m \in Loop
          PROVE  /\ ~Pending(m, Reg(c)) /\ ~Pending(m, Est(c))
                 /\ ~Queued(m, Rel(c)) /\ ~Queued(m, Rem(c))
      BY <2>4, Settled DEF Safe, EST
    <3>2. \A m \in Loop : ~(Rel(c) \in Range(tasks[m]))
      BY <3>1 DEF Queued
    <3>3. QueuesOK /\ c \notin held
      BY <2>4 DEF Safe, EstablishedOK, EST
    <3>4. ASSUME NEW m \in Loop, NEW d \in Id \ {c}
          PROVE  /\ Pending(m, Reg(d))' \/ Pending(m, Est(d))' =>
                      /\ stat'[d] = "CONNECTING" /\ loop'[d] = m /\ m # Base
                      /\ ~(creating' = d /\ step' = "establish")
                 /\ Queued(m, Rel(d))' => loop'[d] = m /\ stat'[d] \in EST
                 /\ Queued(m, Rem(d))' => stat'[d] = "DISCONNECTED"
                 /\ ~late' /\ Rel(d) \in Range(tasks'[m]) =>
                       stat'[d] = "CONNECTED" /\ Rel(d) \notin Range(Rest(m)')
                 /\ Pending(m, Shut(d))' => d \in held' /\ loop'[d] = m
      BY <1>1, <2>1, <2>5, <2>12, <2>13, <3>3, Numbers DEF QueuesOK
    <3>5. \A m \in Loop : ~Pending(m, Shut(c))
      BY <3>3 DEF QueuesOK
    <3>6. \A m \in Loop : tasks'[m] = tasks[m]
      BY <1>1
    <3> QED BY <2>13, <3>1, <3>2, <3>4, <3>5, <3>6 DEF QueuesOK
  <2>15. SetUpOK'
    BY <1>1, <2>12 DEF Safe, SetUpOK
  <2>16. ActivesOK'
    BY <1>1, <1>2, <2>4, <2>5 DEF Safe, ActivesOK, EST
  <2>17. EstablishedOK'
    <3>1. ASSUME NEW d \in Id, stat[d] \in EST PROVE stat'[d] \in EST /\ loop'[d] = loop[d]
      BY <2>4, <2>5, <3>1 DEF EST
    <3>2. ASSUME NEW m \in Loop, NEW g \in DOMAIN channels[m] PROVE channels[m][g] \in Id
      BY PartialFcn DEF Types, TypeOK
    <3>3. held \subseteq Id
      BY DEF Types, TypeOK
    <3> QED BY <1>1, <3>1, <3>2, <3>3 DEF Safe, EstablishedOK
  <2>18. WatchesOwnFds'
    <3>1. ASSUME NEW m \in Loop, NEW g \in Fd, NEW d \in Id
          PROVE  stat'[d] = "CONNECTED" /\ d \in open' /\ fd'[d] = g /\ loop'[d] = m
                    <=> stat[d] = "CONNECTED" /\ d \in open /\ fd[d] = g /\ loop[d] = m
      BY <2>1, <2>4, <2>5
    <3> QED BY <1>1, <3>1 DEF Safe, WatchesOwnFds
  <2>19. ReuseOK'
    <3>1. \A m \in Loop : Est(c) \notin Range(Rest(m))
      BY <2>4, Settled DEF Safe, Pending
    <3> QED BY <1>1, <2>4, <2>5, <2>12, <3>1 DEF Safe, ReuseOK
  <2> QED BY <2>9, <2>10, <2>11, <2>14, <2>15, <2>16, <2>17, <2>18, <2>19 DEF Safe
<1> QED BY <1>1, <1>3, <1>4
\* What a connection's establishment leaves in the queues, when no other setup
\* of it is left.
LEMMA EstablishQueues ==
    ASSUME Types, QueuesOK, NEW c \in Id, EstablishInLoop(c),
           UNCHANGED <<batch, loop, creating, late>>, step' \in {step, "insert"},
           \A m \in Loop : /\ Range(Rest(m)') \subseteq Range(Rest(m))
                           /\ Reg(c) \notin Range(Rest(m)') /\ Reg(c) \notin Range(tasks[m])
                           /\ Est(c) \notin Range(Rest(m)') /\ Est(c) \notin Range(tasks[m])
    PROVE  QueuesOK'
<1>1. /\ loop[c] \in Loop /\ stat[c] = "CONNECTING"
      /\ stat' = [stat EXCEPT ![c] = "CONNECTED"] /\ held \subseteq held'
  BY EstablishFacts
<1>2. PICK q \in Seq(Task) : Pushed(loop[c], q) /\ Range(q) \subseteq {Rel(c)}
  BY EstablishFacts
<1>3. stat'[c] = "CONNECTED" /\ \A d \in Id \ {c} : stat'[d] = stat[d]
  BY <1>1 DEF Types, TypeOK
<1>4. \A m \in Loop : \A t : t \in Range(tasks'[m]) =>
            t \in Range(tasks[m]) \/ (m = loop[c] /\ t = Rel(c))
  BY <1>1, <1>2, PushQueues
<1>5. \A m \in Loop :
                  \A t : /\ Pending(m, t)' => Pending(m, t) \/ (m = loop[c] /\ t = Rel(c))
                         /\ Queued(m, t)' => Queued(m, t) \/ (m = loop[c] /\ t = Rel(c))
  BY <1>4 DEF Pending, Queued
<1>6. ASSUME NEW m \in Loop
      PROVE  ~Queued(m, Rel(c)) /\ ~Queued(m, Rem(c))
  BY <1>1, Settled DEF EST
<1>7. \A m \in Loop : ~Pending(m, Reg(c))' /\ ~Pending(m, Est(c))'
  BY <1>4, TaskNames DEF Pending
<1>8. ASSUME NEW m \in Loop, NEW d \in Id
      PROVE  /\ Pending(m, Reg(d))' \/ Pending(m, Est(d))' =>
                  /\ stat'[d] = "CONNECTING" /\ loop'[d] = m /\ m # Base
                  /\ ~(creating' = d /\ step' = "establish")
             /\ Queued(m, Rel(d))' => loop'[d] = m /\ stat'[d] \in EST
             /\ Queued(m, Rem(d))' => stat'[d] = "DISCONNECTED"
             /\ Pending(m, Shut(d))' => d \in held' /\ loop'[d] = m
  <2>0. Pending(m, Shut(d))' => d \in held' /\ loop'[d] = m
    BY <1>1, <1>5, TaskNames DEF QueuesOK
  <2>1. CASE d = c
    <3>1. ~Queued(m, Rem(c))'
      BY <1>5, <1>6, TaskNames
    <3>2. Queued(m, Rel(c))' => m = loop[c]
      BY <1>5, <1>6
    <3> QED BY <1>3, <1>7, <2>0, <2>1, <3>1, <3>2 DEF EST
  <2>2. CASE d # c
    <3>1. /\ Pending(m, Reg(d))' => Pending(m, Reg(d))
          /\ Pending(m, Est(d))' => Pending(m, Est(d))
          /\ Queued(m, Rel(d))' => Queued(m, Rel(d))
          /\ Queued(m, Rem(d))' => Queued(m, Rem(d))
      BY <1>5, <2>2, TaskNames
    <3> QED BY <1>3, <2>0, <2>2, <3>1 DEF QueuesOK
  <2> QED BY <2>1, <2>2
<1>9. ASSUME NEW m \in Loop, NEW d \in Id, ~late', Rel(d) \in Range(tasks'[m])
      PROVE  stat'[d] = "CONNECTED" /\ Rel(d) \notin Range(Rest(m)')
  <2>1. CASE d = c
    <3>1. Rel(c) \notin Range(Rest(m))
      BY <1>6, PendingQueued DEF Pending
    <3> QED BY <1>3, <2>1, <3>1
  <2>2. CASE d # c
    <3>1. Rel(d) \in Range(tasks[m])
      BY <1>4, <1>9, <2>2, TaskNames
    <3> QED BY <1>3, <1>9, <2>2, <3>1 DEF QueuesOK
  <2> QED BY <2>1, <2>2
<1> QED BY <1>8, <1>9 DEF QueuesOK

LEMMA EstablishedSafe == Types /\ Types' /\ Safe /\ Established => Safe'
<1> SUFFICES ASSUME Types, Types', Safe, Established PROVE Safe'
  OBVIOUS
<1>1. /\ creating \in Id /\ step = "establish" /\ step' = "insert"
      /\ UNCHANGED <<cnt, next_id, next_idx, creating, conns, fd, loop, open,
                     functors, clients, afters, calls, actives, batch, done, pc, late>>
      /\ \/ /\ loop[creating] = Base /\ EstablishInLoop(creating)
            /\ armed' \in {armed, armed \cup {<<Base, creating>>}}
         \/ /\ loop[creating] \in Loop \ {Base}
            /\ \E q \in {<<>>, <<Reg(creating)>>} : Pushed(loop[creating], q \o <<Est(creating)>>)
            /\ UNCHANGED <<stat, armed, channels, epoll, held>>
  BY EstablishedCases
<1>2. creating # NoConn /\ pc[Base] = "dispatch" /\ stat[creating] = "CONNECTING"
  <2>1. creating # NoConn
    BY <1>1, Numbers
  <2> QED BY <1>1, <2>1 DEF Types, TypeOK, Safe, IdsOK
<1>3. Rest(Base) = <<>>
  BY <1>2, QueueTypes, Numbers
<1>4. \A m \in Loop : Rest(m)' = Rest(m)
  BY <1>1 DEF Rest
<1>5. CASE /\ loop[creating] = Base /\ EstablishInLoop(creating)
           /\ armed' \in {armed, armed \cup {<<Base, creating>>}}
  <2>1. IdsOK' /\ EstablishedOK' /\ TableOK' /\ TimersOK' /\ ActivesOK' /\ WatchesOwnFds'
    BY <1>1, <1>5, EstablishSafe
  <2>2. \A m \in Loop : ~Pending(m, Reg(creating)) /\ ~Pending(m, Est(creating))
    BY <1>1 DEF Safe, QueuesOK
  <2>3. QueuesOK'
    BY <1>1, <1>4, <1>5, <2>2, EstablishQueues DEF Safe, Pending
  <2>4. SetUpOK'
    <3>1. PICK q \in Seq(Task) : Pushed(Base, q) /\ Range(q) \subseteq {Rel(creating)}
      BY <1>1, <1>5, EstablishFacts
    <3>2. \A c \in Id : Reg(c) \notin Range(q) /\ Est(c) \notin Range(q)
      BY <3>1, TaskNames
    <3>3. SetUpOnce(q)
      BY <3>2, SetUpAlone
    <3> QED BY <1>1, <3>1, <3>2, <3>3, Numbers, HandlerSetUp DEF Safe
  <2>5. ReuseOK'
    <3>1. stat' = [stat EXCEPT ![creating] = "CONNECTED"]
      BY <1>1, <1>5, EstablishFacts
    <3>2. stat'[creating] = "CONNECTED" /\ \A d \in Id \ {creating} : stat'[d] = stat[d]
      BY <1>1, <3>1 DEF Types, TypeOK
    <3>3. \A c \in Id : Rel(c) \notin Range(Rest(Base))
      BY <1>3, EmptyRange
    <3> QED BY <1>1, <1>4, <1>5, <3>2, <3>3 DEF Safe, ReuseOK
  <2> QED BY <2>1, <2>3, <2>4, <2>5 DEF Safe
<1>6. CASE /\ loop[creating] \in Loop \ {Base}
           /\ \E q \in {<<>>, <<Reg(creating)>>} : Pushed(loop[creating], q \o <<Est(creating)>>)
           /\ UNCHANGED <<stat, armed, channels, epoll, held>>
  <2>1. PICK q \in {<<>>, <<Reg(creating)>>} : Pushed(loop[creating], q \o <<Est(creating)>>)
    BY <1>6
  <2>2. PICK p : p = q \o <<Est(creating)>>
    OBVIOUS
  <2>3. /\ p \in Seq(Task) /\ Pushed(loop[creating], p) /\ SetUpOnce(p)
        /\ Range(p) \subseteq {Reg(creating), Est(creating)}
    BY <1>1, <2>1, <2>2, SetUpTasks, SetUpAlone
  <2>4. \A m \in Loop : ~Pending(m, Est(creating))
    BY <1>1 DEF Safe, QueuesOK
  <2>5. \A c \in Id : ({Reg(c), Est(c)} \cap Range(p)) # {} => c = creating
    BY <2>3, TaskNames
  <2>6. SetUpOK'
    BY <1>1, <1>6, <2>3, <2>4, <2>5, HandlerSetUp DEF Safe
  <2>7. \A m \in Loop : \A t : t \in Range(tasks'[m]) =>
            t \in Range(tasks[m]) \/ (m = loop[creating] /\ t \in {Reg(creating), Est(creating)})
    BY <1>6, <2>3, PushQueues
  <2>8. QueuesOK'
    <3>1. \A m \in Loop : \A t :
            /\ Pending(m, t)' => \/ Pending(m, t)
                                 \/ m = loop[creating] /\ t \in {Reg(creating), Est(creating)}
            /\ Queued(m, t)' => \/ Queued(m, t)
                                \/ m = loop[creating] /\ t \in {Reg(creating), Est(creating)}
      BY <1>1, <1>4, <2>7 DEF Pending, Queued
    <3>2. ASSUME NEW m \in Loop, NEW c \in Id, Pending(m, Reg(c))' \/ Pending(m, Est(c))'
          PROVE  stat[c] = "CONNECTING" /\ loop[c] = m /\ m # Base
      <4>1. CASE Pending(m, Reg(c)) \/ Pending(m, Est(c))
        BY <4>1 DEF Safe, QueuesOK
      <4>2. CASE m = loop[creating] /\ c = creating
        BY <1>2, <1>6, <4>2
      <4> QED BY <3>1, <3>2, <4>1, <4>2, TaskNames
    <3>3. \A m \in Loop, c \in Id :
            /\ Queued(m, Rel(c))' => Queued(m, Rel(c))
            /\ Queued(m, Rem(c))' => Queued(m, Rem(c))
            /\ Pending(m, Shut(c))' => Pending(m, Shut(c))
            /\ Rel(c) \in Range(tasks'[m]) => Rel(c) \in Range(tasks[m])
      BY <2>7, <3>1, TaskNames
    <3>4. \A m \in Loop, c \in Id :
            /\ Queued(m, Rel(c))' => loop'[c] = m /\ stat'[c] \in EST
            /\ ~late' /\ Rel(c) \in Range(tasks'[m]) =>
                  stat'[c] = "CONNECTED" /\ Rel(c) \notin Range(Rest(m)')
            /\ Queued(m, Rem(c))' => stat'[c] = "DISCONNECTED"
            /\ Pending(m, Shut(c))' => c \in held' /\ loop'[c] = m
      BY <1>1, <1>4, <1>6, <3>3 DEF Safe, QueuesOK
    <3>5. \A m \in Loop, c \in Id : Pending(m, Reg(c))' \/ Pending(m, Est(c))' =>
              /\ stat'[c] = "CONNECTING" /\ loop'[c] = m /\ m # Base
              /\ ~(creating' = c /\ step' = "establish")
      BY <1>1, <1>6, <3>2
    <3> QED BY <3>4, <3>5 DEF QueuesOK
  <2>9. IdsOK' /\ TableOK' /\ TimersOK'
    BY <1>1, <1>6, NoWrapIsConstant DEF Safe, IdsOK, TableOK, TimersOK, FunctorsKept, Live
  <2>10. ActivesOK' /\ WatchesOwnFds' /\ EstablishedOK'
    BY <1>1, <1>6 DEF Safe, ActivesOK, WatchesOwnFds, EstablishedOK
  <2>11. ReuseOK'
    BY <1>1, <1>4, <1>6 DEF Safe, ReuseOK
  <2> QED BY <2>6, <2>8, <2>9, <2>10, <2>11 DEF Safe
<1> QED BY <1>1, <1>5, <1>6

LEMMA InsertSafe == Types /\ Types' /\ Safe /\ Insert => Safe'
<1> SUFFICES ASSUME Types, Types', Safe, Insert PROVE Safe'
  OBVIOUS
<1>1. /\ creating # NoConn /\ conns' = With(conns, next_id, creating)
      /\ creating' = NoConn
      /\ UNCHANGED <<fd, loop, stat, open, next_id, armed, functors, channels, epoll,
                     actives, batch, done, tasks, held, late>>
  BY DEF Insert, connVars, timerVars, pollerVars, loopVars, envVars
<1>2. /\ creating \in Id /\ next_id \in Nat /\ creating <= next_id
      /\ DOMAIN conns \subseteq Id
  <2>1. DOMAIN conns \subseteq Id
    BY PartialFcn DEF Types, TypeOK
  <2> QED BY <1>1, <2>1, Numbers DEF Types, TypeOK
<1>3. next_id \notin DOMAIN conns
  <2>1. SUFFICES ASSUME next_id \in DOMAIN conns PROVE FALSE
    OBVIOUS
  <2>2. next_id < creating
    BY <1>1, <2>1 DEF Safe, TableOK
  <2> QED BY <1>2, <2>2 DEF Id
<1>4. /\ DOMAIN conns' = DOMAIN conns \cup {next_id}
      /\ conns'[next_id] = creating
      /\ \A k \in DOMAIN conns : conns'[k] = conns[k]
  <2>1. PICK w : w = With(conns, next_id, creating)
    OBVIOUS
  <2>2. /\ DOMAIN w = DOMAIN conns \cup {next_id} /\ w[next_id] = creating
        /\ \A k \in DOMAIN conns : w[k] = conns[k]
    BY <1>3, <2>1 DEF With
  <2> QED BY <1>1, <2>1, <2>2
<1>5. TableOK'
  <2>1. ASSUME NoWrap, NEW d \in Id, Live(d)' PROVE d \in Range(conns')
    <3>1. creating = d \/ d \in Range(conns)
      BY <1>1, <2>1 DEF Live, Safe, TableOK
    <3>2. Range(conns) \subseteq Range(conns')
      BY <1>4 DEF Range
    <3>3. creating \in Range(conns')
      BY <1>4 DEF Range
    <3> QED BY <3>1, <3>2, <3>3
  <2>2. ASSUME NEW k \in DOMAIN conns'
        PROVE  k <= next_id' /\ (NoWrap => (conns'[k] # k => stat'[k] = "none"))
    <3>1. CASE k \in DOMAIN conns
      BY <1>1, <1>4, <3>1 DEF Safe, TableOK
    <3>2. CASE k = next_id
      <4>1. ASSUME creating # next_id PROVE stat[next_id] = "none"
        <5>1. next_id > creating /\ next_id \in Id
          BY <1>2, <4>1, Numbers DEF Id, Types, TypeOK
        <5> QED BY <1>1, <5>1 DEF Safe, IdsOK
      <4>2. next_id <= next_id
        BY <1>2
      <4> QED BY <1>1, <1>4, <3>2, <4>1, <4>2
    <3> QED BY <1>4, <3>1, <3>2
  <2> QED BY <1>1, <2>1, <2>2, NoWrapIsConstant DEF TableOK
<1>6. IdsOK' /\ TimersOK'
  BY <1>1 DEF Safe, IdsOK, TimersOK, FunctorsKept, Live
<1>7. QueuesOK'
  BY <1>1, Numbers DEF Safe, QueuesOK, Pending, Queued, Rest
<1>8. SetUpOK' /\ ReuseOK'
  BY <1>1 DEF Safe, SetUpOK, ReuseOK, Rest
<1>9. ActivesOK' /\ WatchesOwnFds' /\ EstablishedOK'
  BY <1>1 DEF Safe, ActivesOK, WatchesOwnFds, EstablishedOK
<1> QED BY <1>5, <1>6, <1>7, <1>8, <1>9 DEF Safe

LEMMA PollSafe == \A l \in Loop : Types /\ Types' /\ Safe /\ Poll(l) => Safe'
<1> SUFFICES ASSUME NEW l \in Loop, Types, Types', Safe, Poll(l) PROVE Safe'
  OBVIOUS
<1>1. PICK ready \in SUBSET epoll[l], tick \in SUBSET {Timer} :
        actives' = [actives EXCEPT ![l] =
                        {channels[l][f] : f \in ready} \cup tick \cup AcceptorReady(l)]
  BY DEF Poll
<1>2. UNCHANGED <<creating, step, conns, fd, loop, stat, open, next_id, armed, functors,
                  channels, epoll, tasks, batch, done, held, late>>
  BY DEF Poll, newVars, connVars, timerVars, pollerVars, envVars
<1>3. ActivesOK'
  <2>1. ASSUME NEW c \in Id, c \in actives'[l]
        PROVE  loop[c] = l /\ stat[c] \in EST /\ (~late => stat[c] = "CONNECTED")
    <3>1. c \notin tick /\ c \notin AcceptorReady(l)
      BY Numbers DEF AcceptorReady
    <3>2. PICK f \in ready : channels[l][f] = c
      BY <1>1, <2>1, <3>1 DEF Types, TypeOK
    <3>3. f \in epoll[l] /\ f \in Fd
      BY DEF Types, TypeOK
    <3>4. loop[c] = l /\ stat[c] \in EST
      BY <3>2, <3>3 DEF Types, Safe, EstablishedOK
    <3>5. ASSUME ~late PROVE stat[c] = "CONNECTED"
      BY <3>2, <3>3, <3>5 DEF Safe, WatchesOwnFds
    <3> QED BY <3>4, <3>5
  <2>2. \A m \in Loop \ {l} : actives'[m] = actives[m]
    BY <1>1 DEF Types, TypeOK
  <2> QED BY <1>2, <2>1, <2>2 DEF Safe, ActivesOK
<1>4. IdsOK' /\ TableOK' /\ TimersOK'
  BY <1>2, NoWrapIsConstant DEF Safe, IdsOK, TableOK, TimersOK, FunctorsKept, Live
<1>5. QueuesOK' /\ SetUpOK' /\ ReuseOK'
  BY <1>2 DEF Safe, QueuesOK, SetUpOK, ReuseOK, Pending, Queued, Rest
<1>6. WatchesOwnFds' /\ EstablishedOK'
  BY <1>2 DEF Safe, WatchesOwnFds, EstablishedOK
<1> QED BY <1>3, <1>4, <1>5, <1>6 DEF Safe

\* Handlers ask for the release of connections that are established on their
\* loop; timers may have gone off.
LEMMA DispatchSafe ==
    ASSUME Types, Types', Safe, NEW l \in Loop, NEW channel, Dispatch(l, channel),
           NEW q \in Seq(Task), Pushed(l, q), NEW S \in SUBSET Id, Range(q) \subseteq {Rel(c) : c \in S},
           \A c \in S : /\ loop[c] = l /\ stat[c] \in EST
                        /\ ~late' => stat[c] = "CONNECTED",
           functors' \subseteq functors, TimersOK', ~late' => ~late,
           UNCHANGED <<newVars, next_id, conns, connVars, envVars, pollerVars>>
    PROVE  Safe'
<1>1. /\ pc[l] = "dispatch" /\ actives' = [actives EXCEPT ![l] = @ \ {channel}]
      /\ UNCHANGED <<batch, done, creating, step, conns, fd, loop, stat, open, next_id,
                     channels, epoll, held>>
  BY DEF Dispatch, Dispatching, newVars, connVars, pollerVars, envVars
<1>2. \A m \in Loop : actives'[m] \subseteq actives[m]
  BY <1>1 DEF Types, TypeOK
<1>3. \A c \in Id : Rel(c) \notin Range(Rest(l))
  <2>1. Rest(l) = <<>>
    BY <1>1, QueueTypes
  <2> QED BY <2>1, EmptyRange
<1>4. \A c \in Id : /\ Reg(c) \notin Range(q) /\ Est(c) \notin Range(q) /\ Rem(c) \notin Range(q)
                    /\ Shut(c) \notin Range(q)
                    /\ Rel(c) \in Range(q) => c \in S
  BY TaskNames
<1>5. QueuesOK'
  <2>1. \A c \in Id : /\ Reg(c) \notin Range(q) /\ Est(c) \notin Range(q) /\ Rem(c) \notin Range(q)
                      /\ Rel(c) \in Range(q) =>
                            /\ loop[c] = l /\ stat[c] \in EST
                            /\ ~late' => stat[c] = "CONNECTED" /\ Rel(c) \notin Range(Rest(l))
                      /\ Shut(c) \in Range(q) => c \in held /\ loop[c] = l
    BY <1>3, <1>4
  <2>2. UNCHANGED <<batch, done, stat, loop, held, creating, step>>
    BY <1>1
  <2> QED BY <2>1, <2>2, HandlerQueues DEF Safe
<1>6. SetUpOK'
  <2>1. SetUpOnce(q)
    BY <1>4, SetUpAlone
  <2> QED BY <1>1, <1>4, <2>1, HandlerSetUp DEF Safe
<1>7. IdsOK' /\ EstablishedOK' /\ TableOK'
  BY <1>1, NoWrapIsConstant DEF Safe, IdsOK, EstablishedOK, TableOK, Live
<1>8. ActivesOK' /\ WatchesOwnFds'
  BY <1>1, <1>2 DEF Safe, ActivesOK, WatchesOwnFds
<1>9. ReuseOK'
  BY <1>1 DEF Safe, ReuseOK, Rest
<1> QED BY <1>5, <1>6, <1>7, <1>8, <1>9 DEF Safe

\* A connection that is not Ending, with an established one, has no Release to
\* come in the batch.
LEMMA NotEnding ==
    ASSUME NEW c, stat[c] \in EST, ~Ending(c)
    PROVE  stat[c] = "CONNECTED" /\ Rel(c) \notin Range(Rest(loop[c]))
BY DEF Ending, EST, Rel

LEMMA HandleEventSafe ==
    \A l \in Loop, c \in Id : Types /\ Types' /\ Safe /\ HandleEvent(l, c) => Safe'
<1> SUFFICES ASSUME NEW l \in Loop, NEW c \in Id, Types, Types', Safe, HandleEvent(l, c)
             PROVE  Safe'
  OBVIOUS
<1>1. /\ Dispatch(l, c)
      /\ UNCHANGED <<newVars, conns, connVars, timerVars, envVars, pollerVars>>
  BY DEF HandleEvent
<1>2. loop[c] = l /\ stat[c] \in EST
  BY <1>1 DEF Dispatch, Safe, ActivesOK
<1>3. (~late' => ~late) /\ (~late' => ~Ending(c))
  BY DEF HandleEvent
<1>4. PICK n \in Nat : Releases(c, n)
  BY Numbers DEF HandleEvent
<1>5. PICK q \in Seq(Task) : Pushed(l, q) /\ Range(q) \subseteq {Rel(c)}
  BY <1>2, <1>4, ReleasesPush
<1>6. TimersOK' /\ functors' \subseteq functors
  BY <1>1 DEF timerVars, connVars, Safe, TimersOK, FunctorsKept, Live
<1>7. UNCHANGED <<newVars, next_id, conns, connVars, envVars, pollerVars>>
  BY <1>1 DEF timerVars
<1>8. {c} \in SUBSET Id /\ Range(q) \subseteq {Rel(d) : d \in {c}}
  BY <1>5
<1>9. \A d \in {c} : /\ loop[d] = l /\ stat[d] \in EST
                     /\ ~late' => stat[d] = "CONNECTED"
  BY <1>2, <1>3, NotEnding
<1> QED BY Zenon, <1>1, <1>3, <1>5, <1>6, <1>7, <1>8, <1>9, DispatchSafe

LEMMA OntimeSafe == \A l \in Loop : Types /\ Types' /\ Safe /\ Ontime(l) => Safe'
<1> SUFFICES ASSUME NEW l \in Loop, Types, Types', Safe, Ontime(l) PROVE Safe'
  OBVIOUS
<1>1. PICK off \in SUBSET Expirable(l), q \in Seq(Task) :
        /\ armed' = armed \ ({l} \X off) /\ functors' = functors \ off
        /\ Pushed(l, q) /\ Range(q) \subseteq {Rel(c) : c \in off \ functors}
  BY OntimeCases
<1>2. /\ Dispatch(l, Timer) /\ (~late' => ~late)
      /\ UNCHANGED <<newVars, next_id, conns, connVars, envVars, pollerVars>>
  BY OntimeCases
<1>3. \A id \in off : /\ id \in Id /\ <<l, id>> \in armed
                      /\ id \in functors \/ stat[id] # "CONNECTING"
  BY DEF Expirable
<1>4. \A id \in functors : stat[id] = "none"
  BY DEF Safe, IdsOK
<1>5. \A id \in off : /\ id \in functors => l = Base
                      /\ id \notin functors => stat[id] = "CONNECTED" /\ loop[id] = l
  BY <1>3, <1>4 DEF Safe, TimersOK, Live
<1>6. TimersOK'
  <2>1. functors \subseteq Id
    BY DEF Types, TypeOK
  <2>2. \A id \in functors' : <<Base, id>> \in armed'
    BY <1>1, <1>5 DEF Safe, TimersOK, FunctorsKept
  <2>3. ASSUME NEW m \in Loop, NEW id \in Id, <<m, id>> \in armed'
        PROVE  (m = Base /\ id \in functors') \/ (Live(id)' /\ loop'[id] = m)
    <3>1. <<m, id>> \in armed /\ ~(m = l /\ id \in off)
      BY <1>1, <2>3
    <3>2. (m = Base /\ id \in functors) \/ (Live(id) /\ loop[id] = m)
      BY <3>1 DEF Safe, TimersOK
    <3>3. id \in functors /\ m = Base => id \in functors'
      BY <1>1, <1>5, <3>1
    <3> QED BY <1>2, <3>2, <3>3 DEF connVars, Live
  <2> QED BY <2>2, <2>3 DEF TimersOK, FunctorsKept
<1>7. functors' \subseteq functors /\ off \ functors \in SUBSET Id
  BY <1>1, <1>3
<1>8. \A c \in off \ functors : /\ loop[c] = l /\ stat[c] \in EST
                                /\ ~late' => stat[c] = "CONNECTED"
  BY <1>5 DEF EST
<1> QED BY Zenon, <1>1, <1>2, <1>6, <1>7, <1>8, DispatchSafe

\* The pushed tasks become the batch.
LEMMA SwapTasksSafe == \A l \in Loop : Types /\ Types' /\ Safe /\ SwapTasks(l) => Safe'
<1> SUFFICES ASSUME NEW l \in Loop, Types, Types', Safe, SwapTasks(l) PROVE Safe'
  OBVIOUS
<1>1. /\ pc[l] = "dispatch"
      /\ batch' = [batch EXCEPT ![l] = tasks[l]]
      /\ tasks' = [tasks EXCEPT ![l] = <<>>]
      /\ UNCHANGED <<creating, step, conns, fd, loop, stat, open, next_id, armed, functors,
                     channels, epoll, actives, done, held, late>>
  BY DEF SwapTasks, AllDispatched, Dispatching, newVars, connVars, timerVars, pollerVars, envVars
<1>2. batch[l] = <<>> /\ done[l] = 0 /\ Rest(l) = <<>>
  BY <1>1, QueueTypes
<1>3. /\ batch'[l] = tasks[l] /\ tasks'[l] = <<>> /\ done'[l] = 0
      /\ \A m \in Loop \ {l} : batch'[m] = batch[m] /\ tasks'[m] = tasks[m] /\ done'[m] = done[m]
  BY <1>1, <1>2 DEF Types, TypeOK
<1>4. Rest(l)' = tasks[l] /\ \A m \in Loop \ {l} : Rest(m)' = Rest(m)
  <2>1. /\ batch' \in [Loop -> Seq(Task)] /\ done' \in [Loop -> Nat]
        /\ done'[l] <= Len(batch'[l])
    BY DEF Types, TypeOK
  <2>2. Rest(l)' = batch'[l]
    BY <1>3, <2>1, RestOfBatch DEF Rest
  <2> QED BY <1>3, <2>2 DEF Rest
<1>5. \A m \in Loop :
                  \A t : /\ Pending(m, t)' <=> Pending(m, t)
                         /\ Queued(m, t)' <=> Queued(m, t)
  BY <1>2, <1>3, <1>4, EmptyRange DEF Pending, Queued
<1>6. \A m \in Loop : \A t : t \in Range(tasks'[m]) => t \in Range(tasks[m]) /\ m # l
  BY <1>3, EmptyRange
<1>7. QueuesOK'
  BY <1>1, <1>4, <1>5, <1>6 DEF Safe, QueuesOK
<1>8. SetUpOK'
  BY <1>3, <1>4, SetUpAlone, EmptyRange DEF Safe, SetUpOK
<1>9. ReuseOK'
  <2>1. \A c \in Id : ~(~late /\ stat[c] = "DISCONNECTED" /\ Rel(c) \in Range(tasks[l]))
    BY DEF Safe, QueuesOK
  <2> QED BY <1>1, <1>4, <2>1 DEF Safe, ReuseOK
<1>10. IdsOK' /\ TableOK' /\ TimersOK'
  BY <1>1, NoWrapIsConstant DEF Safe, IdsOK, TableOK, TimersOK, FunctorsKept, Live
<1>11. ActivesOK' /\ WatchesOwnFds' /\ EstablishedOK'
  BY <1>1 DEF Safe, ActivesOK, WatchesOwnFds, EstablishedOK
<1> QED BY <1>7, <1>8, <1>9, <1>10, <1>11 DEF Safe

LEMMA EndOfBatchSafe == \A l \in Loop : Types /\ Types' /\ Safe /\ EndOfBatch(l) => Safe'
<1> SUFFICES ASSUME NEW l \in Loop, Types, Types', Safe, EndOfBatch(l) PROVE Safe'
  OBVIOUS
<1>1. /\ done[l] = Len(batch[l]) /\ batch' = [batch EXCEPT ![l] = <<>>]
      /\ done' = [done EXCEPT ![l] = 0]
      /\ UNCHANGED <<creating, step, conns, fd, loop, stat, open, next_id, armed, functors,
                     channels, epoll, actives, tasks, held, late>>
  BY DEF EndOfBatch, newVars, connVars, timerVars, pollerVars, envVars
<1>2. /\ batch'[l] = <<>> /\ done'[l] = 0
      /\ \A m \in Loop \ {l} : batch'[m] = batch[m] /\ done'[m] = done[m]
  BY <1>1 DEF Types, TypeOK
<1>3. \A m \in Loop : Rest(m)' = Rest(m)
  <2>1. Rest(l) = <<>>
    BY <1>1, RestFacts DEF Types, TypeOK
  <2>2. Rest(l)' = <<>>
    <3>1. /\ batch' \in [Loop -> Seq(Task)] /\ done' \in [Loop -> Nat]
          /\ done'[l] <= Len(batch'[l])
      BY DEF Types, TypeOK
    <3> QED BY <1>2, <3>1, RestOfBatch DEF Rest
  <2> QED BY <1>2, <2>1, <2>2 DEF Rest
<1>4. \A m \in Loop :
                  \A t : /\ Pending(m, t)' <=> Pending(m, t)
                         /\ Queued(m, t)' => Queued(m, t)
  BY <1>1, <1>2, <1>3, EmptyRange DEF Pending, Queued
<1>5. QueuesOK'
  BY <1>1, <1>3, <1>4 DEF Safe, QueuesOK
<1>6. SetUpOK' /\ ReuseOK'
  BY <1>1, <1>3 DEF Safe, SetUpOK, ReuseOK
<1>7. IdsOK' /\ TableOK' /\ TimersOK'
  BY <1>1, NoWrapIsConstant DEF Safe, IdsOK, TableOK, TimersOK, FunctorsKept, Live
<1>8. ActivesOK' /\ WatchesOwnFds' /\ EstablishedOK'
  BY <1>1 DEF Safe, ActivesOK, WatchesOwnFds, EstablishedOK
<1> QED BY <1>5, <1>6, <1>7, <1>8 DEF Safe

\* Running a task whose connection it leaves in its status.
LEMMA RunTaskQueues ==
    ASSUME Types, Safe, NEW l \in Loop, RunTask(l),
           UNCHANGED <<tasks, stat, loop, fd, open, channels, epoll, held, late>>
    PROVE  QueuesOK' /\ SetUpOK' /\ ReuseOK' /\ ActivesOK' /\ WatchesOwnFds' /\ EstablishedOK'
<1>1. UNCHANGED <<batch, creating, step, actives>>
  BY RunTaskCases DEF newVars
<1>2. \A m \in Loop : Range(Rest(m)') \subseteq Range(Rest(m))
  BY RunQueues
<1>3. \A m \in Loop : \A t : (Pending(m, t)' => Pending(m, t)) /\ (Queued(m, t)' <=> Queued(m, t))
  BY <1>1, <1>2 DEF Pending, Queued
<1>4. QueuesOK'
  BY <1>1, <1>2, <1>3 DEF Safe, QueuesOK
<1>5. SetUpOK'
  <2>1. Pushed(Base, <<>>) /\ <<>> \in Seq(Task)
    BY PushNothing
  <2> QED BY <2>1, EmptyRange, Numbers, RunSetUp DEF Safe
<1>6. ReuseOK'
  BY <1>2 DEF Safe, ReuseOK
<1>7. ActivesOK' /\ WatchesOwnFds' /\ EstablishedOK'
  BY <1>1 DEF Safe, ActivesOK, WatchesOwnFds, EstablishedOK
<1> QED BY <1>4, <1>5, <1>6, <1>7

\* Established, on a sub loop.
LEMMA RunEstablishedSafe ==
    ASSUME Types, Types', Safe, NEW l \in Loop, RunTask(l), NEW c \in Id,
           batch[l][done[l] + 1] = Est(c), EstablishInLoop(c),
           UNCHANGED <<conns, fd, loop, open, timerVars, late>>
    PROVE  Safe'
<1>1. UNCHANGED <<batch, creating, step, actives>>
  BY RunTaskCases DEF newVars
<1>2. /\ Rest(l) # <<>> /\ Head(Rest(l)) = Est(c) /\ Rest(l)' = Tail(Rest(l))
      /\ Est(c) \in Range(Rest(l))
      /\ \A m \in Loop : Range(Rest(m)') \subseteq Range(Rest(m))
  BY RunQueues
<1>3. loop[c] = l /\ ~(creating = c /\ step = "establish")
  BY <1>2 DEF Safe, QueuesOK, Pending
<1>4. step' \in {step, "insert"} /\ (creating = c => step' = "insert")
  BY <1>1, <1>3 DEF Types, TypeOK
<1>5. IdsOK' /\ EstablishedOK' /\ TableOK' /\ TimersOK' /\ ActivesOK' /\ WatchesOwnFds'
  BY <1>1, <1>4, EstablishSafe DEF timerVars
<1>6. QueuesOK'
  <2>1. /\ Reg(c) \notin Range(Rest(l)') /\ Est(c) \notin Range(Rest(l)')
        /\ Reg(c) \notin Range(tasks[l]) /\ Est(c) \notin Range(tasks[l])
    <3>1. Rest(l) \in Seq(Task) /\ SetUpOnce(Rest(l))
      BY QueueTypes DEF Safe, SetUpOK
    <3>2. Reg(c) \notin Range(Tail(Rest(l))) /\ Est(c) \notin Range(Tail(Rest(l)))
      BY <1>2, <3>1, SetUpRun
    <3> QED BY <1>2, <3>2 DEF Safe, SetUpOK
  <2>2. \A m \in Loop \ {l} : ~Pending(m, Reg(c)) /\ ~Pending(m, Est(c))
    BY <1>3 DEF Safe, QueuesOK
  <2>3. \A m \in Loop : /\ Range(Rest(m)') \subseteq Range(Rest(m))
                        /\ Reg(c) \notin Range(Rest(m)') /\ Reg(c) \notin Range(tasks[m])
                        /\ Est(c) \notin Range(Rest(m)') /\ Est(c) \notin Range(tasks[m])
    BY <1>2, <2>1, <2>2 DEF Pending
  <2> QED BY <1>1, <1>4, <2>3, EstablishQueues DEF Safe
<1>7. SetUpOK'
  <2>1. PICK q \in Seq(Task) : Pushed(loop[c], q) /\ Range(q) \subseteq {Rel(c)}
    BY EstablishFacts
  <2>2. \A d \in Id : Reg(d) \notin Range(q) /\ Est(d) \notin Range(q)
    BY <2>1, TaskNames
  <2> QED BY <1>3, <2>1, <2>2, RunSetUp DEF Safe
<1>8. ReuseOK'
  <2>1. stat' = [stat EXCEPT ![c] = "CONNECTED"] /\ stat[c] = "CONNECTING"
    BY EstablishFacts
  <2>2. stat'[c] = "CONNECTED" /\ \A d \in Id \ {c} : stat'[d] = stat[d]
    BY <2>1 DEF Types, TypeOK
  <2>3. ASSUME ~late', NEW m \in Loop, NEW d \in Id, NEW e \in Id,
               stat'[d] = "DISCONNECTED", Rel(d) \in Range(Rest(m)'),
               stat'[e] = "CONNECTED" \/ Est(e) \in Range(Rest(m)'), loop'[e] = m
        PROVE  fd'[d] # fd'[e]
    <3>1. d # c /\ stat[d] = "DISCONNECTED" /\ Rel(d) \in Range(Rest(m))
      BY <1>2, <2>2, <2>3
    <3>2. stat[e] = "CONNECTED" \/ Est(e) \in Range(Rest(m))
      BY <1>2, <1>3, <2>2, <2>3
    <3> QED BY <2>3, <3>1, <3>2 DEF Safe, ReuseOK
  <2> QED BY <2>3 DEF ReuseOK
<1> QED BY <1>5, <1>6, <1>7, <1>8 DEF Safe

\* Release, for the first time or again.
LEMMA RunReleaseSafe ==
    ASSUME Types, Types', Safe, NEW l \in Loop, RunTask(l), NEW c \in Id,
           batch[l][done[l] + 1] = Rel(c), ReleaseInLoop(c),
           UNCHANGED <<next_id, fd, loop, functors, held, late>>
    PROVE  Safe'
<1>1. /\ UNCHANGED <<batch, creating, step, actives>> /\ pc[l] = "run"
      /\ Rel(c) \in Range(batch[l])
  BY RunTaskCases DEF newVars
<1>2. /\ Rel(c) \in Range(Rest(l))
      /\ \A m \in Loop : Range(Rest(m)') \subseteq Range(Rest(m))
  BY RunQueues
<1>3. loop[c] = l /\ stat[c] \in {"CONNECTED", "DISCONNECTED"} /\ Queued(l, Rel(c))
  BY <1>1 DEF Safe, QueuesOK, Queued, EST
<1>4. /\ stat' = [stat EXCEPT ![c] = "DISCONNECTED"]
      /\ RemoveEvent(l, c)
      /\ open' = open \ {c} /\ armed' = armed \ {<<l, c>>}
      /\ conns' \in {conns, Without(conns, AsInt(c))}
  BY <1>3, ReleaseFacts
<1>5. PICK q \in Seq(Task) : Pushed(Base, q) /\ Range(q) \subseteq {Rem(c)}
  BY ReleaseFacts
<1>6. /\ stat \in [Id -> {"none", "CONNECTING", "CONNECTED", "DISCONNECTED"}]
      /\ functors \subseteq Id /\ open \subseteq Id
      /\ channels \in [Loop -> PartialFcns(Fd, Id)] /\ epoll \in [Loop -> SUBSET Fd]
  BY DEF Types, TypeOK
<1>7. stat'[c] = "DISCONNECTED" /\ \A d \in Id \ {c} : stat'[d] = stat[d]
  BY <1>4, <1>6
<1>8. \A d \in Id : Live(d)' <=> Live(d) /\ d # c
  BY <1>7 DEF Live
<1>9. \A d \in Id : stat[d] = "none" <=> stat'[d] = "none"
  BY <1>3, <1>7
\* Nobody else on this loop has the descriptor.
<1>10. ASSUME ~late, NEW d \in Id, d # c, loop[d] = l,
              stat[d] = "CONNECTED" \/ Est(d) \in Range(Rest(l))
       PROVE  fd[c] # fd[d]
  <2>1. CASE stat[c] = "CONNECTED"
    <3>1. Live(c) /\ Live(d)
      <4>1. Est(d) \in Range(Rest(l)) => stat[d] = "CONNECTING"
        BY DEF Safe, QueuesOK, Pending
      <4> QED BY <1>10, <2>1, <4>1 DEF Live
    <3>2. c \in open /\ d \in open
      BY <3>1 DEF Safe, IdsOK
    <3> QED BY <1>10, <3>2 DEF Safe, IdsOK
  <2>2. CASE stat[c] = "DISCONNECTED"
    BY <1>2, <1>10, <2>2 DEF Safe, ReuseOK
  <2> QED BY <1>3, <2>1, <2>2
<1>11. IdsOK'
  <2>1. /\ \A d \in Id : d \in open' <=> Live(d)'
        /\ \A d \in open' : fd'[d] \in Fd
        /\ \A d, e \in open' : fd'[d] = fd'[e] => d = e
    BY <1>4, <1>8 DEF Safe, IdsOK
  <2>2. /\ \A k \in Id : k > next_id' => stat'[k] = "none"
        /\ \A id \in functors' : stat'[id] = "none" /\ id <= next_id'
    BY <1>6, <1>9 DEF Safe, IdsOK
  <2>3. ASSUME creating' # NoConn
        PROVE  /\ stat'[creating'] # "none"
               /\ \A k \in Id : k > creating' => stat'[k] = "none"
               /\ step' = "establish" => stat'[creating'] = "CONNECTING"
    <3>1. creating \in Id /\ creating' = creating /\ step' = step
      BY <1>1, <2>3 DEF Types, TypeOK
    <3>2. step = "establish" => creating # c
      BY <1>1, <1>3, <2>3 DEF Safe, IdsOK
    <3> QED BY <1>1, <1>7, <1>9, <2>3, <3>1, <3>2 DEF Safe, IdsOK
  <2> QED BY <2>1, <2>2, <2>3 DEF IdsOK
<1>12. TableOK'
  <2>1. creating' = creating /\ next_id' = next_id
    BY <1>1
  <2>2. \A d \in Id : Live(d)' => Live(d) /\ d # c
    BY <1>8
  <2> QED BY <1>4, <1>7, <1>9, <2>1, <2>2, EraseSafe DEF Safe
<1>13. TimersOK'
  <2>1. c \notin functors
    BY <1>3 DEF Safe, IdsOK
  <2>2. FunctorsKept'
    BY <1>4, <2>1 DEF Safe, TimersOK, FunctorsKept
  <2>3. ASSUME NEW m \in Loop, NEW id \in Id, <<m, id>> \in armed'
        PROVE  (m = Base /\ id \in functors') \/ (Live(id)' /\ loop'[id] = m)
    <3>1. <<m, id>> \in armed /\ <<m, id>> # <<l, c>>
      BY <1>4, <2>3
    <3>2. (m = Base /\ id \in functors) \/ (Live(id) /\ loop[id] = m)
      BY <3>1 DEF Safe, TimersOK
    <3>3. loop[id] = m => id # c
      BY <1>3, <3>1
    <3> QED BY <1>8, <3>2, <3>3
  <2> QED BY <2>2, <2>3 DEF TimersOK
<1>14. \A m \in Loop : \A t : t \in Range(tasks'[m]) => t \in Range(tasks[m]) \/ t = Rem(c)
  BY <1>5, Numbers, PushQueues
<1>15. QueuesOK'
  <2>1. \A m \in Loop :
                    \A t : /\ Pending(m, t)' => Pending(m, t) \/ t = Rem(c)
                           /\ Queued(m, t)' => Queued(m, t) \/ t = Rem(c)
    BY <1>1, <1>2, <1>14 DEF Pending, Queued
  <2>2. ASSUME NEW m \in Loop, NEW d \in Id
        PROVE  /\ Pending(m, Reg(d))' => Pending(m, Reg(d))
               /\ Pending(m, Est(d))' => Pending(m, Est(d))
               /\ Queued(m, Rel(d))' => Queued(m, Rel(d))
               /\ Queued(m, Rem(d))' => Queued(m, Rem(d)) \/ d = c
               /\ Pending(m, Shut(d))' => Pending(m, Shut(d))
               /\ Rel(d) \in Range(tasks'[m]) => Rel(d) \in Range(tasks[m])
    BY <1>14, <2>1, TaskNames
  <2>3. ASSUME NEW m \in Loop, NEW d \in Id
        PROVE  /\ Pending(m, Reg(d))' \/ Pending(m, Est(d))' =>
                    /\ stat'[d] = "CONNECTING" /\ loop'[d] = m /\ m # Base
                    /\ ~(creating' = d /\ step' = "establish")
               /\ Queued(m, Rel(d))' => loop'[d] = m /\ stat'[d] \in EST
               /\ Queued(m, Rem(d))' => stat'[d] = "DISCONNECTED"
               /\ Pending(m, Shut(d))' => d \in held' /\ loop'[d] = m
    <3>1. Pending(m, Reg(d)) \/ Pending(m, Est(d)) =>
             /\ d # c /\ stat[d] = "CONNECTING" /\ loop[d] = m /\ m # Base
             /\ ~(creating = d /\ step = "establish")
      BY <1>3 DEF Safe, QueuesOK
    <3>2. /\ Queued(m, Rel(d)) => loop[d] = m /\ stat[d] \in EST
          /\ Queued(m, Rem(d)) => stat[d] = "DISCONNECTED"
          /\ Pending(m, Shut(d)) => d \in held /\ loop[d] = m
      BY DEF Safe, QueuesOK
    <3> QED BY <1>1, <1>7, <2>2, <3>1, <3>2 DEF EST
  <2>4. ASSUME NEW m \in Loop, NEW d \in Id, ~late', Rel(d) \in Range(tasks'[m])
        PROVE  stat'[d] = "CONNECTED" /\ Rel(d) \notin Range(Rest(m)')
    <3>1. Rel(d) \in Range(tasks[m])
      BY <2>2, <2>4
    <3>2. stat[d] = "CONNECTED" /\ Rel(d) \notin Range(Rest(m)) /\ loop[d] = m
      BY <2>4, <3>1 DEF Safe, QueuesOK, Queued
    <3>3. d # c
      BY <1>2, <1>3, <3>2
    <3> QED BY <1>2, <1>7, <3>2, <3>3
  <2> QED BY <2>3, <2>4 DEF QueuesOK
<1>16. SetUpOK'
  <2>1. \A d \in Id : Reg(d) \notin Range(q) /\ Est(d) \notin Range(q)
    BY <1>5, TaskNames
  <2> QED BY <1>5, <2>1, Numbers, RunSetUp DEF Safe
<1>17. ActivesOK'
  <2>1. actives[l] = {}
    BY <1>1 DEF Types, TypeOK
  <2>2. \A m \in Loop : c \notin actives[m]
    BY <1>3, <2>1 DEF Safe, ActivesOK
  <2> QED BY <1>1, <1>7, <2>2 DEF Safe, ActivesOK
<1>18. /\ channels'[l] = Without(channels[l], fd[c])
       /\ \A m \in Loop \ {l} : channels'[m] = channels[m]
       /\ DOMAIN channels'[l] = DOMAIN channels[l] \ {fd[c]}
       /\ \A f \in DOMAIN channels'[l] : channels'[l][f] = channels[l][f]
  <2>1. PICK w : w = Without(channels[l], fd[c])
    OBVIOUS
  <2>2. /\ DOMAIN w = DOMAIN channels[l] \ {fd[c]}
        /\ \A f \in DOMAIN w : w[f] = channels[l][f]
    BY <2>1 DEF Without
  <2>3. channels' = [channels EXCEPT ![l] = w]
    BY <1>4, <2>1 DEF RemoveEvent
  <2> QED BY <1>6, <2>1, <2>2, <2>3
<1>20. EstablishedOK'
  <2>1. \A d \in Id : stat[d] \in EST => stat'[d] \in EST
    BY <1>7 DEF EST
  <2>2. ASSUME NEW m \in Loop, NEW f \in DOMAIN channels[m] PROVE channels[m][f] \in Id
    BY PartialFcn DEF Types, TypeOK
  <2>3. \A m \in Loop : \A f \in DOMAIN channels'[m] :
            f \in DOMAIN channels[m] /\ channels'[m][f] = channels[m][f]
    BY <1>18
  <2>4. held \subseteq Id
    BY DEF Types, TypeOK
  <2> QED BY <2>1, <2>2, <2>3, <2>4 DEF Safe, EstablishedOK
<1>21. WatchesOwnFds'
  <2>1. SUFFICES ASSUME ~late PROVE WatchesOwnFds'
    BY DEF WatchesOwnFds
  <2>2. \A m \in Loop :
            /\ epoll[m] = DOMAIN channels[m]
            /\ \A f \in Fd, d \in Id :
                  f \in epoll[m] /\ channels[m][f] = d
                    <=> stat[d] = "CONNECTED" /\ d \in open /\ fd[d] = f /\ loop[d] = m
    BY <2>1 DEF Safe, WatchesOwnFds
\* No other loop watches the descriptor when the connection has it.
  <2>3. ASSUME NEW m \in Loop \ {l}, c \in open PROVE fd[c] \notin epoll[m]
    <3>1. SUFFICES ASSUME fd[c] \in epoll[m] PROVE FALSE
      OBVIOUS
    <3>2. channels[m] \in [DOMAIN channels[m] -> Id] /\ fd[c] \in Fd
      BY <1>6, <3>1, PartialFcn
    <3>3. PICK d \in Id : channels[m][fd[c]] = d
      BY <2>2, <3>1, <3>2
    <3>4. d \in open /\ fd[d] = fd[c] /\ loop[d] = m
      BY <2>2, <3>1, <3>2, <3>3
    <3> QED BY <1>3, <2>3, <3>4 DEF Safe, IdsOK
  <2>4. \A m \in Loop \ {l} : epoll'[m] = epoll[m]
    BY <2>3, <1>4 DEF RemoveEvent
  <2>5. epoll'[l] = epoll[l] \ {fd[c]}
    BY <1>4, <2>2 DEF RemoveEvent
  <2>6. \A m \in Loop : epoll'[m] = DOMAIN channels'[m]
    BY <1>18, <2>2, <2>4, <2>5
  <2>7. ASSUME NEW m \in Loop, NEW f \in Fd, NEW d \in Id
        PROVE  f \in epoll'[m] /\ channels'[m][f] = d
                  <=> stat'[d] = "CONNECTED" /\ d \in open' /\ fd'[d] = f /\ loop'[d] = m
    <3>1. f \in epoll[m] /\ channels[m][f] = d
                  <=> stat[d] = "CONNECTED" /\ d \in open /\ fd[d] = f /\ loop[d] = m
      BY <2>2
    <3>2. stat'[d] = "CONNECTED" /\ d \in open' <=> stat[d] = "CONNECTED" /\ d \in open /\ d # c
      BY <1>4, <1>7
    <3>3. CASE m # l
      <4>1. f \in epoll'[m] /\ channels'[m][f] = d <=> f \in epoll[m] /\ channels[m][f] = d
        BY <1>18, <2>4, <3>3
      <4> QED BY <1>3, <3>1, <3>2, <3>3, <4>1
    <3>4. CASE m = l /\ f # fd[c]
      <4>1. f \in epoll'[m] /\ channels'[m][f] = d <=> f \in epoll[m] /\ channels[m][f] = d
        BY <1>18, <2>2, <2>5, <3>4
      <4> QED BY <3>1, <3>2, <3>4, <4>1
    <3>5. CASE m = l /\ f = fd[c]
      <4>1. f \notin epoll'[m]
        BY <2>5, <3>5
      <4>2. ~(stat[d] = "CONNECTED" /\ d # c /\ fd[d] = f /\ loop[d] = m)
        BY <1>10, <2>1, <3>5
      <4> QED BY <3>2, <4>1, <4>2
    <3> QED BY <3>3, <3>4, <3>5
  <2> QED BY <2>6, <2>7 DEF WatchesOwnFds
<1>19. ReuseOK'
  <2>1. ASSUME ~late', NEW m \in Loop, NEW d \in Id, NEW e \in Id,
               stat'[d] = "DISCONNECTED", Rel(d) \in Range(Rest(m)'),
               stat'[e] = "CONNECTED" \/ Est(e) \in Range(Rest(m)'), loop'[e] = m
        PROVE  fd'[d] # fd'[e]
    <3>1. Rel(d) \in Range(Rest(m)) /\ loop[d] = m
      <4>1. Rel(d) \in Range(Rest(m))
        BY <1>2, <2>1
      <4> QED BY <4>1, PendingQueued DEF Safe, QueuesOK, Pending
    <3>2. e # c /\ (stat[e] = "CONNECTED" \/ Est(e) \in Range(Rest(m)))
      <4>1. Est(e) \in Range(Rest(m)) => stat[e] = "CONNECTING"
        BY DEF Safe, QueuesOK, Pending
      <4> QED BY <1>2, <1>3, <1>7, <2>1, <4>1
    <3>3. CASE d = c
      BY <1>3, <1>10, <2>1, <3>1, <3>2, <3>3
    <3>4. CASE d # c
      BY <1>7, <2>1, <3>1, <3>2, <3>4 DEF Safe, ReuseOK
    <3> QED BY <3>3, <3>4
  <2> QED BY <2>1 DEF ReuseOK
<1> QED BY <1>11, <1>12, <1>13, <1>15, <1>16, <1>17, <1>19, <1>20, <1>21 DEF Safe

\* ShutDown of another thread: as long as it finds the connection established
\* it changes nothing in the Poller.
LEMMA RunShutDownSafe ==
    ASSUME Types, Types', Safe, NEW l \in Loop, RunTask(l), NEW c \in Id,
           batch[l][done[l] + 1] = Shut(c), ShutDownInLoop(c),
           UNCHANGED <<conns, connVars, timerVars, held>>
    PROVE  Safe'
<1>1. /\ UNCHANGED <<batch, creating, step, actives>>
      /\ UNCHANGED <<conns, fd, loop, stat, open, next_id, armed, functors, held>>
  BY RunTaskCases DEF newVars, connVars, timerVars
<1>2. /\ Shut(c) \in Range(Rest(l))
      /\ \A m \in Loop : Range(Rest(m)') \subseteq Range(Rest(m))
  BY RunQueues
<1>3. loop[c] = l /\ c \in held /\ stat[c] \in EST
  BY <1>2 DEF Safe, QueuesOK, EstablishedOK, Pending
<1>4. fd[c] \in Fd
  BY <1>3 DEF Types, HasFd
<1>5. /\ UNCHANGED pollerVars \/ UpdateEvent(l, c)
      /\ late => late'
      /\ (~late' /\ stat[c] = "DISCONNECTED") => UNCHANGED pollerVars
  BY <1>3, <1>4, ShutDownFacts
<1>6. PICK q \in Seq(Task) :
        /\ Pushed(l, q) /\ Range(q) \subseteq {Rel(c)}
        /\ ~late' /\ Ending(c) => q = <<>>
  BY <1>3, <1>4, ShutDownFacts
<1>7. \A d \in Id : /\ Reg(d) \notin Range(q) /\ Est(d) \notin Range(q)
                    /\ Rem(d) \notin Range(q) /\ Shut(d) \notin Range(q)
                    /\ Rel(d) \in Range(q) => d = c
  BY <1>6, TaskNames
<1>8. \A m \in Loop : \A t : t \in Range(tasks'[m]) <=>
            t \in Range(tasks[m]) \/ (m = l /\ t \in Range(q))
  BY <1>6, PushQueues
<1>9. \A m \in Loop : \A t :
            /\ Pending(m, t)' => Pending(m, t) \/ (m = l /\ t \in Range(q))
            /\ Queued(m, t)' => Queued(m, t) \/ (m = l /\ t \in Range(q))
  BY <1>1, <1>2, <1>8 DEF Pending, Queued
<1>10. QueuesOK'
  <2>1. ASSUME NEW m \in Loop, NEW d \in Id
        PROVE  /\ Pending(m, Reg(d))' => Pending(m, Reg(d))
               /\ Pending(m, Est(d))' => Pending(m, Est(d))
               /\ Pending(m, Shut(d))' => Pending(m, Shut(d))
               /\ Queued(m, Rem(d))' => Queued(m, Rem(d))
               /\ Queued(m, Rel(d))' => Queued(m, Rel(d)) \/ (m = l /\ d = c)
    BY <1>7, <1>9
  <2>2. ASSUME NEW m \in Loop, NEW d \in Id
        PROVE  /\ Pending(m, Reg(d))' \/ Pending(m, Est(d))' =>
                    /\ stat'[d] = "CONNECTING" /\ loop'[d] = m /\ m # Base
                    /\ ~(creating' = d /\ step' = "establish")
               /\ Queued(m, Rel(d))' => loop'[d] = m /\ stat'[d] \in EST
               /\ Queued(m, Rem(d))' => stat'[d] = "DISCONNECTED"
               /\ Pending(m, Shut(d))' => d \in held' /\ loop'[d] = m
    BY <1>1, <1>3, <2>1 DEF Safe, QueuesOK
  <2>3. ASSUME NEW m \in Loop, NEW d \in Id, ~late', Rel(d) \in Range(tasks'[m])
        PROVE  stat'[d] = "CONNECTED" /\ Rel(d) \notin Range(Rest(m)')
    <3>1. CASE Rel(d) \in Range(tasks[m])
      BY <1>1, <1>2, <1>5, <2>3, <3>1 DEF Safe, QueuesOK
    <3>2. CASE m = l /\ d = c /\ q # <<>>
      <4>1. ~Ending(c)
        BY <1>6, <2>3, <3>2
      <4>2. stat[c] = "CONNECTED" /\ Rel(c) \notin Range(Rest(l))
        BY <1>3, <4>1, NotEnding
      <4> QED BY <1>1, <1>2, <3>2, <4>2
    <3> QED BY <1>7, <1>8, <2>3, <3>1, <3>2, EmptyRange
  <2> QED BY <2>2, <2>3 DEF QueuesOK
<1>11. SetUpOK'
  BY <1>6, <1>7, RunSetUp DEF Safe
<1>12. IdsOK' /\ TableOK' /\ TimersOK'
  BY <1>1, NoWrapIsConstant DEF Safe, IdsOK, TableOK, TimersOK, FunctorsKept, Live
<1>13. EstablishedOK'
  <2>1. EstablishedOK
    BY DEF Safe
  <2>2. stat'[c] \in EST /\ (\A d \in Id \ {c} : stat'[d] = stat[d]) /\ loop' = loop
    BY <1>1, <1>3
  <2>3. held' \subseteq held \cup {c}
    BY <1>1
  <2> QED BY <1>3, <1>4, <1>5, <2>1, <2>2, <2>3, UpdateEventKeeps
<1>14. ActivesOK'
  BY <1>1, <1>5 DEF Safe, ActivesOK
<1>15. ReuseOK'
  BY <1>1, <1>2, <1>5 DEF Safe, ReuseOK
<1>16. WatchesOwnFds'
  <2>1. SUFFICES ASSUME ~late' PROVE WatchesOwnFds'
    BY DEF WatchesOwnFds
  <2>2. \A m \in Loop :
            /\ epoll[m] = DOMAIN channels[m]
            /\ \A f \in Fd, d \in Id :
                  f \in epoll[m] /\ channels[m][f] = d
                    <=> stat[d] = "CONNECTED" /\ d \in open /\ fd[d] = f /\ loop[d] = m
    BY <1>5, <2>1 DEF Safe, WatchesOwnFds
  <2>3. UNCHANGED <<channels, epoll>>
    <3>1. CASE stat[c] = "DISCONNECTED"
      BY <1>5, <2>1, <3>1 DEF pollerVars
    <3>2. CASE stat[c] = "CONNECTED"
      <4>1. c \in open
        BY <3>2 DEF Safe, IdsOK, Live
      <4>2. fd[c] \in DOMAIN channels[l]
        BY <1>3, <1>4, <2>2, <3>2, <4>1
      <4> QED BY <1>5, <4>2 DEF UpdateEvent, pollerVars
    <3> QED BY <1>3, <3>1, <3>2 DEF EST
  <2> QED BY <1>1, <2>2, <2>3 DEF WatchesOwnFds
<1> QED BY <1>10, <1>11, <1>12, <1>13, <1>14, <1>15, <1>16 DEF Safe

LEMMA RunTaskSafe == \A l \in Loop : Types /\ Types' /\ Safe /\ RunTask(l) => Safe'
<1> SUFFICES ASSUME NEW l \in Loop, Types, Types', Safe, RunTask(l) PROVE Safe'
  OBVIOUS
<1>1. /\ UNCHANGED <<creating, step, batch>>
      /\ batch[l][done[l] + 1] \in Range(batch[l])
  BY RunTaskCases DEF newVars
<1>2. CASE RunAfterInLoop /\ UNCHANGED <<conns, connVars, pollerVars, tasks, held, late>>
  <2>1. UNCHANGED <<conns, fd, loop, stat, open, channels, epoll, tasks, held, late>>
    BY <1>2 DEF connVars, pollerVars
  <2>2. IdsOK' /\ TableOK' /\ TimersOK'
    BY <1>1, <1>2, <2>1, RunAfterInLoopSafe DEF Safe
  <2>3. QueuesOK' /\ SetUpOK' /\ ReuseOK' /\ ActivesOK' /\ WatchesOwnFds' /\ EstablishedOK'
    BY <2>1, RunTaskQueues
  <2> QED BY <2>2, <2>3 DEF Safe
<1>3. ASSUME NEW c \in Id, batch[l][done[l] + 1] = Reg(c), RegisterInactiveReleaseInLoop(c),
             UNCHANGED <<next_id, conns, connVars, functors, pollerVars, tasks, held, late>>
      PROVE  Safe'
  <2>1. /\ UNCHANGED <<next_id, conns, fd, loop, stat, open, functors, channels, epoll, tasks,
                       held, late>>
        /\ armed' = armed \cup {<<loop[c], c>>}
    BY <1>3 DEF connVars, pollerVars, RegisterInactiveReleaseInLoop
  <2>2. stat[c] = "CONNECTING"
    <3>1. Reg(c) \in Range(Rest(l))
      BY <1>3, RunQueues
    <3> QED BY <3>1 DEF Safe, QueuesOK, Pending
  <2>3. IdsOK' /\ TableOK'
    BY <1>1, <2>1, NoWrapIsConstant DEF Safe, IdsOK, TableOK, Live
  <2>4. TimersOK'
    <3>1. FunctorsKept'
      BY <2>1 DEF Safe, TimersOK, FunctorsKept
    <3>2. ASSUME NEW m \in Loop, NEW id \in Id, <<m, id>> \in armed'
          PROVE  (m = Base /\ id \in functors') \/ (Live(id)' /\ loop'[id] = m)
      <4>1. <<m, id>> \in armed \/ (m = loop[c] /\ id = c)
        BY <2>1, <3>2
      <4> QED BY <2>1, <2>2, <4>1 DEF Safe, TimersOK, Live
    <3> QED BY <3>1, <3>2 DEF TimersOK
  <2>5. QueuesOK' /\ SetUpOK' /\ ReuseOK' /\ ActivesOK' /\ WatchesOwnFds' /\ EstablishedOK'
    BY <2>1, RunTaskQueues
  <2> QED BY <2>3, <2>4, <2>5 DEF Safe
<1>4. ASSUME NEW c \in Id, batch[l][done[l] + 1] = Rem(c), RemoveConnectionInLoop(c),
             UNCHANGED <<connVars, timerVars, pollerVars, tasks, held, late>>
      PROVE  Safe'
  <2>1. /\ UNCHANGED <<next_id, armed, fd, loop, stat, open, functors, channels, epoll, tasks,
                       held, late>>
        /\ conns' \in {conns, Without(conns, AsInt(c))}
    BY <1>4 DEF connVars, timerVars, pollerVars, RemoveConnectionInLoop
  <2>2. stat[c] = "DISCONNECTED"
    BY <1>1, <1>4 DEF Safe, QueuesOK, Queued
  <2>3. \A d \in Id : Live(d)' => Live(d) /\ d # c
    BY <2>1, <2>2 DEF Live
  <2>4. IdsOK' /\ TimersOK'
    BY <1>1, <2>1 DEF Safe, IdsOK, TimersOK, FunctorsKept, Live
  <2>5. TableOK'
    BY <1>1, <2>1, <2>2, <2>3, EraseSafe DEF Safe
  <2>6. QueuesOK' /\ SetUpOK' /\ ReuseOK' /\ ActivesOK' /\ WatchesOwnFds' /\ EstablishedOK'
    BY <2>1, RunTaskQueues
  <2> QED BY <2>4, <2>5, <2>6 DEF Safe
<1> QED BY <1>2, <1>3, <1>4, RunTaskCases, RunEstablishedSafe, RunReleaseSafe,
   RunShutDownSafe

\* Calls of other threads.
LEMMA CallSafe == Types /\ Types' /\ Safe /\ Call => Safe'
<1> SUFFICES ASSUME Types, Types', Safe, Call PROVE Safe'
  OBVIOUS
<1>1. UNCHANGED <<creating, step, conns, fd, loop, stat, open, next_id, armed, functors,
                  channels, epoll, actives, batch, done, held>>
  BY CallCases DEF newVars, connVars, timerVars, pollerVars, loopVars
<1>2. PICK c \in held :
        /\ c \in Id /\ loop[c] \in Loop
        /\ \/ Pushed(loop[c], <<Shut(c)>>) /\ late' = late
           \/ Pushed(loop[c], <<Rel(c)>>) /\ late' = (late \/ Ending(c))
  BY CallCases
<1>3. stat[c] \in EST
  BY DEF Safe, EstablishedOK
<1>4. PICK t \in {Shut(c), Rel(c)} :
        /\ Pushed(loop[c], <<t>>) /\ (~late' => ~late)
        /\ ~late' /\ t = Rel(c) => ~Ending(c)
  <2>1. CASE Pushed(loop[c], <<Shut(c)>>) /\ late' = late
    BY <2>1, <1>2, TaskNames
  <2>2. CASE Pushed(loop[c], <<Rel(c)>>) /\ late' = (late \/ Ending(c))
    <3>1. (~late' => ~late) /\ (~late' => ~Ending(c))
      BY <2>2
    <3> QED BY <2>2, <3>1
  <2> QED BY <1>2, <2>1, <2>2
<1>5. <<t>> \in Seq(Task) /\ Range(<<t>>) = {t}
  <2>1. t \in Task
    BY <1>2, TaskNames
  <2> QED BY <2>1 DEF Range
<1>6. \A d \in Id : /\ Reg(d) # t /\ Est(d) # t /\ Rem(d) # t
                    /\ (Rel(d) = t => d = c) /\ (Shut(d) = t => d = c)
  BY <1>2, TaskNames
<1>7. \A d \in Id : /\ Reg(d) \notin Range(<<t>>) /\ Est(d) \notin Range(<<t>>)
                    /\ Rem(d) \notin Range(<<t>>)
                    /\ Rel(d) \in Range(<<t>>) =>
                          /\ loop[d] = loop[c] /\ stat[d] \in EST
                          /\ ~late' => stat[d] = "CONNECTED" /\ Rel(d) \notin Range(Rest(loop[c]))
                    /\ Shut(d) \in Range(<<t>>) => d \in held /\ loop[d] = loop[c]
  BY <1>3, <1>4, <1>5, <1>6, NotEnding
<1>8. QueuesOK'
  <2>1. UNCHANGED <<batch, done, stat, loop, held, creating, step>>
    BY <1>1
  <2> QED BY <1>2, <1>4, <1>5, <1>7, <2>1, HandlerQueues DEF Safe
<1>9. SetUpOK'
  <2>1. SetUpOnce(<<t>>)
    BY <1>5, <1>7, SetUpAlone
  <2> QED BY <1>1, <1>2, <1>4, <1>5, <1>7, <2>1, HandlerSetUp DEF Safe
<1>10. IdsOK' /\ EstablishedOK' /\ TableOK' /\ TimersOK'
  BY <1>1, NoWrapIsConstant DEF Safe, IdsOK, EstablishedOK, TableOK, TimersOK, FunctorsKept, Live
<1>11. ActivesOK' /\ WatchesOwnFds' /\ ReuseOK'
  BY <1>1, <1>4 DEF Safe, ActivesOK, WatchesOwnFds, ReuseOK, Rest
<1> QED BY <1>8, <1>9, <1>10, <1>11 DEF Safe

\* A pointer is dropped when no task needs it.
LEMMA DropSafe == \A c \in Id : Types /\ Types' /\ Safe /\ Drop(c) => Safe'
<1> SUFFICES ASSUME NEW c \in Id, Types, Types', Safe, Drop(c) PROVE Safe'
  OBVIOUS
<1>1. /\ held' = held \ {c}
      /\ UNCHANGED <<creating, step, conns, fd, loop, stat, open, next_id, armed, functors,
                     channels, epoll, actives, batch, done, tasks, late>>
  BY DEF Drop, newVars, connVars, timerVars, pollerVars, loopVars
<1>2. \A l \in Loop : ~Pending(l, Shut(c))
  <2>1. ~Pending(loop[c], Shut(c))
    <3>1. loop[c] \in Loop
      BY Numbers DEF Types, TypeOK
    <3>2. Rest(loop[c]) \in Seq(Task) /\ tasks[loop[c]] \in Seq(Task)
      BY <3>1, QueueTypes
    <3>3. Shut(c) \notin Range(Rest(loop[c]) \o tasks[loop[c]])
      BY DEF Drop, ToDo, Shut
    <3> QED BY <3>2, <3>3, RangeConcat DEF Pending
  <2> QED BY <2>1 DEF Safe, QueuesOK
<1>3. QueuesOK'
  <2>1. \A l \in Loop : Rest(l)' = Rest(l)
    BY <1>1 DEF Rest
  <2>2. \A l \in Loop : \A t : (Pending(l, t)' <=> Pending(l, t)) /\ (Queued(l, t)' <=> Queued(l, t))
    BY <1>1, <2>1 DEF Pending, Queued
  <2>3. \A l \in Loop, d \in Id : Pending(l, Shut(d))' => d \in held' /\ loop'[d] = l
    BY <1>1, <1>2, <2>2 DEF Safe, QueuesOK
  <2>4. \A l \in Loop : tasks'[l] = tasks[l]
    BY <1>1
  <2> QED BY <1>1, <2>1, <2>2, <2>3, <2>4 DEF Safe, QueuesOK
<1>4. IdsOK' /\ EstablishedOK' /\ TableOK' /\ TimersOK'
  BY <1>1, NoWrapIsConstant DEF Safe, IdsOK, EstablishedOK, TableOK, TimersOK, FunctorsKept, Live
<1>5. SetUpOK' /\ ActivesOK' /\ WatchesOwnFds' /\ ReuseOK'
  BY <1>1 DEF Safe, SetUpOK, ActivesOK, WatchesOwnFds, ReuseOK, Rest
<1> QED BY <1>3, <1>4, <1>5 DEF Safe

LEMMA StartSafe == \A l \in Loop : Types /\ Types' /\ Safe /\ Start(l) => Safe'
BY PollSafe, StutterSafe, OntimeSafe, SwapTasksSafe, RunTaskSafe, EndOfBatchSafe,
   HandleEventSafe, HandleReadSafe, EstablishedSafe, InsertSafe
   DEF Start, NewConnection, IdleTick

\* The inductive invariant.
LEMMA Invariant == Spec => [](Types /\ Safe)
<1>1. Init => Types /\ Safe
  BY InitTypes, InitSafe
<1>2. Types /\ Safe /\ [Next]_vars => (Types /\ Safe)'
  BY NextTypes, StartSafe, RunAfterSafe, CallSafe, DropSafe, StutterSafe DEF Next
<1> QED BY <1>1, <1>2, PTL DEF Spec

-----------------------------------------------------------------------------
\* However descriptor numbers are reused and Releases repeated, each Poller
\* watches exactly the descriptors of its loop's established connections, until
\* a Release is queued for a connection that is Ending, or a ShutDown subscribes
\* a released one.
THEOREM AlwaysWatchesOwnFds == Spec => []WatchesOwnFds
<1>1. Types /\ Safe => WatchesOwnFds
  BY DEF Safe
<1> QED BY <1>1, Invariant, PTL

\* Nobody holds a connection but the loops, and a loop's handlers run when its
\* batch is done.
Own == Types /\ Safe /\ held = {} /\ ~late

\* A batch is no connection's end while its loop dispatches.
LEMMA DispatchingEndsNone ==
    ASSUME Own, NEW l \in Loop, NEW c \in Id, HandleEvent(l, c)
    PROVE  ~Ending(c)
<1>1. pc[l] = "dispatch" /\ c \in actives[l]
  BY DEF HandleEvent, Dispatch, Dispatching
<1>2. stat[c] = "CONNECTED" /\ loop[c] = l
  BY <1>1 DEF Own, Safe, ActivesOK
<1>3. Rest(l) = <<>>
  BY <1>1, QueueTypes DEF Own
<1> QED BY <1>2, <1>3, EmptyRange DEF Ending

LEMMA OwnRunTask ==
    ASSUME CallThreads = {}, Own, NEW l \in Loop, RunTask(l)
    PROVE  held' = {} /\ ~late'
<1>1. ASSUME NEW c \in Id PROVE batch[l][done[l] + 1] # Shut(c)
  <2>1. ~Pending(l, Shut(c))
    BY DEF Own, Safe, QueuesOK
  <2>2. \A t : t = batch[l][done[l] + 1] => t \in Range(Rest(l))
    BY RunQueues DEF Own
  <2> QED BY <2>1, <2>2 DEF Pending
<1>2. ASSUME NEW c \in Id, EstablishInLoop(c) PROVE held' = held
  BY <1>2, EstablishFacts DEF Own
<1>3. held' = held /\ late' = late
  BY <1>1, <1>2, RunTaskCases DEF Own
<1> QED BY <1>3 DEF Own

\* The callbacks of a connection never act on one that is Ending: while they
\* give none to other threads each Poller finds the channels of its established
\* connections, with no excuse, although callbacks may queue Release any number
\* of times.
THEOREM OwnCallbacksAreNeverLate ==
    ASSUME CallThreads = {}
    PROVE  Spec => [](~late /\ TranslatesReadyFds)
<1>1. Init => Own
  BY InitTypes, InitSafe DEF Init, Own
<1>2. ASSUME Own, [Next]_vars PROVE Own'
  <2>1. Types' /\ Safe'
    BY <1>2, NextTypes, StartSafe, RunAfterSafe, CallSafe, DropSafe, StutterSafe DEF Next, Own
  <2>2. held' = {} /\ ~late'
    <3>1. CASE UNCHANGED vars
      BY <1>2, <3>1 DEF vars, envVars, Own
    <3>2. CASE RunAfter
      BY <1>2, <3>2 DEF RunAfter, Own
    <3>3. CASE Call
      BY <1>2, <3>3 DEF Call, Own
    <3>4. ASSUME NEW c \in Id, Drop(c) PROVE FALSE
      BY <1>2, <3>4 DEF Drop, Own
    <3>5. ASSUME NEW l \in Loop, Poll(l) \/ Ontime(l) \/ SwapTasks(l) \/ EndOfBatch(l)
          PROVE  held' = held /\ late' = late
      BY <3>5, OntimeCases DEF Poll, SwapTasks, EndOfBatch, envVars
    <3>6. ASSUME NEW l \in Loop, RunTask(l) PROVE held' = {} /\ ~late'
      BY <1>2, <3>6, OwnRunTask
    <3>7. ASSUME NEW l \in Loop, NEW c \in Id, HandleEvent(l, c) PROVE held' = {} /\ ~late'
      <4>1. ~Ending(c)
        BY <1>2, <3>7, DispatchingEndsNone
      <4>2. held' = held /\ late' = (late \/ Ending(c))
        BY <3>7 DEF HandleEvent, envVars
      <4> QED BY <1>2, <4>1, <4>2 DEF Own
    <3>8. ASSUME HandleRead \/ Insert PROVE held' = held /\ late' = late
      BY <3>8 DEF HandleRead, Insert, envVars
    <3>9. ASSUME Established PROVE held' = held /\ late' = late
      <4>1. ASSUME EstablishInLoop(creating), creating \in Id PROVE held' = held
        BY <1>2, <4>1, EstablishFacts DEF Own
      <4> QED BY <1>2, <3>9, <4>1, EstablishedCases DEF Own
    <3>10. ASSUME NEW l \in Loop, Start(l) PROVE held' = {} /\ ~late'
      BY <1>2, <3>1, <3>5, <3>6, <3>7, <3>8, <3>9, <3>10 DEF Start, NewConnection, IdleTick, Own
    <3> QED BY <1>2, <3>1, <3>2, <3>3, <3>4, <3>10 DEF Next
  <2> QED BY <2>1, <2>2 DEF Own
<1>3. Own => ~late /\ TranslatesReadyFds
  <2>1. SUFFICES ASSUME Own PROVE TranslatesReadyFds
    BY DEF Own
  <2>2. \A c \in open : c \in Id
    BY <2>1 DEF Own, Types, TypeOK
  <2>3. \A c \in Id : c \in held \/ stat[c] = "CONNECTED" => loop[c] \in Loop
    BY <2>1, Numbers DEF Own, Types, TypeOK
  <2>4. ASSUME NEW c \in open, stat[c] = "CONNECTED"
        PROVE  fd[c] \in epoll[loop[c]] /\ channels[loop[c]][fd[c]] = c
    <3>1. fd[c] \in Fd
      BY <2>1, <2>4 DEF Own, Safe, IdsOK
    <3> QED BY <2>1, <2>2, <2>3, <2>4, <3>1 DEF Own, Safe, WatchesOwnFds
  <2> QED BY <2>4 DEF TranslatesReadyFds
<1> QED BY <1>1, <1>2, <1>3, PTL DEF Spec

\* No connection cancels a function given to RunAfter by its id.
THEOREM FunctorsAlwaysKept == Spec => []FunctorsKept
<1>1. Types /\ Safe => FunctorsKept
  BY DEF Safe, TimersOK
<1> QED BY <1>1, Invariant, PTL

\* The table keeps what is served, as long as no id that was cut off to an
\* int is another's.
THEOREM OpenIsAlwaysKnown == ASSUME NoWrap PROVE Spec => []OpenIsKnown
<1>1. Types /\ Safe => OpenIsKnown
  BY DEF Types, TypeOK, Safe, IdsOK, TableOK, OpenIsKnown
<1> QED BY <1>1, Invariant, PTL

\* What lives is held, unless an id that was cut off is another's.
LEMMA LiveIsAlive ==
    ASSUME NoWrap, TableOK
    PROVE  \A c \in Id : Live(c) => Alive(c)
BY DEF TableOK, Alive

\* What has a raw pointer to it is alive: it is established or about to be, the
\* same queue has a task that refers to it, or another thread waits for the task.
THEOREM NeverDangling == ASSUME NoWrap PROVE Spec => []NoDanglingPointers
<1>1. ASSUME Types, Safe PROVE NoDanglingPointers
  <2>1. \A c \in Id : Live(c) => Alive(c)
    BY <1>1, LiveIsAlive DEF Safe
  <2>2. ASSUME NEW l \in Loop, NEW c \in Id, Queued(l, Rel(c)) \/ Queued(l, Rem(c))
        PROVE  Alive(c)
    BY <2>2 DEF Queued, Alive, HeldByTask, Rel, Rem
  <2>3. ASSUME NEW l \in Loop, NEW t \in Range(ToDo(l))
        PROVE  t[1] = "RunAfter" \/ Alive(t[2])
    <3>1. tasks[l] \in Seq(Task) /\ Rest(l) \in Seq(Task) /\ batch[l] \in Seq(Task)
      BY <1>1, QueueTypes
    <3>2. ToDo(l) = Rest(l) \o tasks[l]
      BY DEF ToDo
    <3>3. Pending(l, t)
      BY <2>3, <3>1, <3>2, RangeConcat DEF Pending
    <3>4. Queued(l, t)
      BY <1>1, <3>3, PendingQueued
    <3>5. t \in Task
      <4>1. \A i \in DOMAIN batch[l] : batch[l][i] \in Task
        BY <3>1, ElementOfSeq, LenProperties
      <4>2. \A i \in DOMAIN tasks[l] : tasks[l][i] \in Task
        BY <3>1, ElementOfSeq, LenProperties
      <4> QED BY <3>4, <4>1, <4>2 DEF Queued, Range
    <3>6. CASE t = After
      BY <3>6 DEF After
    <3>7. ASSUME NEW c \in Id, t \in {Reg(c), Est(c), Rel(c), Rem(c), Shut(c)}
          PROVE  t[2] = c /\ Alive(c)
      <4>1. t[2] = c
        BY <3>7 DEF Reg, Est, Rel, Rem, Shut
      <4>2. CASE t \in {Reg(c), Est(c)}
        BY <1>1, <2>1, <3>3, <4>1, <4>2 DEF Safe, QueuesOK, Live
      <4>3. CASE t \in {Rel(c), Rem(c)}
        BY <2>2, <3>4, <4>1, <4>3
      <4>4. CASE t = Shut(c)
        <5>1. c \in held
          BY <1>1, <3>3, <4>4 DEF Safe, QueuesOK
        <5> QED BY <4>1, <5>1 DEF Alive
      <4> QED BY <3>7, <4>2, <4>3, <4>4
    <3> QED BY <3>5, <3>6, <3>7, TaskNames
  <2>4. ASSUME ~late, NEW l \in Loop, NEW c \in actives[l] \ {Timer, Acceptor}
        PROVE  Alive(c)
    BY <1>1, <2>1, <2>4 DEF Types, TypeOK, Safe, ActivesOK, Live
  <2>5. ASSUME NEW t \in armed PROVE t[2] \in functors \/ Alive(t[2])
    <3>1. PICK l \in 0..cnt, id \in Id : t = <<l, id>>
      BY <1>1 DEF Types, TypeOK
    <3>2. l \in Loop
      BY <1>1, Numbers DEF Types, TypeOK
    <3>3. id \in functors \/ Alive(id)
      BY <1>1, <2>1, <2>5, <3>1, <3>2 DEF Safe, TimersOK
    <3> QED BY <3>1, <3>3
  <2> QED BY <2>3, <2>4, <2>5 DEF NoDanglingPointers
<1> QED BY <1>1, Invariant, PTL

-----------------------------------------------------------------------------
(***************************************************************************)
(* The lives of the connections.                                           *)
(***************************************************************************)
\* Who holds a connection.
LEMMA AliveIs ==
    ASSUME NEW c \in Id
    PROVE  Alive(c) <=> \/ creating = c \/ c \in Range(conns) \/ c \in held
                        \/ \E l \in Loop : Queued(l, Rel(c)) \/ Queued(l, Rem(c))
BY DEF Alive, HeldByTask, Queued, Rel, Rem

LEMMA AliveNextIs ==
    ASSUME NEW c \in Id
    PROVE  Alive(c)' <=> \/ creating' = c \/ c \in Range(conns') \/ c \in held'
                         \/ \E l \in Loop : Queued(l, Rel(c))' \/ Queued(l, Rem(c))'
BY DEF Alive, HeldByTask, Queued, Rel, Rem

\* A released connection gets no new reference once nobody has one.
Ages == \A d \in Id : stat[d] = "DISCONNECTED" /\ Alive(d)' => Alive(d)

\* The released connections that live go on living.
Keeps == \A d \in Id : stat[d] = "DISCONNECTED" /\ Alive(d) => Alive(d)'

\* A connection advances.
Advances(c, from, to) == stat[c] = from /\ stat' = [stat EXCEPT ![c] = to] /\ Alive(c)'

\* What a step does to the lives.
Lives ==
    /\ Ages
    /\ \/ stat' = stat
       \/ /\ Keeps
          /\ \E c \in Id : \/ Advances(c, "none", "CONNECTING")
                           \/ Advances(c, "CONNECTING", "CONNECTED")
                           \/ Advances(c, "CONNECTED", "DISCONNECTED")

\* A handler or another thread pushes tasks of connections that are not
\* destroyed, or gives one that is not released to other threads.
LEMMA PushAges ==
    ASSUME Types, NEW l \in Loop, NEW q \in Seq(Task), Pushed(l, q),
           UNCHANGED <<creating, conns, batch>>, held \subseteq held',
           \A c \in Id : c \in held' => c \in held \/ stat[c] # "DISCONNECTED",
           \A c \in Id : Rel(c) \in Range(q) \/ Rem(c) \in Range(q) =>
                              stat[c] # "DISCONNECTED" \/ Alive(c)
    PROVE  Ages /\ Keeps
<1>1. \A m \in Loop : \A t : Queued(m, t)' <=> Queued(m, t) \/ (m = l /\ t \in Range(q))
  BY PushQueues DEF Queued
<1>2. ASSUME NEW c \in Id, Alive(c) PROVE Alive(c)'
  BY <1>1, <1>2, AliveIs, AliveNextIs
<1>3. ASSUME NEW c \in Id, stat[c] = "DISCONNECTED", Alive(c)' PROVE Alive(c)
  <2>1. \/ creating = c \/ c \in Range(conns) \/ c \in held
        \/ \E m \in Loop : Queued(m, Rel(c)) \/ Queued(m, Rem(c))
        \/ Rel(c) \in Range(q) \/ Rem(c) \in Range(q)
    BY <1>1, <1>3, AliveNextIs
  <2> QED BY <1>3, <2>1, AliveIs
<1> QED BY <1>2, <1>3 DEF Ages, Keeps

\* Nothing is pushed.
LEMMA QuietAges ==
    ASSUME UNCHANGED <<creating, conns, batch, tasks, held>>
    PROVE  Ages /\ Keeps
BY DEF Ages, Keeps, Alive, HeldByTask

LEMMA RunAfterLives == Types /\ RunAfter => Lives
<1> SUFFICES ASSUME Types, RunAfter PROVE Lives
  OBVIOUS
<1>1. UNCHANGED <<creating, conns, batch, stat, held>>
  BY DEF RunAfter, newVars, connVars, loopVars
<1>2. CASE tasks' = tasks
  BY <1>1, <1>2, QuietAges DEF Lives
<1>3. CASE Push(Base, <<"RunAfter", NoConn>>)
  <2>1. tasks \in [Loop -> Seq(Task)]
    BY DEF Types, TypeOK
  <2>2. /\ Pushed(Base, <<After>>) /\ <<After>> \in Seq(Task)
        /\ \A u : u \in Range(<<After>>) <=> u = After
    BY <1>3, <2>1, Numbers, TaskNames, PushOne DEF After
  <2>3. \A c \in Id : Rel(c) \notin Range(<<After>>) /\ Rem(c) \notin Range(<<After>>)
    BY <2>2, TaskNames
  <2>4. Ages
    BY <1>1, <2>2, <2>3, Numbers, PushAges
  <2> QED BY <1>1, <2>4 DEF Lives
<1> QED BY <1>2, <1>3 DEF RunAfter

LEMMA HandleReadLives == Types /\ Safe /\ HandleRead => Lives
<1> SUFFICES ASSUME Types, Safe, HandleRead PROVE Lives
  OBVIOUS
<1>1. /\ creating = NoConn /\ UNCHANGED <<batch, conns, tasks, held>>
      /\ \/ UNCHANGED <<creating, stat>>
         \/ \E c \in Id, f \in FreeFds, l \in 0..cnt : Accepted(c, f, l)
  BY HandleReadCases
<1>2. CASE UNCHANGED <<creating, stat>>
  BY <1>1, <1>2, QuietAges DEF Lives
<1>3. ASSUME NEW c \in Id, NEW f \in FreeFds, NEW l \in 0..cnt, Accepted(c, f, l)
      PROVE  Lives
  <2>1. c = next_id + 1 /\ stat' = [stat EXCEPT ![c] = "CONNECTING"] /\ creating' = c
    BY <1>3 DEF Accepted
  <2>2. stat[c] = "none"
    <3>1. c > next_id
      BY <2>1 DEF Types, TypeOK
    <3> QED BY <3>1 DEF Safe, IdsOK
  <2>3. \A d \in Id \ {c} : Alive(d)' <=> Alive(d)
    BY <1>1, <2>1, Numbers DEF Alive, HeldByTask
  <2>4. Alive(c)'
    BY <2>1, AliveNextIs
  <2> QED BY <2>1, <2>2, <2>3, <2>4 DEF Lives, Ages, Keeps, Advances
<1> QED BY <1>1, <1>2, <1>3

LEMMA EstablishedLives == Types /\ Safe /\ Established => Lives
<1> SUFFICES ASSUME Types, Safe, Established PROVE Lives
  OBVIOUS
<1>1. /\ creating \in Id /\ step = "establish"
      /\ UNCHANGED <<creating, conns, batch>>
      /\ \/ loop[creating] = Base /\ EstablishInLoop(creating)
         \/ /\ loop[creating] \in Loop \ {Base}
            /\ \E q \in {<<>>, <<Reg(creating)>>} : Pushed(loop[creating], q \o <<Est(creating)>>)
            /\ UNCHANGED <<stat, held>>
  BY EstablishedCases
<1>2. stat[creating] = "CONNECTING"
  BY <1>1, Numbers DEF Safe, IdsOK
<1>3. Alive(creating)'
  BY <1>1, AliveNextIs
<1>4. CASE EstablishInLoop(creating)
  <2>1. /\ loop[creating] \in Loop
        /\ stat' = [stat EXCEPT ![creating] = "CONNECTED"]
        /\ held' \in {held, held \cup {creating}}
        /\ \E q \in Seq(Task) : Pushed(loop[creating], q) /\ Range(q) \subseteq {Rel(creating)}
    BY <1>1, <1>4, EstablishFacts
  <2>2. PICK q \in Seq(Task) : Pushed(loop[creating], q) /\ Range(q) \subseteq {Rel(creating)}
    BY <2>1
  <2>3. \A c \in Id : Rel(c) \in Range(q) \/ Rem(c) \in Range(q) => stat[c] # "DISCONNECTED"
    BY <1>1, <1>2, <2>2, TaskNames
  <2>4. Ages /\ Keeps
    BY <1>1, <1>2, <2>1, <2>2, <2>3, PushAges
  <2> QED BY <1>1, <1>2, <1>3, <2>1, <2>4 DEF Lives, Advances
<1>5. CASE /\ loop[creating] \in Loop \ {Base}
           /\ \E q \in {<<>>, <<Reg(creating)>>} : Pushed(loop[creating], q \o <<Est(creating)>>)
           /\ UNCHANGED <<stat, held>>
  <2>1. PICK q \in {<<>>, <<Reg(creating)>>} : Pushed(loop[creating], q \o <<Est(creating)>>)
    BY <1>5
  <2>2. PICK p : p = q \o <<Est(creating)>>
    OBVIOUS
  <2>3. /\ p \in Seq(Task) /\ Pushed(loop[creating], p)
        /\ Range(p) \subseteq {Reg(creating), Est(creating)}
    BY <1>1, <2>1, <2>2, SetUpTasks
  <2>4. \A c \in Id : Rel(c) \notin Range(p) /\ Rem(c) \notin Range(p)
    BY <2>3, TaskNames
  <2>5. Ages
    BY <1>1, <1>5, <2>3, <2>4, PushAges
  <2> QED BY <1>5, <2>5 DEF Lives
<1> QED BY <1>1, <1>4, <1>5

LEMMA InsertLives == Types /\ Insert => Lives
<1> SUFFICES ASSUME Types, Insert PROVE Lives
  OBVIOUS
<1>1. /\ creating # NoConn /\ conns' = With(conns, next_id, creating)
      /\ creating' = NoConn /\ UNCHANGED <<stat, batch, tasks, held>>
  BY DEF Insert, connVars, envVars, loopVars
<1>2. \A d \in Range(conns') : d \in Range(conns) \/ d = creating
  <2>1. PICK w : w = With(conns, next_id, creating)
    OBVIOUS
  <2>2. \A k \in DOMAIN w : w[k] = creating \/ (k \in DOMAIN conns /\ w[k] = conns[k])
    BY <2>1 DEF With
  <2> QED BY <1>1, <2>1, <2>2 DEF Range
<1>3. Ages
  <2>1. ASSUME NEW d \in Id, Alive(d)' PROVE Alive(d)
    <3>1. d # NoConn
      BY Numbers
    <3>2. d \in Range(conns') \/ HeldByTask(d) \/ d \in held
      BY <1>1, <2>1, <3>1 DEF Alive, HeldByTask
    <3> QED BY <1>2, <3>2 DEF Alive
  <2> QED BY <2>1 DEF Ages
<1> QED BY <1>1, <1>3 DEF Lives

LEMMA PollLives == \A l \in Loop : Poll(l) => Lives
<1> SUFFICES ASSUME NEW l \in Loop, Poll(l) PROVE Lives
  OBVIOUS
<1>1. UNCHANGED <<creating, conns, batch, tasks, stat, held>>
  BY DEF Poll, newVars, connVars, envVars
<1> QED BY <1>1, QuietAges DEF Lives

LEMMA HandleEventLives == \A l \in Loop, c \in Id : Types /\ Safe /\ HandleEvent(l, c) => Lives
<1> SUFFICES ASSUME NEW l \in Loop, NEW c \in Id, Types, Safe, HandleEvent(l, c) PROVE Lives
  OBVIOUS
<1>1. /\ c \in actives[l] /\ Alive(c)
      /\ UNCHANGED <<creating, conns, batch, stat, held>>
  BY DEF HandleEvent, Dispatch, newVars, connVars, envVars
<1>2. loop[c] = l
  BY <1>1 DEF Safe, ActivesOK
<1>3. PICK n \in Nat : Releases(c, n)
  BY Numbers DEF HandleEvent
<1>4. PICK q \in Seq(Task) : Pushed(l, q) /\ Range(q) \subseteq {Rel(c)}
  BY <1>2, <1>3, ReleasesPush
<1>5. \A d \in Id : Rel(d) \in Range(q) \/ Rem(d) \in Range(q) => Alive(d)
  BY <1>1, <1>4, TaskNames
<1>6. Ages
  BY <1>1, <1>4, <1>5, PushAges
<1> QED BY <1>1, <1>6 DEF Lives

LEMMA OntimeLives == \A l \in Loop : Types /\ Safe /\ Ontime(l) => Lives
<1> SUFFICES ASSUME NEW l \in Loop, Types, Safe, Ontime(l) PROVE Lives
  OBVIOUS
<1>1. PICK off \in SUBSET Expirable(l), q \in Seq(Task) :
        Pushed(l, q) /\ Range(q) \subseteq {Rel(c) : c \in off \ functors}
  BY OntimeCases
<1>2. UNCHANGED <<creating, conns, batch, stat, held>>
  BY OntimeCases DEF Dispatch, newVars, connVars, envVars
<1>3. \A c \in off \ functors : c \in Id /\ Live(c)
  BY DEF Expirable, Safe, TimersOK
<1>4. \A d \in Id : Rel(d) \in Range(q) \/ Rem(d) \in Range(q) => stat[d] # "DISCONNECTED"
  BY <1>1, <1>3, TaskNames DEF Live
<1>5. Ages
  BY <1>1, <1>2, <1>4, PushAges
<1> QED BY <1>2, <1>5 DEF Lives

LEMMA SwapTasksLives == \A l \in Loop : Types /\ SwapTasks(l) => Lives
<1> SUFFICES ASSUME NEW l \in Loop, Types, SwapTasks(l) PROVE Lives
  OBVIOUS
<1>1. /\ pc[l] = "dispatch" /\ batch' = [batch EXCEPT ![l] = tasks[l]]
      /\ tasks' = [tasks EXCEPT ![l] = <<>>] /\ UNCHANGED <<creating, conns, stat, held>>
  BY DEF SwapTasks, AllDispatched, Dispatching, newVars, connVars, envVars
<1>2. batch[l] = <<>>
  BY <1>1, QueueTypes
<1>3. \A m \in Loop : \A t : Queued(m, t)' <=> Queued(m, t)
  BY <1>1, <1>2, EmptyRange DEF Queued, Types, TypeOK
<1>4. \A d \in Id : Alive(d)' <=> Alive(d)
  BY <1>1, <1>3, AliveIs, AliveNextIs
<1> QED BY <1>1, <1>4 DEF Lives, Ages

LEMMA EndOfBatchLives == \A l \in Loop : Types /\ EndOfBatch(l) => Lives
<1> SUFFICES ASSUME NEW l \in Loop, Types, EndOfBatch(l) PROVE Lives
  OBVIOUS
<1>1. /\ batch' = [batch EXCEPT ![l] = <<>>]
      /\ UNCHANGED <<creating, conns, stat, tasks, held>>
  BY DEF EndOfBatch, newVars, connVars, envVars
<1>2. \A m \in Loop : \A t : Queued(m, t)' => Queued(m, t)
  BY <1>1, EmptyRange DEF Queued, Types, TypeOK
<1>3. \A d \in Id : Alive(d)' => Alive(d)
  BY <1>1, <1>2, AliveIs, AliveNextIs
<1> QED BY <1>1, <1>3 DEF Lives, Ages

\* Another thread asks for the end of a connection it has.
LEMMA CallLives == Types /\ Call => Lives
<1> SUFFICES ASSUME Types, Call PROVE Lives
  OBVIOUS
<1>1. UNCHANGED <<creating, conns, batch, stat, held>>
  BY CallCases DEF newVars, connVars, loopVars
<1>2. PICK c \in held :
        /\ c \in Id /\ loop[c] \in Loop
        /\ Pushed(loop[c], <<Shut(c)>>) \/ Pushed(loop[c], <<Rel(c)>>)
  BY CallCases
<1>3. ASSUME NEW t \in {Shut(c), Rel(c)}, Pushed(loop[c], <<t>>) PROVE Lives
  <2>1. <<t>> \in Seq(Task) /\ \A u : u \in Range(<<t>>) <=> u = t
    BY <1>2, TaskNames DEF Range
  <2>2. \A d \in Id : Rel(d) \in Range(<<t>>) \/ Rem(d) \in Range(<<t>>) => Alive(d)
    BY <1>2, <2>1, TaskNames DEF Alive
  <2>3. Ages
    BY <1>1, <1>2, <1>3, <2>1, <2>2, PushAges
  <2> QED BY <1>1, <2>3 DEF Lives
<1> QED BY <1>2, <1>3

\* Another thread gives it up.
LEMMA DropLives == \A c \in Id : Drop(c) => Lives
<1> SUFFICES ASSUME NEW c \in Id, Drop(c) PROVE Lives
  OBVIOUS
<1>1. held' = held \ {c} /\ UNCHANGED <<creating, conns, batch, tasks, stat>>
  BY DEF Drop, newVars, connVars, loopVars
<1> QED BY <1>1 DEF Lives, Ages, Alive, HeldByTask

\* An erasure gives nobody a reference.
LEMMA EraseRange ==
    ASSUME NEW k, conns' \in {conns, Without(conns, k)}
    PROVE  Range(conns') \subseteq Range(conns)
<1>1. CASE conns' = conns
  BY <1>1
<1>2. CASE conns' = Without(conns, k)
  <2>1. PICK w : w = Without(conns, k)
    OBVIOUS
  <2>2. \A x \in DOMAIN w : x \in DOMAIN conns /\ w[x] = conns[x]
    BY <2>1 DEF Without
  <2> QED BY <1>2, <2>1, <2>2 DEF Range
<1> QED BY <1>1, <1>2

\* Release: the batch that runs it keeps the connection.
LEMMA ReleaseLives ==
    ASSUME NoWrap, Types, Safe, NEW l \in Loop, RunTask(l), NEW c \in Id,
           batch[l][done[l] + 1] = Rel(c), ReleaseInLoop(c), UNCHANGED held
    PROVE  Lives
<1>1. UNCHANGED <<batch, creating>> /\ Rel(c) \in Range(batch[l])
  BY RunTaskCases DEF newVars
<1>2. Queued(l, Rel(c)) /\ Queued(l, Rel(c))'
  BY <1>1 DEF Queued
<1>3. stat[c] \in {"CONNECTED", "DISCONNECTED"}
  BY <1>2 DEF Safe, QueuesOK, EST
<1>4. Alive(c) /\ Alive(c)'
  BY <1>2, AliveIs, AliveNextIs
<1>5. /\ stat' = [stat EXCEPT ![c] = "DISCONNECTED"]
      /\ conns' \in {conns, Without(conns, AsInt(c))}
      /\ \E q \in Seq(Task) : Pushed(Base, q) /\ Range(q) \subseteq {Rem(c)}
  BY ReleaseFacts
<1>6. PICK q \in Seq(Task) : Pushed(Base, q) /\ Range(q) \subseteq {Rem(c)}
  BY <1>5
<1>7. \A m \in Loop : \A t : Queued(m, t)' <=> Queued(m, t) \/ (m = Base /\ t \in Range(q))
  BY <1>1, <1>6, Numbers, PushQueues DEF Queued
<1>8. Range(conns') \subseteq Range(conns)
  BY <1>5, EraseRange
<1>9. Ages
  <2>1. ASSUME NEW d \in Id, d # c, Alive(d)' PROVE Alive(d)
    <3>1. Rel(d) \notin Range(q) /\ Rem(d) \notin Range(q)
      BY <1>6, <2>1, TaskNames
    <3>2. \/ creating = d \/ d \in Range(conns) \/ d \in held
          \/ \E m \in Loop : Queued(m, Rel(d)) \/ Queued(m, Rem(d))
      BY <1>1, <1>7, <1>8, <2>1, <3>1, AliveNextIs
    <3> QED BY <3>2, AliveIs
  <2> QED BY <1>4, <2>1 DEF Ages
<1>10. CASE stat[c] = "DISCONNECTED"
  <2>1. stat' = stat
    BY <1>5, <1>10 DEF Types, TypeOK
  <2> QED BY <1>9, <2>1 DEF Lives
<1>11. CASE stat[c] = "CONNECTED"
  <2>1. ASSUME NEW d \in Id, stat[d] = "DISCONNECTED", d \in Range(conns)
        PROVE  d \in Range(conns')
    <3>1. CASE conns' = conns
      BY <2>1, <3>1
    <3>2. CASE conns' = Without(conns, AsInt(c))
      <4>1. PICK k \in DOMAIN conns : conns[k] = d
        BY <2>1 DEF Range
      <4>2. DOMAIN conns \subseteq Id
        BY PartialFcn DEF Types, TypeOK
      <4>3. k # AsInt(c)
        <5>1. SUFFICES ASSUME k = AsInt(c) PROVE FALSE
          OBVIOUS
        <5>2. k = c
          BY <4>2, <5>1 DEF NoWrap
        <5>3. d # c
          BY <1>11, <2>1
        <5>4. stat[c] = "none"
          BY <4>1, <5>2, <5>3 DEF Safe, TableOK
        <5> QED BY <1>11, <5>4
      <4>4. PICK w : w = Without(conns, AsInt(c))
        OBVIOUS
      <4>5. k \in DOMAIN w /\ w[k] = d
        BY <4>1, <4>3, <4>4 DEF Without
      <4> QED BY <3>2, <4>4, <4>5 DEF Range
    <3> QED BY <1>5, <3>1, <3>2
  <2>2. Keeps
    <3>1. ASSUME NEW d \in Id, stat[d] = "DISCONNECTED", Alive(d) PROVE Alive(d)'
      BY <1>1, <1>7, <2>1, <3>1, AliveIs, AliveNextIs
    <3> QED BY <3>1 DEF Keeps
  <2>3. Advances(c, "CONNECTED", "DISCONNECTED")
    BY <1>4, <1>5, <1>11 DEF Advances
  <2> QED BY <1>9, <2>2, <2>3 DEF Lives
<1> QED BY <1>3, <1>10, <1>11

LEMMA RunTaskLives ==
    ASSUME NoWrap
    PROVE  \A l \in Loop : Types /\ Safe /\ Safe' /\ RunTask(l) => Lives
<1> SUFFICES ASSUME NEW l \in Loop, Types, Safe, Safe', RunTask(l) PROVE Lives
  OBVIOUS
<1>1. UNCHANGED <<batch, creating>>
  BY RunTaskCases DEF newVars
<1>2. CASE UNCHANGED <<conns, stat, tasks, held>>
  BY <1>1, <1>2, QuietAges DEF Lives
<1>3. ASSUME NEW c \in Id, RemoveConnectionInLoop(c), UNCHANGED <<stat, tasks, held>>
      PROVE  Lives
  <2>1. Range(conns') \subseteq Range(conns)
    BY <1>3, EraseRange DEF RemoveConnectionInLoop
  <2>2. Ages
    BY <1>1, <1>3, <2>1 DEF Ages, Alive, HeldByTask
  <2> QED BY <1>3, <2>2 DEF Lives
<1>4. ASSUME NEW c \in Id, EstablishInLoop(c), UNCHANGED conns
      PROVE  Lives
  <2>1. /\ loop[c] \in Loop /\ stat[c] = "CONNECTING"
        /\ stat' = [stat EXCEPT ![c] = "CONNECTED"]
        /\ held' \in {held, held \cup {c}}
        /\ \E q \in Seq(Task) : Pushed(loop[c], q) /\ Range(q) \subseteq {Rel(c)}
    BY <1>4, EstablishFacts
  <2>2. PICK q \in Seq(Task) : Pushed(loop[c], q) /\ Range(q) \subseteq {Rel(c)}
    BY <2>1
  <2>3. \A d \in Id : Rel(d) \in Range(q) \/ Rem(d) \in Range(q) => stat[d] # "DISCONNECTED"
    BY <2>1, <2>2, TaskNames
  <2>4. Ages /\ Keeps
    BY <1>1, <1>4, <2>1, <2>2, <2>3, PushAges
  <2>5. Alive(c)'
    <3>1. Live(c)'
      BY <2>1 DEF Live, Types, TypeOK
    <3>2. creating' = c \/ c \in Range(conns')
      BY <3>1, NoWrapIsConstant DEF Safe, TableOK
    <3> QED BY <3>2, AliveNextIs
  <2> QED BY <2>1, <2>4, <2>5 DEF Lives, Advances
<1>5. ASSUME NEW c \in Id, batch[l][done[l] + 1] = Shut(c), ShutDownInLoop(c),
             UNCHANGED <<conns, stat, held>>
      PROVE  Lives
  <2>1. c \in held
    <3>1. \A t : t = batch[l][done[l] + 1] => Pending(l, t)
      BY RunQueues DEF Pending
    <3> QED BY <1>5, <3>1 DEF Safe, QueuesOK
  <2>2. fd[c] \in Fd
    BY <2>1 DEF Types, HasFd
  <2>3. PICK q \in Seq(Task) : Pushed(loop[c], q) /\ Range(q) \subseteq {Rel(c)}
    BY <1>5, <2>2, ShutDownFacts
  <2>4. \A d \in Id : Rel(d) \in Range(q) \/ Rem(d) \in Range(q) => Alive(d)
    BY <2>1, <2>3, TaskNames DEF Alive
  <2>5. Ages
    BY <1>1, <1>5, <2>2, <2>3, <2>4, ShutDownFacts, PushAges
  <2> QED BY <1>5, <2>5 DEF Lives
<1> QED BY <1>2, <1>3, <1>4, <1>5, RunTaskCases, ReleaseLives DEF connVars

\* Every step.
LEMMA NextLives ==
    ASSUME NoWrap
    PROVE  Types /\ Safe /\ Safe' /\ [Next]_vars => Lives
<1> SUFFICES ASSUME Types, Safe, Safe', [Next]_vars PROVE Lives
  OBVIOUS
<1>1. CASE UNCHANGED vars
  <2>1. UNCHANGED <<creating, conns, batch, tasks, stat, held>>
    BY <1>1 DEF vars, newVars, connVars, envVars, loopVars
  <2> QED BY <2>1, QuietAges DEF Lives
<1>2. ASSUME NEW l \in Loop, Start(l) PROVE Lives
  BY <1>1, <1>2, PollLives, OntimeLives, SwapTasksLives, RunTaskLives, EndOfBatchLives,
     HandleEventLives, HandleReadLives, EstablishedLives, InsertLives
     DEF Start, NewConnection, IdleTick
<1> QED BY <1>1, <1>2, RunAfterLives, CallLives, DropLives DEF Next

\* The stage of a connection is its status, but for those destroyed.
LEMMA Stages ==
    ASSUME NoWrap, Types, Safe, NEW c \in Id
    PROVE  /\ stat[c] = "none" => Stage(c) = "none"
           /\ stat[c] = "CONNECTING" => Stage(c) = "accepted"
           /\ stat[c] = "CONNECTED" => Stage(c) = "served"
           /\ stat[c] = "DISCONNECTED" /\ Alive(c) => Stage(c) = "released"
           /\ stat[c] = "DISCONNECTED" /\ ~Alive(c) => Stage(c) = "destroyed"
<1>1. Live(c) => Alive(c)
  BY LiveIsAlive DEF Safe
<1> QED BY Zenon, <1>1 DEF Live, Stage

LEMMA StagesNext ==
    ASSUME NoWrap, Types', Safe', NEW c \in Id
    PROVE  /\ stat'[c] = "none" => Stage(c)' = "none"
           /\ stat'[c] = "CONNECTING" => Stage(c)' = "accepted"
           /\ stat'[c] = "CONNECTED" => Stage(c)' = "served"
           /\ stat'[c] = "DISCONNECTED" /\ Alive(c)' => Stage(c)' = "released"
           /\ stat'[c] = "DISCONNECTED" /\ ~Alive(c)' => Stage(c)' = "destroyed"
<1>1. Live(c)' => Alive(c)'
  <2>1. Live(c)' => creating' = c \/ c \in Range(conns')
    BY NoWrapIsConstant DEF Safe, TableOK
  <2> QED BY <2>1, AliveNextIs
<1> QED BY Zenon, <1>1 DEF Live, Stage

\* A step of one connection is that step of its life, ...
LEMMA AdvanceStep ==
    ASSUME NoWrap, Types, Types', Safe, Safe', Ages, Keeps, NEW c \in Id,
           NEW from, NEW to, Advances(c, from, to),
           from \in {"none", "CONNECTING", "CONNECTED"},
           to \in {"CONNECTING", "CONNECTED", "DISCONNECTED"}
    PROVE  /\ \A d \in Id \ {c} : Stage(d)' = Stage(d)
           /\ from = "none" => Stage(c) = "none"
           /\ from = "CONNECTING" => Stage(c) = "accepted"
           /\ from = "CONNECTED" => Stage(c) = "served"
           /\ to = "CONNECTING" => Stage(c)' = "accepted"
           /\ to = "CONNECTED" => Stage(c)' = "served"
           /\ to = "DISCONNECTED" => Stage(c)' = "released"
<1>1. stat \in [Id -> {"none", "CONNECTING", "CONNECTED", "DISCONNECTED"}]
  BY DEF Types, TypeOK
<1>2. /\ stat[c] = from /\ stat'[c] = to /\ Alive(c)'
      /\ \A d \in Id \ {c} : stat'[d] = stat[d]
  BY <1>1 DEF Advances
<1>3. ASSUME NEW d \in Id \ {c} PROVE Stage(d)' = Stage(d)
  <2>1. stat[d] = "DISCONNECTED" => (Alive(d)' <=> Alive(d))
    BY DEF Ages, Keeps
  <2> QED BY <1>1, <1>2, <2>1, Stages, StagesNext
<1> QED BY <1>2, <1>3, Stages, StagesNext

\* ... and a step that changes no status destroys those that nobody holds.
LEMMA DestroyStep ==
    ASSUME NoWrap, Types, Types', Safe, Safe', Ages, stat' = stat
    PROVE  \E S \in SUBSET Id :
              /\ \A c \in S : Stage(c) = "released" /\ Stage(c)' = "destroyed"
              /\ \A c \in Id \ S : Stage(c)' = Stage(c)
<1>1. stat \in [Id -> {"none", "CONNECTING", "CONNECTED", "DISCONNECTED"}]
  BY DEF Types, TypeOK
<1> DEFINE S == {c \in Id : stat[c] = "DISCONNECTED" /\ Alive(c) /\ ~Alive(c)'}
<1>2. \A c \in S : Stage(c) = "released" /\ Stage(c)' = "destroyed"
  BY Stages, StagesNext
<1>3. ASSUME NEW c \in Id \ S PROVE Stage(c)' = Stage(c)
  <2>1. stat[c] = "DISCONNECTED" => (Alive(c)' <=> Alive(c))
    BY DEF Ages
  <2> QED BY <1>1, <2>1, Stages, StagesNext
<1> QED BY <1>2, <1>3

LEMMA LifeNext ==
    ASSUME NoWrap, Types, Types', Safe, Safe', [Next]_vars
    PROVE  Life!Next
<1>1. Lives
  BY NextLives
<1>2. CASE stat' = stat
  <2>1. PICK S \in SUBSET Id :
              /\ \A c \in S : Stage(c) = "released" /\ Stage(c)' = "destroyed"
              /\ \A c \in Id \ S : Stage(c)' = Stage(c)
    BY <1>1, <1>2, DestroyStep DEF Lives
  <2>2. Life!Advance(S, "released", "destroyed")
    BY <2>1 DEF Life!Advance
  <2> QED BY <2>2 DEF Life!Next
<1>3. ASSUME NEW c \in Id, Keeps,
             \/ Advances(c, "none", "CONNECTING")
             \/ Advances(c, "CONNECTING", "CONNECTED")
             \/ Advances(c, "CONNECTED", "DISCONNECTED")
      PROVE  Life!Next
  <2>1. Ages
    BY <1>1 DEF Lives
  <2>2. CASE Advances(c, "none", "CONNECTING")
    <3>1. /\ \A d \in Id \ {c} : Stage(d)' = Stage(d)
          /\ Stage(c) = "none" /\ Stage(c)' = "accepted"
      BY <1>3, <2>1, <2>2, AdvanceStep
    <3>2. Life!Advance({c}, "none", "accepted")
      BY <3>1 DEF Life!Advance
    <3> QED BY <3>2 DEF Life!Next
  <2>3. CASE Advances(c, "CONNECTING", "CONNECTED")
    <3>1. /\ \A d \in Id \ {c} : Stage(d)' = Stage(d)
          /\ Stage(c) = "accepted" /\ Stage(c)' = "served"
      BY <1>3, <2>1, <2>3, AdvanceStep
    <3>2. Life!Advance({c}, "accepted", "served")
      BY <3>1 DEF Life!Advance
    <3> QED BY <3>2 DEF Life!Next
  <2>4. CASE Advances(c, "CONNECTED", "DISCONNECTED")
    <3>1. /\ \A d \in Id \ {c} : Stage(d)' = Stage(d)
          /\ Stage(c) = "served" /\ Stage(c)' = "released"
      BY <1>3, <2>1, <2>4, AdvanceStep
    <3>2. Life!Advance({c}, "served", "released")
      BY <3>1 DEF Life!Advance
    <3> QED BY <3>2 DEF Life!Next
  <2> QED BY <1>3, <2>2, <2>3, <2>4
<1> QED BY <1>1, <1>2, <1>3 DEF Lives

\* TcpServer implements ConnectionLife: each connection is accepted, served,
\* released and destroyed in this order, however the loops' references go.
THEOREM Implementation == ASSUME NoWrap PROVE Spec => ImplementsLife
<1>1. Init => Life!Init
  <2>1. SUFFICES ASSUME Init PROVE Life!Init
    OBVIOUS
  <2>2. \A c \in Id : Stage(c) = "none"
    BY <2>1 DEF Init, Stage
  <2> QED BY <2>2 DEF Life!Init
<1>2. Types /\ Safe /\ Types' /\ Safe' /\ [Next]_vars => Life!Next
  BY LifeNext
<1> QED BY <1>1, <1>2, Invariant, PTL DEF Spec, ImplementsLife, Life!Spec
=============================================================================
