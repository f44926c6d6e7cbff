-------------------------- MODULE EventLoopProofs --------------------------
(***************************************************************************)
(* Theorems about EventLoop for any number of posting threads, any bounds  *)
(* and with or without interrupted system calls.                           *)
(***************************************************************************)
EXTENDS EventLoop, SequenceTheorems, TLAPS

-----------------------------------------------------------------------------
(***************************************************************************)
(* TypeOK: the types of the state, and what each point of Start implies    *)
(* about local, actives and the loop thread's own pushes. It is inductive. *)
(***************************************************************************)
\* What a thread with submissions left submits next is a task.
LEMMA NewTaskType ==
    ASSUME TypeOK, NEW t \in Threads, posted[t] < MaxPosts
    PROVE  /\ NewTask(t) \in Task
           /\ posted[t] + 1 \in 0..MaxPosts
BY EventLoopAssumption DEF TypeOK, NewTask, Task

\* The types hold throughout, with what each point of Start implies: a batch
\* only inside RunAllTasks, the loop inside PushInLoop only within a callback.
THEOREM TypeInvariant == Spec => []TypeOK
<1>1. Init => TypeOK
  BY EventLoopAssumption DEF Init, TypeOK, Threads, Task
<1>2. TypeOK /\ [Next]_vars => TypeOK'
  <2> SUFFICES ASSUME TypeOK, [Next]_vars PROVE TypeOK'
    OBVIOUS
  <2> USE EventLoopAssumption
  <2>1. ASSUME NEW t \in Threads, PushInLoop(t) PROVE TypeOK'
    <3>1. NewTask(t) \in Task /\ posted[t] + 1 \in 0..MaxPosts
      BY <2>1, NewTaskType DEF PushInLoop, CanSubmit
    <3>2. tasks' \in Seq(Task)
      BY <2>1, <3>1 DEF PushInLoop, TypeOK
    <3>3. posted' \in [Threads -> 0..MaxPosts]
      BY <2>1, <3>1 DEF PushInLoop, TypeOK
    <3>4. waking' \subseteq Threads /\ (LoopThread \in waking' => InCallback')
      BY <2>1 DEF PushInLoop, CanSubmit, TypeOK, InCallback
    <3> QED BY <2>1, <3>2, <3>3, <3>4 DEF PushInLoop, TypeOK
  <2>2. ASSUME NEW t \in Threads, WakeUpEventFd(t) PROVE TypeOK'
    BY <2>2 DEF WakeUpEventFd, TypeOK, InCallback
  <2>3. CASE RunInline
    <3>0. LoopThread \in Threads
      BY DEF Threads
    <3>1. /\ NewTask(LoopThread) \in Task
          /\ posted[LoopThread] + 1 \in 0..MaxPosts
      BY <2>3, <3>0, NewTaskType DEF RunInline, CanSubmit
    <3>2. ran' \in Seq(Task)
      BY <2>3, <3>1 DEF RunInline, TypeOK
    <3>3. posted' \in [Threads -> 0..MaxPosts]
      BY <2>3, <3>1 DEF RunInline, TypeOK
    <3> QED BY <2>3, <3>2, <3>3 DEF RunInline, TypeOK, InCallback
  <2>4. CASE TimerExpires
    BY <2>4 DEF TimerExpires, TypeOK, InCallback
  <2>5. CASE PollInterrupted
    BY <2>5 DEF PollInterrupted, TypeOK, InCallback
  <2>6. CASE Poll
    BY <2>6 DEF Poll, Ready, TypeOK, InCallback
  <2>7. ASSUME NEW ch \in {"eventfd", "timerfd"}, HandleEvent(ch) PROVE TypeOK'
    BY <2>7 DEF HandleEvent, TypeOK, InCallback
  <2>8. CASE HandlerReturns
    BY <2>8 DEF HandlerReturns, TypeOK, InCallback
  <2>9. CASE SwapTasks
    BY <2>9 DEF SwapTasks, TypeOK, InCallback
  <2>10. CASE RunTask
    BY <2>10 DEF RunTask, TypeOK, InCallback
  <2>11. CASE TaskReturns
    BY <2>11 DEF TaskReturns, TypeOK, InCallback
  <2>12. CASE EndOfBatch
    BY <2>12 DEF EndOfBatch, TypeOK, InCallback
  <2>13. CASE UNCHANGED vars
    BY <2>13 DEF vars, TypeOK, InCallback
  <2> QED
    BY <2>1, <2>2, <2>3, <2>4, <2>5, <2>6, <2>7, <2>8, <2>9, <2>10, <2>11,
       <2>12, <2>13 DEF Next, Start
<1> QED BY <1>1, <1>2, PTL DEF Spec

-----------------------------------------------------------------------------
(***************************************************************************)
(* The loop never sleeps on queued work without a wake-up under way: the   *)
(* push comes before the write, and the read before the swap.              *)
(***************************************************************************)
THEOREM NeverLosesWakeup == Spec => []NoLostWakeup
<1>1. Init => NoLostWakeup
  BY DEF Init, NoLostWakeup
<1>2. TypeOK /\ NoLostWakeup /\ [Next]_vars => NoLostWakeup'
  <2> SUFFICES ASSUME TypeOK, NoLostWakeup, [Next]_vars, tasks' # <<>>
               PROVE  \/ eventfd' > 0
                      \/ waking' # {}
                      \/ pc' \in {"dispatch", "handler"}
                      \/ gaveUp' # {}
    BY DEF NoLostWakeup
  <2>1. ASSUME NEW t \in Threads, PushInLoop(t) PROVE waking' # {}
    BY <2>1 DEF PushInLoop
  <2>2. ASSUME NEW t \in Threads, WakeUpEventFd(t) PROVE eventfd' > 0 \/ gaveUp' # {} \/ tasks' = <<>>
    BY <2>2 DEF WakeUpEventFd, TypeOK
  <2>3. CASE RunInline
    BY <2>3 DEF RunInline, NoLostWakeup
  <2>4. CASE TimerExpires
    BY <2>4 DEF TimerExpires, NoLostWakeup
  <2>5. CASE Poll \/ PollInterrupted
    BY <2>5 DEF Poll, PollInterrupted
  <2>6. ASSUME NEW ch \in {"eventfd", "timerfd"}, HandleEvent(ch)
        PROVE  pc' \in {"dispatch", "handler"}
    BY <2>6 DEF HandleEvent
  <2>7. CASE HandlerReturns
    BY <2>7 DEF HandlerReturns
  <2>8. CASE SwapTasks
    BY <2>8 DEF SwapTasks
  <2>9. CASE RunTask \/ TaskReturns \/ EndOfBatch
    BY <2>9 DEF RunTask, TaskReturns, EndOfBatch, NoLostWakeup
  <2>10. CASE UNCHANGED vars
    BY <2>10 DEF vars, NoLostWakeup
  <2> QED
    BY <2>1, <2>2, <2>3, <2>4, <2>5, <2>6, <2>7, <2>8, <2>9, <2>10
    DEF Next, Start
<1> QED BY <1>1, <1>2, TypeInvariant, PTL DEF Spec

-----------------------------------------------------------------------------
(***************************************************************************)
(* Sequences: appending to the end of a concatenation, moving its head     *)
(* across, and appending to its first part, pointwise; and an element put  *)
(* into a sequence that does not hold it yet.                              *)
(***************************************************************************)
\* Appending to the second part appends to the whole.
LEMMA AppendConcat ==
    ASSUME NEW S, NEW s \in Seq(S), NEW u \in Seq(S), NEW e \in S
    PROVE  s \o Append(u, e) = Append(s \o u, e)
<1>1. /\ Append(u, e) \in Seq(S)
      /\ s \o u \in Seq(S)
  BY AppendProperties, ConcatProperties
<1>2. <<e>> \in Seq(S)
  OBVIOUS
<1> QED BY <1>1, <1>2, AppendIsConcat, ConcatAssociative

\* Taking the head of the middle part and appending it to the first part leaves
\* the concatenation as it was: RunTask does not change the schedule.
LEMMA HeadMoves ==
    ASSUME NEW S, NEW s \in Seq(S), NEW u \in Seq(S), NEW v \in Seq(S),
           u # <<>>
    PROVE  /\ Head(u \o v) = Head(u)
           /\ Tail(u \o v) = Tail(u) \o v
           /\ u \o v # <<>>
           /\ Append(s, Head(u)) \o (Tail(u) \o v) = s \o (u \o v)
<1> DEFINE h == Head(u)
           w == Tail(u) \o v
<1>1. h \in S /\ Tail(u) \in Seq(S) /\ <<h>> \in Seq(S) /\ w \in Seq(S)
  BY HeadTailProperties, ConcatProperties
<1>2. u = <<h>> \o Tail(u)
  BY <1>1
<1>3. Head(u \o v) = Head(u) /\ Tail(u \o v) = Tail(u) \o v /\ u \o v # <<>>
  OBVIOUS
<1>4. u \o v = <<h>> \o w
  BY <1>1, <1>2, ConcatAssociative
<1>5. Append(s, h) = s \o <<h>>
  BY <1>1, AppendIsConcat
<1>6. (s \o <<h>>) \o w = s \o (<<h>> \o w)
  <2> HIDE DEF h, w
  <2> QED BY <1>1, ConcatAssociative
<1> QED BY <1>3, <1>4, <1>5, <1>6

\* Appending to the first part inserts into the whole: RunInline jumps ahead
\* of the queue and keeps the order of everything else.
LEMMA AppendInside ==
    ASSUME NEW S, NEW s \in Seq(S), NEW u \in Seq(S), NEW e \in S
    PROVE  /\ Append(s, e) \o u \in Seq(S)
           /\ Len(s) \in 0..Len(s \o u)
           /\ Len(Append(s, e) \o u) = Len(s \o u) + 1
           /\ \A i \in 1..Len(s \o u) + 1 :
                 (Append(s, e) \o u)[i] =
                     IF i <= Len(s) THEN (s \o u)[i]
                     ELSE IF i = Len(s) + 1 THEN e ELSE (s \o u)[i - 1]
BY AppendProperties, ConcatProperties, LenProperties

\* f, read up to n, repeats nothing; new is old with e put in after place at;
\* new has the elements of old and e. Stated for functions, for the provers.
Distinct(f, n) == \A i, j \in 1..n : f[i] = f[j] => i = j

Inserted(new, old, n, at, e) ==
    \A i \in 1..n + 1 :
        new[i] = IF i <= at THEN old[i]
                 ELSE IF i = at + 1 THEN e ELSE old[i - 1]

SameElements(new, old, n, e) ==
    /\ \A i \in 1..n + 1 : new[i] = e \/ \E j \in 1..n : new[i] = old[j]
    /\ \E i \in 1..n + 1 : new[i] = e
    /\ \A j \in 1..n : \E i \in 1..n + 1 : new[i] = old[j]

\* A sequence stays without duplicates when a new element is inserted.
LEMMA InsertDistinct ==
    ASSUME NEW old, NEW new, NEW e, NEW n \in Nat, NEW at \in 0..n,
           Inserted(new, old, n, at, e),
           Distinct(old, n),
           \A i \in 1..n : old[i] # e
    PROVE  /\ Distinct(new, n + 1)
           /\ SameElements(new, old, n, e)
<1> DEFINE before(i) == IF i <= at THEN i ELSE i - 1
           after(i) == IF i <= at THEN i ELSE i + 1
<1>1. \A i \in 1..n + 1 : i # at + 1 => before(i) \in 1..n /\ new[i] = old[before(i)]
  BY DEF Inserted
<1>2. \A i \in 1..n : after(i) \in 1..n + 1 /\ new[after(i)] = old[i]
  BY DEF Inserted
<1>3. at + 1 \in 1..n + 1 /\ new[at + 1] = e
  BY DEF Inserted
<1>4. ASSUME NEW i \in 1..n + 1, NEW j \in 1..n + 1, new[i] = new[j]
      PROVE  i = j
  <2>1. i = at + 1 <=> j = at + 1
    BY <1>1, <1>3, <1>4
  <2>2. ASSUME i # at + 1, j # at + 1 PROVE before(i) = before(j)
    BY <1>1, <1>4, <2>2 DEF Distinct
  <2> QED BY <2>1, <2>2
<1>5. \A i \in 1..n + 1 : new[i] = e \/ \E j \in 1..n : new[i] = old[j]
  <2> HIDE DEF before
  <2> QED BY <1>1, <1>3
<1>6. \A j \in 1..n : \E i \in 1..n + 1 : new[i] = old[j]
  <2> HIDE DEF after
  <2> QED BY <1>2
<1> QED BY <1>3, <1>4, <1>5, <1>6 DEF Distinct, SameElements

-----------------------------------------------------------------------------
(***************************************************************************)
(* What a step does to the schedule: a push extends it at the end, an      *)
(* in-thread call inserts between what has run and what waits, and every   *)
(* other step only moves the boundaries inside it.                         *)
(***************************************************************************)
\* Submitting adds exactly the new task to Submitted.
LEMMA SubmittedGrows ==
    ASSUME TypeOK, NEW t \in Threads, posted[t] < MaxPosts,
           posted' = [posted EXCEPT ![t] = @ + 1]
    PROVE  /\ NewTask(t) \notin Submitted
           /\ Submitted' = Submitted \cup {NewTask(t)}
<1>1. \A k \in Task : k[2] <= posted'[k[1]] <=> k[2] <= posted[k[1]] \/ k = NewTask(t)
  BY EventLoopAssumption DEF TypeOK, NewTask, Task
<1> QED BY <1>1, NewTaskType, EventLoopAssumption DEF Submitted, NewTask, TypeOK, Task

\* A submission by t puts its task at position at + 1 of the schedule.
InsertedAt(at, t) ==
    /\ at \in 0..Len(Schedule)
    /\ t # LoopThread => at = Len(Schedule)
    /\ Len(Schedule') = Len(Schedule) + 1
    /\ \A i \in 1..Len(Schedule) + 1 :
          Schedule'[i] = IF i <= at THEN Schedule[i]
                         ELSE IF i = at + 1 THEN NewTask(t) ELSE Schedule[i - 1]

\* PushInLoop and RunInline insert their task into the schedule.
LEMMA SubmitInserts ==
    ASSUME TypeOK, NEW t \in Threads,
           PushInLoop(t) \/ (t = LoopThread /\ RunInline)
    PROVE  /\ Schedule' \in Seq(Task)
           /\ \E at \in 0..Len(Schedule) : InsertedAt(at, t)
<1>1. NewTask(t) \in Task
  BY NewTaskType DEF PushInLoop, RunInline, CanSubmit
<1>2. ran \in Seq(Task) /\ local \o tasks \in Seq(Task) /\ Schedule \in Seq(Task)
  BY ConcatProperties DEF TypeOK, Schedule
<1>3. CASE PushInLoop(t)
  <2>0. local \o Append(tasks, NewTask(t)) = Append(local \o tasks, NewTask(t))
    BY <1>1, AppendConcat DEF TypeOK
  <2>1. Schedule' = Append(Schedule, NewTask(t))
    BY <1>1, <1>2, <1>3, <2>0, AppendConcat DEF PushInLoop, Schedule
  <2>2. InsertedAt(Len(Schedule), t)
    BY <1>1, <1>2, <2>1, AppendProperties, LenProperties DEF InsertedAt
  <2> QED BY <1>1, <1>2, <2>1, <2>2, AppendProperties, LenProperties
<1>4. CASE t = LoopThread /\ RunInline
  <2>1. Schedule' = Append(ran, NewTask(t)) \o (local \o tasks)
    BY <1>4 DEF Schedule, RunInline
  <2>2. Schedule = ran \o (local \o tasks)
    BY DEF Schedule
  <2> DEFINE rest == local \o tasks
  <2> HIDE DEF rest
  <2>3. rest \in Seq(Task) /\ Schedule = ran \o rest
        /\ Schedule' = Append(ran, NewTask(t)) \o rest
    BY <1>2, <2>1, <2>2 DEF rest
  <2>4. /\ Schedule' \in Seq(Task)
        /\ Len(ran) \in 0..Len(Schedule)
        /\ Len(Schedule') = Len(Schedule) + 1
    BY <1>1, <1>2, <2>3, AppendInside
  <2>5. \A i \in 1..Len(Schedule) + 1 :
          Schedule'[i] = IF i <= Len(ran) THEN Schedule[i]
                         ELSE IF i = Len(ran) + 1 THEN NewTask(t) ELSE Schedule[i - 1]
    BY <1>1, <1>2, <2>3, AppendInside
  <2>6. InsertedAt(Len(ran), t)
    BY <1>4, <2>4, <2>5 DEF InsertedAt
  <2> QED BY <2>4, <2>6
<1> QED BY <1>3, <1>4

\* The task about to be submitted was not submitted before.
LEMMA SubmitNew ==
    ASSUME TypeOK, NEW t \in Threads,
           PushInLoop(t) \/ (t = LoopThread /\ RunInline)
    PROVE  NewTask(t) \notin Submitted /\ Submitted' = Submitted \cup {NewTask(t)}
BY SubmittedGrows DEF PushInLoop, RunInline, CanSubmit

\* No other step submits anything or changes the schedule: SwapTasks and
\* RunTask only move tasks from one of its parts to the next.
LEMMA OthersKeep ==
    ASSUME TypeOK,
           \/ \E t \in Threads : WakeUpEventFd(t)
           \/ TimerExpires \/ PollInterrupted \/ Start
           \/ UNCHANGED vars
    PROVE  Schedule' = Schedule /\ Submitted' = Submitted
<1>1. CASE SwapTasks
  <2>1. local = <<>> /\ tasks \in Seq(Task)
    BY <1>1 DEF SwapTasks, TypeOK
  <2>2. <<>> \o tasks = tasks /\ tasks \o <<>> = tasks
    BY <2>1, ConcatEmptySeq
  <2> QED BY <1>1, <2>1, <2>2 DEF SwapTasks, Schedule, Submitted
<1>2. CASE RunTask
  <2>1. /\ ran \in Seq(Task) /\ local \in Seq(Task) /\ tasks \in Seq(Task)
        /\ local # <<>>
    BY <1>2 DEF RunTask, TypeOK
  <2>2. Append(ran, Head(local)) \o (Tail(local) \o tasks) = ran \o (local \o tasks)
    BY <2>1, HeadMoves
  <2> QED BY <1>2, <2>2 DEF RunTask, Schedule, Submitted
<1>3. ASSUME NEW t \in Threads, WakeUpEventFd(t)
      PROVE  Schedule' = Schedule /\ Submitted' = Submitted
  BY <1>3 DEF WakeUpEventFd, Schedule, Submitted
<1>4. CASE TimerExpires \/ PollInterrupted \/ Poll \/ HandlerReturns
  BY <1>4 DEF TimerExpires, PollInterrupted, Poll, HandlerReturns, Schedule, Submitted
<1>5. ASSUME NEW ch \in {"eventfd", "timerfd"}, HandleEvent(ch)
      PROVE  Schedule' = Schedule /\ Submitted' = Submitted
  BY <1>5 DEF HandleEvent, Schedule, Submitted
<1>6. CASE TaskReturns \/ EndOfBatch \/ UNCHANGED vars
  BY <1>6 DEF TaskReturns, EndOfBatch, vars, Schedule, Submitted
<1> QED BY <1>1, <1>2, <1>3, <1>4, <1>5, <1>6 DEF Start

-----------------------------------------------------------------------------
(***************************************************************************)
(* No task is lost or run twice, whatever the interleaving of pushes,      *)
(* swaps and in-thread calls.                                              *)
(***************************************************************************)
THEOREM TasksRunExactlyOnce == Spec => []ExactlyOnce
<1>1. Init => ExactlyOnce
  BY EventLoopAssumption
  DEF Init, ExactlyOnce, Schedule, Submitted, Range, IsInjective, Task
<1>2. TypeOK /\ ExactlyOnce /\ [Next]_vars => ExactlyOnce'
  <2> SUFFICES ASSUME TypeOK, ExactlyOnce, [Next]_vars PROVE ExactlyOnce'
    OBVIOUS
  <2>1. ASSUME NEW t \in Threads, PushInLoop(t) \/ (t = LoopThread /\ RunInline)
        PROVE  ExactlyOnce'
    <3>1. Schedule \in Seq(Task) /\ Schedule' \in Seq(Task)
      BY <2>1, SubmitInserts, ConcatProperties DEF TypeOK, Schedule
    <3>2. PICK at \in 0..Len(Schedule) : InsertedAt(at, t)
      BY <2>1, SubmitInserts
    <3>3. NewTask(t) \notin Submitted /\ Submitted' = Submitted \cup {NewTask(t)}
      BY <2>1, SubmitNew
    <3>4. /\ Len(Schedule) \in Nat /\ at \in Nat
          /\ DOMAIN Schedule = 1..Len(Schedule)
          /\ DOMAIN Schedule' = 1..Len(Schedule) + 1
      BY <3>1, <3>2, LenProperties DEF InsertedAt
    <3>5. Inserted(Schedule', Schedule, Len(Schedule), at, NewTask(t))
      BY <3>2 DEF InsertedAt, Inserted
    <3>6. /\ Distinct(Schedule, Len(Schedule))
          /\ \A i \in 1..Len(Schedule) : Schedule[i] # NewTask(t)
      BY <3>3, <3>4 DEF ExactlyOnce, IsInjective, Range, Distinct
    <3>7. /\ Distinct(Schedule', Len(Schedule) + 1)
          /\ SameElements(Schedule', Schedule, Len(Schedule), NewTask(t))
      BY <3>4, <3>5, <3>6, InsertDistinct
    <3>8. Submitted = {Schedule[i] : i \in 1..Len(Schedule)}
      BY <3>4 DEF ExactlyOnce, Range
    <3>9. {Schedule'[i] : i \in 1..Len(Schedule) + 1} = Submitted'
      <4>1. \A i \in 1..Len(Schedule) + 1 : Schedule'[i] \in Submitted'
        BY <3>3, <3>7, <3>8 DEF SameElements
      <4>2. ASSUME NEW y \in Submitted'
            PROVE  \E i \in 1..Len(Schedule) + 1 : y = Schedule'[i]
        BY <3>3, <3>7, <3>8 DEF SameElements
      <4> QED BY <4>1, <4>2
    <3> QED BY <3>4, <3>7, <3>9 DEF ExactlyOnce, Range, IsInjective, Distinct
  <2>2. ASSUME Schedule' = Schedule /\ Submitted' = Submitted PROVE ExactlyOnce'
    BY <2>2 DEF ExactlyOnce, IsInjective, Range
  <2>3. LoopThread \in Threads
    BY DEF Threads
  <2> QED BY <2>1, <2>2, <2>3, OthersKeep DEF Next
<1> QED BY <1>1, <1>2, TypeInvariant, PTL DEF Spec

-----------------------------------------------------------------------------
(***************************************************************************)
(* Tasks of one posting thread keep their order. A push goes to the end    *)
(* with a higher number than anything its thread has in the schedule       *)
(* (which TasksRunExactlyOnce bounds by posted), and what RunInLoop inserts*)
(* in the middle belongs to no posting thread.                             *)
(***************************************************************************)
THEOREM PostersKeepOrder == Spec => []PosterOrder
<1>1. Init => PosterOrder
  BY DEF Init, PosterOrder, Schedule
<1>2. TypeOK /\ ExactlyOnce /\ PosterOrder /\ [Next]_vars => PosterOrder'
  <2> SUFFICES ASSUME TypeOK, ExactlyOnce, PosterOrder, [Next]_vars
               PROVE  PosterOrder'
    OBVIOUS
  <2>1. ASSUME NEW t \in Threads, PushInLoop(t) \/ (t = LoopThread /\ RunInline)
        PROVE  PosterOrder'
    <3>1. Schedule \in Seq(Task) /\ Schedule' \in Seq(Task)
      BY <2>1, SubmitInserts, ConcatProperties DEF TypeOK, Schedule
    <3>2. PICK at \in 0..Len(Schedule) : InsertedAt(at, t)
      BY <2>1, SubmitInserts
    <3>3. /\ Len(Schedule) \in Nat /\ at \in Nat
          /\ DOMAIN Schedule = 1..Len(Schedule)
          /\ DOMAIN Schedule' = 1..Len(Schedule) + 1
      BY <3>1, <3>2, LenProperties DEF InsertedAt
    <3>4. \A i \in 1..Len(Schedule) :
             Schedule[i] \in Task /\ Schedule[i][2] <= posted[Schedule[i][1]]
      BY <3>1, <3>3 DEF ExactlyOnce, Range, Submitted
    <3>5. NewTask(t)[1] = t /\ NewTask(t)[2] = posted[t] + 1 /\ posted[t] \in Nat
      BY <2>1 DEF NewTask, TypeOK
    <3> SUFFICES ASSUME NEW i \in 1..Len(Schedule) + 1, NEW j \in 1..Len(Schedule) + 1,
                        i < j, Schedule'[i][1] \in Posters,
                        Schedule'[i][1] = Schedule'[j][1]
                 PROVE  Schedule'[i][2] < Schedule'[j][2]
      BY <3>3 DEF PosterOrder
    <3> DEFINE before(k) == IF k <= at THEN k ELSE k - 1
    <3>6. ASSUME NEW k \in 1..Len(Schedule) + 1
          PROVE  /\ k = at + 1 => Schedule'[k] = NewTask(t)
                 /\ k # at + 1 => /\ before(k) \in 1..Len(Schedule)
                                  /\ Schedule'[k] = Schedule[before(k)]
      <4>1. Schedule'[k] = IF k <= at THEN Schedule[k]
                           ELSE IF k = at + 1 THEN NewTask(t) ELSE Schedule[k - 1]
        BY <3>2 DEF InsertedAt
      <4> QED BY <3>3, <4>1
    <3>7. CASE i # at + 1 /\ j # at + 1
      <4>1. before(i) < before(j)
        BY <3>3, <3>7
      <4>2. /\ before(i) \in 1..Len(Schedule) /\ Schedule'[i] = Schedule[before(i)]
            /\ before(j) \in 1..Len(Schedule) /\ Schedule'[j] = Schedule[before(j)]
        BY <3>6, <3>7
      <4> HIDE DEF before
      <4> QED BY <3>3, <4>1, <4>2 DEF PosterOrder
    <3>8. CASE j = at + 1
      <4>1. i # at + 1 /\ Schedule'[i] = Schedule[before(i)] /\ before(i) \in 1..Len(Schedule)
        BY <3>6, <3>8
      <4>2. Schedule[before(i)][1] = t
        BY <3>5, <3>6, <3>8, <4>1
      <4>3. Schedule[before(i)][2] <= posted[t]
        BY <3>4, <4>1, <4>2
      <4>4. Schedule[before(i)][2] \in Nat
        BY <3>4, <4>1, EventLoopAssumption DEF Task
      <4> HIDE DEF before
      <4> QED BY <3>5, <3>6, <3>8, <4>1, <4>3, <4>4
    <3>9. CASE i = at + 1
      <4>1. t \in Posters
        BY <3>5, <3>6, <3>9
      <4>2. at = Len(Schedule)
        BY <3>2, <4>1, EventLoopAssumption DEF InsertedAt
      <4> QED BY <3>3, <3>9, <4>2
    <3> QED BY <3>7, <3>8, <3>9
  <2>2. ASSUME Schedule' = Schedule PROVE PosterOrder'
    BY <2>2 DEF PosterOrder
  <2>3. LoopThread \in Threads
    BY DEF Threads
  <2> QED BY <2>1, <2>2, <2>3, OthersKeep DEF Next
<1> QED BY <1>1, <1>2, TypeInvariant, TasksRunExactlyOnce, PTL DEF Spec

-----------------------------------------------------------------------------
(***************************************************************************)
(* The loop implements TaskExecutor: a push is Enqueue, RunInLoop in the   *)
(* loop's thread is RunInline, running the head of the batch is RunOldest, *)
(* and the eventfd, the timers, the poll and the swap are invisible.       *)
(***************************************************************************)
THEOREM LoopImplementsExecutor == Spec => ImplementsExecutor
<1>1. Init => Executor!Init
  BY EventLoopAssumption DEF Init, Executor!Init, Submitted, Task
<1>2. TypeOK /\ [Next]_vars => [Executor!Next]_(Executor!vars)
  <2> SUFFICES ASSUME TypeOK, [Next]_vars
               PROVE  Executor!Next \/ UNCHANGED Executor!vars
    OBVIOUS
  <2>0. local \in Seq(Task) /\ tasks \in Seq(Task) /\ ran \in Seq(Task)
    BY DEF TypeOK
  <2>1. ASSUME NEW t \in Threads, PushInLoop(t) PROVE Executor!Enqueue(NewTask(t))
    <3>1. NewTask(t) \notin Submitted /\ Submitted' = Submitted \cup {NewTask(t)}
      BY <2>1, SubmitNew
    <3>2. NewTask(t) \in Task
      BY <2>1, NewTaskType DEF PushInLoop, CanSubmit
    <3>3. local \o Append(tasks, NewTask(t)) = Append(local \o tasks, NewTask(t))
      BY <2>0, <3>2, AppendConcat
    <3> QED BY <2>1, <3>1, <3>3 DEF PushInLoop, Executor!Enqueue
  <2>2. CASE RunInline
    <3>1. LoopThread \in Threads
      BY DEF Threads
    <3>2. NewTask(LoopThread) \in Task
      BY <2>2, <3>1, NewTaskType DEF RunInline, CanSubmit
    <3>3. /\ NewTask(LoopThread) \notin Submitted
          /\ Submitted' = Submitted \cup {NewTask(LoopThread)}
      BY <2>2, <3>1, SubmitNew
    <3>4. Executor!RunInline(NewTask(LoopThread))
      BY <2>2, <3>3 DEF RunInline, Executor!RunInline
    <3> QED BY <3>2, <3>4 DEF Executor!Next
  <2>3. CASE RunTask
    <3>1. local # <<>>
      BY <2>3 DEF RunTask
    <3>2. /\ Head(local \o tasks) = Head(local)
          /\ Tail(local \o tasks) = Tail(local) \o tasks
          /\ local \o tasks # <<>>
      BY <2>0, <3>1, HeadMoves
    <3>3. Executor!RunOldest
      BY <2>3, <3>2 DEF RunTask, Executor!RunOldest, Submitted
    <3> QED BY <3>3 DEF Executor!Next
  <2>4. CASE SwapTasks
    <3>1. local = <<>>
      BY <2>4 DEF SwapTasks, TypeOK
    <3>2. <<>> \o tasks = tasks /\ tasks \o <<>> = tasks
      BY <2>0, ConcatEmptySeq
    <3> QED BY <2>4, <3>1, <3>2 DEF SwapTasks, Executor!vars, Submitted
  <2>5. ASSUME NEW t \in Threads, WakeUpEventFd(t) PROVE UNCHANGED Executor!vars
    BY <2>5 DEF WakeUpEventFd, Executor!vars, Submitted
  <2>6. CASE TimerExpires \/ PollInterrupted \/ Poll \/ HandlerReturns
    BY <2>6 DEF TimerExpires, PollInterrupted, Poll, HandlerReturns,
                Executor!vars, Submitted
  <2>7. ASSUME NEW ch \in {"eventfd", "timerfd"}, HandleEvent(ch)
        PROVE  UNCHANGED Executor!vars
    BY <2>7 DEF HandleEvent, Executor!vars, Submitted
  <2>8. CASE TaskReturns \/ EndOfBatch \/ UNCHANGED vars
    BY <2>8 DEF TaskReturns, EndOfBatch, vars, Executor!vars, Submitted
  <2>9. ASSUME NEW t \in Threads, PushInLoop(t) PROVE Executor!Next
    <3>1. NewTask(t) \in Task
      BY <2>9, NewTaskType DEF PushInLoop, CanSubmit
    <3> QED BY <2>1, <2>9, <3>1 DEF Executor!Next
  <2> QED BY <2>2, <2>3, <2>4, <2>5, <2>6, <2>7, <2>8, <2>9 DEF Next, Start
<1> QED BY <1>1, <1>2, TypeInvariant, PTL DEF Spec, ImplementsExecutor, Executor!Spec
=============================================================================
