------------------------------ MODULE EventLoop ------------------------------
(***************************************************************************)
(* One EventLoop of src/server.hpp: the thread inside Start, the threads   *)
(* that hand it tasks through RunInLoop/PushInLoop, and the two kernel     *)
(* counters (eventfd, timerfd) that end its epoll_wait.                    *)
(*                                                                         *)
(* A step is what one thread does between two points where another thread  *)
(* can interfere: PushInLoop is two steps (the push under _mutex, then the *)
(* eventfd write), RunAllTasks is one step for the swap and one per task.  *)
(* The handlers of other channels (connections, acceptor) look to the      *)
(* queue like the timer's: a stretch of loop-thread code that may call     *)
(* RunInLoop and PushInLoop; HandleEvent("timerfd") stands for all.        *)
(***************************************************************************)
EXTENDS Naturals, Sequences, FiniteSets, Functions

CONSTANTS
    Posters,            \* threads other than the loop's that post tasks
    LoopThread,         \* the thread that runs Start()
    MaxPosts,           \* bound: tasks each thread submits
    MaxTasks,           \* bound: tasks submitted in all
    MaxExpirations,     \* bound: timer expirations the timerfd accumulates
    MayInterrupt        \* whether a signal may end epoll_wait or write()

Threads == Posters \cup {LoopThread}

ASSUME EventLoopAssumption ==
    /\ LoopThread \notin Posters
    /\ MaxPosts \in Nat \ {0} /\ MaxTasks \in Nat
    /\ MaxExpirations \in Nat \ {0}
    /\ MayInterrupt \in BOOLEAN

VARIABLES
    tasks,      \* _tasks, the queue guarded by _mutex
    local,      \* what is left of RunAllTasks' local vector
    eventfd,    \* the counter of _event_fd
    timerfd,    \* expirations of _timerfd not read yet
    actives,    \* channels Poll returned and Start has not dispatched yet
    pc,         \* where the loop thread is in Start()
    waking,     \* threads between the push and WakeUpEventFd
    posted,     \* how many tasks each thread has submitted
    ran,        \* history: the tasks in the order in which they ran
    gaveUp      \* history: threads that gave up a wake-up for what is queued

vars == <<tasks, local, eventfd, timerfd, actives, pc, waking, posted, ran, gaveUp>>

\* A task is named by the thread that submitted it and its number there.
Task == Threads \X (1..MaxPosts)
NewTask(t) == <<t, posted[t] + 1>>
Submitted == {k \in Task : k[2] <= posted[k[1]]}

\* The loop thread is inside a callback: a channel's or a task's.
InCallback == pc \in {"handler", "task"}

Init ==
    /\ tasks = <<>>
    /\ local = <<>>
    /\ eventfd = 0
    /\ timerfd = 0
    /\ actives = {}
    /\ pc = "poll"
    /\ waking = {}
    /\ posted = [t \in Threads |-> 0]
    /\ ran = <<>>
    /\ gaveUp = {}

-----------------------------------------------------------------------------
(***************************************************************************)
(* Submitting a task.                                                      *)
(***************************************************************************)
\* A thread calls into the loop only while it runs user code: the loop's own
\* thread inside a callback, and no thread in the middle of a previous call.
CanSubmit(t) ==
    /\ posted[t] < MaxPosts /\ Cardinality(Submitted) < MaxTasks
    /\ t \notin waking
    /\ t = LoopThread => InCallback

MutantPushInLoop_NoSelfWake(t) ==
    /\ CanSubmit(t)
    /\ tasks' = Append(tasks, NewTask(t))
    /\ waking' = IF t = LoopThread THEN waking ELSE waking \cup {t}
    /\ posted' = [posted EXCEPT ![t] = @ + 1]
    /\ UNCHANGED <<local, eventfd, timerfd, actives, pc, ran, gaveUp>>

MutantPushInLoop_Front(t) ==
    /\ CanSubmit(t)
    /\ tasks' = <<NewTask(t)>> \o tasks
    /\ waking' = waking \cup {t}
    /\ posted' = [posted EXCEPT ![t] = @ + 1]
    /\ UNCHANGED <<local, eventfd, timerfd, actives, pc, ran, gaveUp>>

\* PushInLoop, first half: push_back while holding _mutex.
PushInLoop(t) ==
    /\ CanSubmit(t)
    /\ tasks' = Append(tasks, NewTask(t))
    /\ waking' = waking \cup {t}
    /\ posted' = [posted EXCEPT ![t] = @ + 1]
    /\ UNCHANGED <<local, eventfd, timerfd, actives, pc, ran, gaveUp>>

\* PushInLoop, second half: the eventfd write, or its EINTR, which gives up.
WakeUpEventFd(t) ==
    /\ t \in waking
    /\ waking' = waking \ {t}
    /\ \/ eventfd' = eventfd + 1 /\ UNCHANGED gaveUp
       \/ /\ MayInterrupt
          /\ gaveUp' = IF tasks = <<>> THEN gaveUp ELSE gaveUp \cup {t}
          /\ UNCHANGED eventfd
    /\ UNCHANGED <<tasks, local, timerfd, actives, pc, posted, ran>>

\* RunInLoop from the loop's own thread: the callback runs on the spot.
RunInline ==
    /\ CanSubmit(LoopThread)
    /\ ran' = Append(ran, NewTask(LoopThread))
    /\ posted' = [posted EXCEPT ![LoopThread] = @ + 1]
    /\ UNCHANGED <<tasks, local, eventfd, timerfd, actives, pc, waking, gaveUp>>

-----------------------------------------------------------------------------
(***************************************************************************)
(* The loop thread: Poll, dispatch the active channels, RunAllTasks.       *)
(***************************************************************************)
\* The kernel counts one more expiration of the periodic timerfd.
TimerExpires ==
    /\ timerfd < MaxExpirations
    /\ timerfd' = timerfd + 1
    /\ UNCHANGED <<tasks, local, eventfd, actives, pc, waking, posted, ran, gaveUp>>

Ready == (IF eventfd > 0 THEN {"eventfd"} ELSE {})
            \cup (IF timerfd > 0 THEN {"timerfd"} ELSE {})

\* epoll_wait blocks until a descriptor is ready and returns all that are.
Poll ==
    /\ pc = "poll"
    /\ Ready # {}
    /\ actives' = Ready
    /\ pc' = "dispatch"
    /\ UNCHANGED <<tasks, local, eventfd, timerfd, waking, posted, ran, gaveUp>>

\* epoll_wait returns EINTR: Poll leaves actives empty and Start goes on.
PollInterrupted ==
    /\ pc = "poll"
    /\ MayInterrupt
    /\ pc' = "dispatch"
    /\ UNCHANGED <<tasks, local, eventfd, timerfd, actives, waking, posted, ran, gaveUp>>

\* Channel::HandleEvent: EventFdReadCb empties the eventfd, Ontime reads the
\* timerfd and goes on to the timers' callbacks.
HandleEvent(ch) ==
    /\ pc = "dispatch"
    /\ ch \in actives
    /\ actives' = actives \ {ch}
    /\ IF ch = "eventfd"
         THEN eventfd' = 0 /\ UNCHANGED <<timerfd, pc>>
         ELSE timerfd' = 0 /\ pc' = "handler" /\ UNCHANGED eventfd
    /\ UNCHANGED <<tasks, local, waking, posted, ran, gaveUp>>

MutantHandlerReturns_SkipsTasks ==
    /\ pc = "handler"
    /\ LoopThread \notin waking
    /\ pc' = "poll"
    /\ actives' = {}
    /\ UNCHANGED <<tasks, local, eventfd, timerfd, waking, posted, ran, gaveUp>>

HandlerReturns ==
    /\ pc = "handler"
    /\ LoopThread \notin waking
    /\ pc' = "dispatch"
    /\ UNCHANGED <<tasks, local, eventfd, timerfd, actives, waking, posted, ran, gaveUp>>

\* The dispatch loop is over and RunAllTasks takes the whole queue.
MutantSwapTasks_Copy ==
    /\ pc = "dispatch"
    /\ actives = {}
    /\ local' = tasks
    /\ gaveUp' = {}
    /\ pc' = "run"
    /\ UNCHANGED <<tasks, eventfd, timerfd, actives, waking, posted, ran>>

SwapTasks ==
    /\ pc = "dispatch"
    /\ actives = {}
    /\ local' = tasks
    /\ tasks' = <<>>
    /\ gaveUp' = {}
    /\ pc' = "run"
    /\ UNCHANGED <<eventfd, timerfd, actives, waking, posted, ran>>

RunTask ==
    /\ pc = "run"
    /\ local # <<>>
    /\ ran' = Append(ran, Head(local))
    /\ local' = Tail(local)
    /\ pc' = "task"
    /\ UNCHANGED <<tasks, eventfd, timerfd, actives, waking, posted, gaveUp>>

TaskReturns ==
    /\ pc = "task"
    /\ LoopThread \notin waking
    /\ pc' = "run"
    /\ UNCHANGED <<tasks, local, eventfd, timerfd, actives, waking, posted, ran, gaveUp>>

MutantEndOfBatch_AfterOne ==
    /\ pc = "run"
    /\ pc' = "poll"
    /\ UNCHANGED <<tasks, local, eventfd, timerfd, actives, waking, posted, ran, gaveUp>>

EndOfBatch ==
    /\ pc = "run"
    /\ local = <<>>
    /\ pc' = "poll"
    /\ UNCHANGED <<tasks, local, eventfd, timerfd, actives, waking, posted, ran, gaveUp>>

\* What the loop thread does by itself, callbacks' submissions excepted.
Start ==
    \/ Poll
    \/ \E ch \in {"eventfd", "timerfd"} : HandleEvent(ch)
    \/ HandlerReturns
    \/ SwapTasks
    \/ RunTask
    \/ TaskReturns
    \/ EndOfBatch

Next ==
    \/ \E t \in Threads : PushInLoop(t) \/ WakeUpEventFd(t)
    \/ RunInline
    \/ TimerExpires
    \/ PollInterrupted
    \/ Start

Spec == Init /\ [][Next]_vars

(***************************************************************************)
(* The loop thread keeps running and so does a thread inside PushInLoop;   *)
(* nobody has to submit a task, and signals and timer expirations may stop.*)
(***************************************************************************)
FairSpec ==
    /\ Spec
    /\ WF_vars(Start)
    /\ \A t \in Threads : WF_vars(WakeUpEventFd(t))

-----------------------------------------------------------------------------
\* Everything submitted, in the order in which it has run or will run.
Schedule == ran \o (local \o tasks)

(***************************************************************************)
(* Types, and what each point of Start implies: a batch exists only inside *)
(* RunAllTasks, undispatched channels only inside the dispatch loop, and   *)
(* the loop thread is inside PushInLoop only within a callback.            *)
(***************************************************************************)
TypeOK ==
    /\ tasks \in Seq(Task)
    /\ local \in Seq(Task)
    /\ ran \in Seq(Task)
    /\ eventfd \in Nat
    /\ timerfd \in 0..MaxExpirations
    /\ actives \subseteq {"eventfd", "timerfd"}
    /\ pc \in {"poll", "dispatch", "handler", "run", "task"}
    /\ waking \subseteq Threads
    /\ posted \in [Threads -> 0..MaxPosts]
    /\ gaveUp \subseteq Threads
    /\ local # <<>> => pc \in {"run", "task"}
    /\ actives # {} => pc \in {"dispatch", "handler"}
    /\ LoopThread \in waking => InCallback

(***************************************************************************)
(* A loop about to sleep in epoll_wait with work queued has a wake-up on   *)
(* its way: the eventfd is readable or some thread is about to write it.   *)
(* It rests on PushInLoop pushing before it writes, on RunAllTasks taking  *)
(* the queue after the eventfd was read, and on PushInLoop waking the loop *)
(* even from its own thread. Only an interrupted write gives it up.        *)
(***************************************************************************)
NoLostWakeup ==
    tasks # <<>> =>
        \/ eventfd > 0
        \/ waking # {}
        \/ pc \in {"dispatch", "handler"}
        \/ gaveUp # {}

(***************************************************************************)
(* Every task submitted is in exactly one place: it has run, or waits in   *)
(* the current batch or in _tasks. The swap loses and repeats none.        *)
(***************************************************************************)
ExactlyOnce ==
    /\ Range(Schedule) = Submitted
    /\ IsInjective(Schedule)

(***************************************************************************)
(* The tasks of one other thread run in the order it submitted them, across*)
(* batches and whatever the loop's own callbacks run inline in between.    *)
(***************************************************************************)
PosterOrder ==
    \A i, j \in DOMAIN Schedule :
        i < j /\ Schedule[i][1] \in Posters /\ Schedule[i][1] = Schedule[j][1]
            => Schedule[i][2] < Schedule[j][2]

Executor == INSTANCE TaskExecutor WITH
                Task <- Task,
                issued <- Submitted,
                queue <- local \o tasks,
                ran <- ran

(***************************************************************************)
(* The two queues, the batches and the wake-ups together are one FIFO      *)
(* queue of which RunInLoop's in-thread calls jump ahead.                  *)
(***************************************************************************)
ImplementsExecutor == Executor!Spec

(***************************************************************************)
(* Every task submitted is eventually run by wake-ups alone, with no help  *)
(* from the timer, unless a wake-up was given up since.                    *)
(***************************************************************************)
EveryTaskRuns ==
    \A k \in Task : k \in Submitted ~> k \in Range(ran) \/ gaveUp # {}

(***************************************************************************)
(* Even when wake-ups are given up every task is run in the end, since the *)
(* periodic timerfd (1 s, armed by TimerWheel's constructor) never stops.  *)
(***************************************************************************)
TicksRunTheRest ==
    WF_vars(TimerExpires) => \A k \in Task : k \in Submitted ~> k \in Range(ran)
=============================================================================
