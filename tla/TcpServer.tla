----------------------------- MODULE TcpServer -----------------------------
(***************************************************************************)
(* TcpServer of src/server.hpp with its base loop, its Acceptor and its    *)
(* pool of sub loops, also an empty one: who owns a Connection object      *)
(* when, which descriptor each Poller watches under which channel, the     *)
(* handoffs between the loops, the clients that wait for a descriptor, and *)
(* the timers of RunAfter, which share _next_id with the connections.      *)
(*                                                                         *)
(* With no sub loops the base loop serves the connections and RunInLoop    *)
(* runs at once what it queues otherwise.                                  *)
(*                                                                         *)
(* What a connection does between its establishment and its release is     *)
(* Connection.tla's ("CONNECTED" covers DISCONNECTING here): a callback    *)
(* queues Release not at all, once or several times. Other threads, which  *)
(* got the connection from its connected callback, call ShutDown and       *)
(* Release whenever they like. "DISCONNECTED" is a connection that was     *)
(* released, also when a late ShutDown set it to DISCONNECTING once more.  *)
(*                                                                         *)
(* The shared_ptrs of a connection are NewConnection's local, the entry of *)
(* _conns, those of other threads, and those captured by queued tasks; the *)
(* tasks of a batch keep theirs until the whole batch has run. The other   *)
(* tasks and the timer hold a raw `this`.                                  *)
(***************************************************************************)
EXTENDS Integers, Sequences, SequencesExt, FiniteSetsExt

CONSTANTS
    MaxThreads,     \* bound: SetThreadCount's argument
    Fd,             \* descriptor numbers the process may use for connections
    MaxClients,     \* bound: clients that connect
    MaxAfter,       \* bound: calls of RunAfter,
    AfterThreads,   \* bound: and the _thread_cnt with which they are made
    MaxCalls,       \* bound: calls of ShutDown and Release by other threads,
    CallThreads,    \* bound: and the _thread_cnt with which they are made,
    Shared,         \* bound: and the connections whose callbacks let them
    IntBits,        \* width of int (32), the type of RemoveConnectionInLoop's id
    MaxReleases,    \* bound: Release() calls one callback makes
    MayQuit,        \* bound: the loops whose connected callbacks may make one
    TimedThreads    \* the _thread_cnt with which EnableInactiveRelease was called

ASSUME TcpServerAssumption ==
    /\ MaxThreads \in Nat
    /\ Fd \subseteq Nat /\ Fd # {}
    /\ MaxClients \in Nat /\ MaxAfter \in Nat
    /\ MaxCalls \in Nat /\ MaxReleases \in Nat
    /\ MayQuit \subseteq 0..MaxThreads /\ AfterThreads \subseteq 0..MaxThreads
    /\ CallThreads \subseteq 0..MaxThreads /\ Shared \subseteq Nat
    /\ IntBits \in Nat \ {0}
    /\ TimedThreads \subseteq 0..MaxThreads

Base == 0
Loop == 0..MaxThreads           \* the base loop, then _loops[0], _loops[1], ...
Id == 1..MaxClients + MaxAfter  \* what _next_id gives to connections and timers

\* What `actives` holds for the timerfd's channel and for the Acceptor's.
Timer == 0
Acceptor == -1
NoConn == 0

VARIABLES
    cnt,        \* _thread_cnt
    next_id,    \* _next_id
    next_idx,   \* LoopThreadPool::_next_idx
    creating,   \* the connection NewConnection is about, or NoConn
    step,       \* what NewConnection does next
    conns,      \* _conns: key -> connection
    fd,         \* connection -> its descriptor number
    loop,       \* connection -> its loop
    stat,       \* connection -> "none" before it is created, then _stat
    open,       \* the connections whose socket is not closed
    held,       \* the connections to which other threads have a shared_ptr
    armed,      \* <<loop, id>> of the timers in the loops' wheels
    functors,   \* the ids of RunAfter's timers whose function has not run
    clients,    \* clients that wait in the listening socket's backlog
    afters,     \* calls of RunAfter so far
    calls,      \* calls of ShutDown and Release by other threads so far
    channels,   \* loop -> fd -> connection whose Channel the Poller has
    epoll,      \* loop -> the descriptors its epoll instance watches
    actives,    \* loop -> channels of the current dispatch loop
    tasks,      \* loop -> its _tasks: <<task, id>>
    batch,      \* loop -> the batch it runs, and how many are done
    done,
    pc,         \* loop -> where it is in Start
    late        \* history: somebody acted on an Ending connection, see there

newVars == <<cnt, next_idx, creating, step>>
connVars == <<fd, loop, stat, open>>
timerVars == <<next_id, armed, functors>>
envVars == <<clients, afters, calls, held>>
pollerVars == <<channels, epoll>>
loopVars == <<actives, batch, done, pc>>
vars == <<newVars, conns, connVars, timerVars, envVars, pollerVars, loopVars, tasks,
          late>>

Init ==
    /\ cnt \in 0..MaxThreads
    /\ next_id = 0 /\ next_idx = 0
    /\ creating = NoConn /\ step = "establish"
    /\ conns = [k \in {} |-> NoConn]
    /\ fd = [c \in Id |-> 0] /\ loop = [c \in Id |-> Base]
    /\ stat = [c \in Id |-> "none"]
    /\ open = {} /\ armed = {} /\ functors = {}
    /\ clients = MaxClients /\ afters = 0 /\ calls = 0
    /\ held = {} /\ late = FALSE
    /\ channels = [l \in Loop |-> [f \in {} |-> NoConn]]
    /\ epoll = [l \in Loop |-> {}]
    /\ actives = [l \in Loop |-> {}]
    /\ tasks = [l \in Loop |-> <<>>]
    /\ batch = [l \in Loop |-> <<>>]
    /\ done = [l \in Loop |-> 0]
    /\ pc = [l \in Loop |-> "poll"]

-----------------------------------------------------------------------------
(***************************************************************************)
(* Ownership.                                                              *)
(***************************************************************************)
MutantHeldByTask_RawRelease(c) ==
    \E l \in Loop : <<"Remove", c>> \in Range(tasks[l]) \cup Range(batch[l])

\* A Release task and a RemoveConnection task hold a shared_ptr.
HeldByTask(c) ==
    \E l \in Loop :
        {<<"Release", c>>, <<"Remove", c>>} \cap (Range(tasks[l]) \cup Range(batch[l])) # {}

Alive(c) == creating = c \/ c \in Range(conns) \/ HeldByTask(c) \/ c \in held

\* What is left to run of a loop's batch, and of all it was given.
Rest(l) == SubSeq(batch[l], done[l] + 1, Len(batch[l]))

ToDo(l) == Rest(l) \o tasks[l]

\* It was released, or the batch under way will do so: a Release that is queued
\* now runs in a later batch than another one.
Ending(c) == stat[c] = "DISCONNECTED" \/ <<"Release", c>> \in Range(Rest(loop[c]))

-----------------------------------------------------------------------------
(***************************************************************************)
(* The functions the loops run, each for one connection or timer.          *)
(***************************************************************************)
Push(l, t) == tasks' = [tasks EXCEPT ![l] = Append(@, t)]

\* n calls of Release() by a callback of c: PushInLoop, at c's loop.
Releases(c, n) ==
    tasks' = [tasks EXCEPT ![loop[c]] = @ \o [i \in 1..n |-> <<"Release", c>>]]

\* A map after an insertion under k, which keeps what is there, and an erasure.
With(f, k, v) == [x \in DOMAIN f \cup {k} |-> IF x \in DOMAIN f THEN f[x] ELSE v]

Without(f, k) == [x \in DOMAIN f \ {k} |-> f[x]]

\* Poller::UpdateEvent goes by the descriptor's number: an entry of _channels
\* under it makes the call a MOD, which puts nothing into epoll, and an ADD takes
\* whoever has the number open now.
UpdateEvent(l, c) ==
    IF fd[c] \in DOMAIN channels[l]
      THEN UNCHANGED pollerVars
      ELSE /\ channels' = [channels EXCEPT ![l] = With(@, fd[c], c)]
           /\ epoll' = [epoll EXCEPT ![l] = @ \cup ({fd[c]} \cap {fd[d] : d \in open})]

MutantRemoveEvent_EpollOnly(l, c) ==
    epoll' = [epoll EXCEPT ![l] = @ \ {fd[c]}] /\ UNCHANGED channels

\* So does Poller::RemoveEvent, whichever connection's channel is there. The
\* Close behind it takes an open descriptor off every epoll instance.
RemoveEvent(l, c) ==
    /\ channels' = [channels EXCEPT ![l] = Without(@, fd[c])]
    /\ epoll' = [m \in Loop |->
                    IF c \in open \/ (m = l /\ fd[c] \in DOMAIN channels[m])
                      THEN epoll[m] \ {fd[c]} ELSE epoll[m]]

RegisterInactiveReleaseInLoop(c) == armed' = armed \cup {<<loop[c], c>>}

\* The assertion on the status, which stops the program, then EnableRead and
\* the connected callback, which may give the connection to other threads.
EstablishInLoop(c) ==
    /\ stat[c] = "CONNECTING"
    /\ stat' = [stat EXCEPT ![c] = "CONNECTED"]
    /\ UpdateEvent(loop[c], c)
    /\ held' = IF cnt \in CallThreads THEN held \cup ({c} \cap Shared) ELSE held
    /\ \E n \in 0..IF loop[c] \in MayQuit THEN MaxReleases ELSE 0 : Releases(c, n)

\* The queued task of a ShutDown of another thread. The message callback and
\* ShutDownInLoop release and subscribe to EPOLLOUT, whatever _stat is.
ShutDownInLoop(c) ==
    \E n \in 0..MaxReleases, write \in BOOLEAN :
        /\ Releases(c, n)
        /\ IF write THEN UpdateEvent(loop[c], c) ELSE UNCHANGED pollerVars
        /\ late' = (\/ late
                    \/ n > 0 /\ Ending(c)
                    \/ write /\ stat[c] = "DISCONNECTED")

\* uint64_t -> int -> uint64_t: ids whose top int bit is set become keys no
\* connection has (negative here).
AsInt(id) ==
    LET low == id % 2^IntBits
    IN  IF low < 2^(IntBits - 1) THEN low ELSE low - 2^IntBits

MutantRemoveConnectionInLoop_Nothing(c) == UNCHANGED conns

MutantRemoveConnectionInLoop_ByFd(c) == conns' = Without(conns, fd[c])

RemoveConnectionInLoop(c) == conns' = Without(conns, AsInt(c))

RemoveConnection(c) ==
    IF loop[c] = Base
      THEN RemoveConnectionInLoop(c) /\ UNCHANGED tasks
      ELSE Push(Base, <<"Remove", c>>) /\ UNCHANGED conns

MutantClose_Leaks(c) == UNCHANGED open

\* Socket::Close frees the descriptor; a second time it has no effect.
Close(c) == open' = open \ {c}

\* Close, cancel the timer, and call the server's close callback.
ReleaseInLoop(c) ==
    /\ stat' = [stat EXCEPT ![c] = "DISCONNECTED"]
    /\ RemoveEvent(loop[c], c)
    /\ Close(c)
    /\ armed' = armed \ {<<loop[c], c>>}
    /\ RemoveConnection(c)

MutantRunAfterInLoop_SameId ==
    /\ UNCHANGED next_id
    /\ armed' = armed \cup {<<Base, next_id>>}
    /\ functors' = functors \cup {next_id}

RunAfterInLoop ==
    /\ next_id' = next_id + 1
    /\ armed' = armed \cup {<<Base, next_id'>>}
    /\ functors' = functors \cup {next_id'}

-----------------------------------------------------------------------------
(***************************************************************************)
(* RunAfter, from another thread or from a handler of the base loop, where *)
(* it runs at once.                                                        *)
(***************************************************************************)
RunAfter ==
    /\ afters < MaxAfter /\ cnt \in AfterThreads
    /\ afters' = afters + 1
    /\ \/ Push(Base, <<"RunAfter", NoConn>>) /\ UNCHANGED timerVars
       \/ pc[Base] = "dispatch" /\ RunAfterInLoop /\ UNCHANGED tasks
    /\ UNCHANGED <<newVars, conns, connVars, clients, calls, held, pollerVars, loopVars,
                   late>>

-----------------------------------------------------------------------------
(***************************************************************************)
(* Other threads. A ShutDown task holds a raw `this`: its caller keeps the *)
(* connection until the task has run.                                      *)
(***************************************************************************)
ShutDown(c) ==
    /\ Push(loop[c], <<"ShutDown", c>>)
    /\ UNCHANGED late

Release(c) ==
    /\ Push(loop[c], <<"Release", c>>)
    /\ late' = (late \/ Ending(c))

Call ==
    /\ calls < MaxCalls
    /\ calls' = calls + 1
    /\ \E c \in held : ShutDown(c) \/ Release(c)
    /\ UNCHANGED <<newVars, conns, connVars, timerVars, clients, afters, held, pollerVars,
                   loopVars>>

\* The thread drops its shared_ptr.
Drop(c) ==
    /\ c \in held
    /\ <<"ShutDown", c>> \notin Range(ToDo(loop[c]))
    /\ held' = held \ {c}
    /\ UNCHANGED <<newVars, conns, connVars, timerVars, clients, afters, calls, pollerVars,
                   loopVars, tasks, late>>

-----------------------------------------------------------------------------
(***************************************************************************)
(* Accepting, inside the handler of the Acceptor's channel.                *)
(***************************************************************************)
FreeFds == Fd \ {fd[c] : c \in open}

\* The loop dispatches: no handler is running.
Dispatching(l) == pc[l] = "dispatch" /\ (l = Base => creating = NoConn)

Dispatch(l, channel) ==
    /\ Dispatching(l)
    /\ channel \in actives[l]
    /\ actives' = [actives EXCEPT ![l] = @ \ {channel}]
    /\ UNCHANGED <<batch, done, pc>>

\* LoopThreadPool::NextLoop, round robin, or the base loop.
NextLoop ==
    IF cnt = 0 THEN loop' = [loop EXCEPT ![next_id'] = Base] /\ UNCHANGED next_idx
               ELSE /\ next_idx' = (next_idx + 1) % cnt
                    /\ loop' = [loop EXCEPT ![next_id'] = next_idx' + 1]

\* Acceptor::HandleRead: accept() takes the lowest free descriptor, and
\* NewConnection creates the object. When it fails the client goes on waiting.
HandleRead ==
    /\ Dispatch(Base, Acceptor)
    /\ IF FreeFds = {}
         THEN UNCHANGED <<next_id, next_idx, creating, step, connVars, clients>>
         ELSE /\ clients' = clients - 1
              /\ next_id' = next_id + 1
              /\ NextLoop
              /\ creating' = next_id'
              /\ step' = "establish"
              /\ fd' = [fd EXCEPT ![next_id'] = Min(FreeFds)]
              /\ stat' = [stat EXCEPT ![next_id'] = "CONNECTING"]
              /\ open' = open \cup {next_id'}
    /\ UNCHANGED <<cnt, conns, armed, functors, afters, calls, held, pollerVars, tasks,
                   late>>

\* Two calls, each a task for a sub loop. What it might do between the two is
\* what it may do after both, as the timer is not due before Established.
Established ==
    /\ creating # NoConn /\ step = "establish"
    /\ step' = "insert"
    /\ IF loop[creating] = Base
         THEN /\ IF cnt \in TimedThreads
                   THEN RegisterInactiveReleaseInLoop(creating)
                   ELSE UNCHANGED armed
              /\ EstablishInLoop(creating)
         ELSE /\ tasks' = [tasks EXCEPT ![loop[creating]] = @ \o
                    (IF cnt \in TimedThreads THEN <<<<"Register", creating>>>> ELSE <<>>)
                        \o <<<<"Established", creating>>>>]
              /\ UNCHANGED <<stat, armed, pollerVars, held>>
    /\ UNCHANGED <<cnt, next_id, next_idx, creating, conns, fd, loop, open,
                   functors, clients, afters, calls, loopVars, late>>

MutantInsert_Nothing ==
    /\ creating # NoConn /\ step = "insert"
    /\ creating' = NoConn
    /\ UNCHANGED <<cnt, next_idx, step, conns, connVars, timerVars, envVars,
                   pollerVars, loopVars, tasks, late>>

\* The key is read again: it is another if the connected callback called
\* RunAfter meanwhile.
Insert ==
    /\ creating # NoConn /\ step = "insert"
    /\ conns' = With(conns, next_id, creating)
    /\ creating' = NoConn
    /\ UNCHANGED <<cnt, next_idx, step, connVars, timerVars, envVars, pollerVars,
                   loopVars, tasks, late>>

\* The rest of NewConnection.
NewConnection == Established \/ Insert

-----------------------------------------------------------------------------
(***************************************************************************)
(* A loop.                                                                 *)
(***************************************************************************)
\* A timer that goes off before Established is Connection.tla's subject.
Expirable(l) ==
    {id \in Id : <<l, id>> \in armed /\ (id \in functors \/ stat[id] # "CONNECTING")}

AcceptorReady(l) == IF l = Base /\ clients > 0 THEN {Acceptor} ELSE {}

\* Poller::Poll: the watched descriptors with events, looked up in _channels;
\* it also returns because tasks are queued.
Poll(l) ==
    /\ pc[l] = "poll"
    /\ \E ready \in SUBSET epoll[l], tick \in SUBSET {Timer} :
          /\ tick # {} => Expirable(l) # {}
          /\ actives' = [actives EXCEPT ![l] =
                            {channels[l][f] : f \in ready} \cup tick \cup AcceptorReady(l)]
          /\ actives'[l] # {} \/ tasks[l] # <<>>
    /\ pc' = [pc EXCEPT ![l] = "dispatch"]
    /\ UNCHANGED <<newVars, conns, connVars, timerVars, envVars, pollerVars,
                   tasks, batch, done, late>>

\* A tick with nothing due: the loop goes round once.
IdleTick(l) ==
    /\ pc[l] = "poll" /\ Expirable(l) = {}
    /\ UNCHANGED vars

\* Channel::HandleEvent of a connection. An event that ends nothing changes
\* nothing here and is left out. That of a destroyed connection is undefined
\* (NoDanglingPointers): the loop stops.
HandleEvent(l, c) ==
    /\ Dispatch(l, c)
    /\ Alive(c)
    /\ \E n \in 1..MaxReleases : Releases(c, n)
    /\ late' = (late \/ Ending(c))
    /\ UNCHANGED <<newVars, conns, connVars, timerVars, envVars, pollerVars>>

\* TimerWheel::Ontime: RunAfter's functions are called, a connection's timer
\* queues Release.
Ontime(l) ==
    /\ Dispatch(l, Timer)
    /\ \E off \in SUBSET Expirable(l) \ {{}} :
          /\ armed' = armed \ ({l} \X off)
          /\ functors' = functors \ off
          /\ tasks' = [tasks EXCEPT ![l] = @ \o SetToSeq({"Release"} \X (off \ functors))]
    /\ UNCHANGED <<newVars, next_id, conns, connVars, envVars, pollerVars, late>>

MutantAllDispatched_Any(l) == Dispatching(l)

AllDispatched(l) == Dispatching(l) /\ actives[l] = {}

SwapTasks(l) ==
    /\ AllDispatched(l)
    /\ batch' = [batch EXCEPT ![l] = tasks[l]]
    /\ tasks' = [tasks EXCEPT ![l] = <<>>]
    /\ pc' = [pc EXCEPT ![l] = IF tasks[l] = <<>> THEN "poll" ELSE "run"]
    /\ UNCHANGED <<newVars, conns, connVars, timerVars, envVars, pollerVars,
                   actives, done, late>>

RunTask(l) ==
    /\ pc[l] = "run" /\ done[l] < Len(batch[l])
    /\ done' = [done EXCEPT ![l] = @ + 1]
    /\ LET task == batch[l][done[l] + 1]
           id == task[2]
       IN  \/ /\ task[1] = "Register" /\ RegisterInactiveReleaseInLoop(id)
              /\ UNCHANGED <<next_id, conns, connVars, functors, pollerVars, tasks, held, late>>
           \/ /\ task[1] = "Established" /\ EstablishInLoop(id)
              /\ UNCHANGED <<conns, fd, loop, open, timerVars, late>>
           \/ /\ task[1] = "Release" /\ ReleaseInLoop(id)
              /\ UNCHANGED <<next_id, fd, loop, functors, held, late>>
           \/ /\ task[1] = "ShutDown" /\ ShutDownInLoop(id)
              /\ UNCHANGED <<conns, connVars, timerVars, held>>
           \/ /\ task[1] = "Remove" /\ RemoveConnectionInLoop(id)
              /\ UNCHANGED <<connVars, timerVars, pollerVars, tasks, held, late>>
           \/ /\ task[1] = "RunAfter" /\ RunAfterInLoop
              /\ UNCHANGED <<conns, connVars, pollerVars, tasks, held, late>>
    /\ UNCHANGED <<newVars, clients, afters, calls, actives, batch, pc>>

EndOfBatch(l) ==
    /\ pc[l] = "run" /\ done[l] = Len(batch[l])
    /\ batch' = [batch EXCEPT ![l] = <<>>]
    /\ done' = [done EXCEPT ![l] = 0]
    /\ pc' = [pc EXCEPT ![l] = "poll"]
    /\ UNCHANGED <<newVars, conns, connVars, timerVars, envVars, pollerVars,
                   actives, tasks, late>>

Start(l) ==
    \/ Poll(l) \/ IdleTick(l) \/ Ontime(l) \/ SwapTasks(l) \/ RunTask(l) \/ EndOfBatch(l)
    \/ \E c \in Id : HandleEvent(l, c)
    \/ l = Base /\ (HandleRead \/ NewConnection)

Next ==
    \/ RunAfter \/ Call
    \/ \E c \in Id : Drop(c)
    \/ \E l \in Loop : Start(l)

Spec == Init /\ [][Next]_vars

\* Every loop keeps turning; nobody has to connect.
FairSpec == Spec /\ \A l \in Loop : WF_vars(Start(l))

-----------------------------------------------------------------------------
\* The functions from a subset of S to T.
PartialFcns(S, T) == UNION {[D -> T] : D \in SUBSET S}

Task ==
    ({"Register", "Established", "Release", "ShutDown", "Remove"} \X Id)
        \cup {<<"RunAfter", NoConn>>}

TypeOK ==
    /\ cnt \in 0..MaxThreads /\ next_id \in 0..MaxClients + MaxAfter
    /\ next_idx \in Nat /\ (next_idx = 0 \/ next_idx < cnt)
    /\ creating \in Id \cup {NoConn}
    /\ creating # NoConn => pc[Base] = "dispatch"
    /\ step \in {"establish", "insert"}
    /\ conns \in PartialFcns(Id, Id)
    /\ fd \in [Id -> Fd \cup {0}] /\ loop \in [Id -> 0..cnt]
    /\ stat \in [Id -> {"none", "CONNECTING", "CONNECTED", "DISCONNECTED"}]
    /\ open \subseteq {c \in Id : stat[c] # "none"}
    /\ armed \subseteq (0..cnt) \X Id /\ functors \subseteq Id
    /\ clients \in 0..MaxClients /\ afters \in 0..MaxAfter /\ calls \in 0..MaxCalls
    /\ held \subseteq Id /\ late \in BOOLEAN
    /\ channels \in [Loop -> PartialFcns(Fd, Id)] /\ epoll \in [Loop -> SUBSET Fd]
    /\ actives \in [Loop -> SUBSET (Id \cup {Timer, Acceptor})]
    /\ tasks \in [Loop -> Seq(Task)] /\ batch \in [Loop -> Seq(Task)]
    /\ done \in [Loop -> Nat] /\ pc \in [Loop -> {"poll", "dispatch", "run"}]
    /\ \A l \in Loop :
          /\ Acceptor \in actives[l] => l = Base
          /\ done[l] <= Len(batch[l])
          /\ batch[l] # <<>> => pc[l] = "run"
          /\ actives[l] # {} => pc[l] = "dispatch"

(***************************************************************************)
(* No raw pointer is left to a destroyed connection: in a task (Register,  *)
(* Established), in the array of the dispatch loop, which stays valid      *)
(* whatever a timer, another channel's handler or the base loop did in     *)
(* between (test/client4.cc:14-15), or in the callback of a live timer.    *)
(***************************************************************************)
NoDanglingPointers ==
    /\ \A l \in Loop :
          /\ \A t \in Range(ToDo(l)) : t[1] = "RunAfter" \/ Alive(t[2])
          /\ late \/ \A c \in actives[l] \ {Timer, Acceptor} : Alive(c)
    /\ \A t \in armed : t[2] \in functors \/ Alive(t[2])

(***************************************************************************)
(* Descriptor numbers are reused at once, on any loop, and Release may run *)
(* again after its descriptor went to another connection. Yet a Poller     *)
(* watches exactly the descriptors of its loop's established connections,  *)
(* each with that connection's channel: none is watched for a dead one,    *)
(* none goes unwatched. It is so until a Release is queued for a           *)
(* connection that is Ending, or a ShutDown subscribes a released one      *)
(* (server.hpp:1030, 1041: ShutDownInLoop does not look at _stat).         *)
(***************************************************************************)
WatchesOwnFds ==
    late \/ \A l \in Loop :
        /\ epoll[l] = DOMAIN channels[l]
        /\ \A f \in Fd, c \in Id :
              f \in epoll[l] /\ channels[l][f] = c
                <=> stat[c] = "CONNECTED" /\ c \in open /\ fd[c] = f /\ loop[c] = l

(***************************************************************************)
(* "Translates ready fds back into Channels" (README.md:53): the Channel   *)
(* of an established connection is the one its loop's Poller finds for its *)
(* descriptor.                                                             *)
(***************************************************************************)
TranslatesReadyFds ==
    \A c \in open : stat[c] = "CONNECTED" =>
        fd[c] \in epoll[loop[c]] /\ channels[loop[c]][fd[c]] = c

(***************************************************************************)
(* The table keeps what is served: a connection whose socket is open is in *)
(* _conns, or NewConnection has not come to the insertion yet, although a  *)
(* sub loop may release it and the base loop remove it at any time.        *)
(***************************************************************************)
OpenIsKnown ==
    \A c \in open : creating = c \/ c \in Range(conns)

(***************************************************************************)
(* A function given to RunAfter waits in the base loop's wheel until it is *)
(* called: no connection that is served by the same loop and released      *)
(* there cancels it by its id.                                             *)
(***************************************************************************)
FunctorsKept ==
    \A id \in functors : <<Base, id>> \in armed

(***************************************************************************)
(* "A sub loop asks the base loop to remove a closed one" (README.md:86):  *)
(* once the base loop has run that task the connection is not in _conns.   *)
(***************************************************************************)
RemoveRemoves ==
    \A i \in 1..done[Base] :
        batch[Base][i][1] = "Remove" => batch[Base][i][2] \notin Range(conns)

\* It was inserted under another key than its id.
Misfiled(c) == \E k \in DOMAIN conns : conns[k] = c /\ k # c

(***************************************************************************)
(* A released connection is destroyed in the end, once other threads have  *)
(* dropped their pointers, unless its connected callback, running inside   *)
(* NewConnection, took the next id for a RunAfter and so changed the key   *)
(* under which it was inserted (server.hpp:1197). Not when somebody acted  *)
(* on an Ending one (late): the loop may then stop at a destroyed one.     *)
(***************************************************************************)
ReleasedIsDestroyed ==
    \A c \in Id :
        stat[c] = "DISCONNECTED" ~> ~Alive(c) \/ c \in held \/ Misfiled(c) \/ late

\* Each descriptor belongs to a connection whose end nobody has asked for.
AllInService ==
    \A f \in Fd : \E c \in open :
        /\ fd[c] = f /\ stat[c] = "CONNECTED"
        /\ <<"Release", c>> \notin Range(ToDo(loop[c]))

(***************************************************************************)
(* A failing accept loses nobody: a client waits only while connections in *)
(* service have all descriptors, however often accept failed before; not   *)
(* when somebody acted on an Ending connection, as above.                  *)
(***************************************************************************)
ClientsAreAccepted ==
    clients > 0 ~> clients = 0 \/ AllInService \/ late

(***************************************************************************)
(* Each connection is accepted, served, released and destroyed in this     *)
(* order: not destroyed before its release, however the loops' references  *)
(* go, and not served or released again afterwards.                        *)
(***************************************************************************)
Stage(c) ==
    CASE stat[c] = "none" -> "none"
      [] stat[c] # "none" /\ ~Alive(c) -> "destroyed"
      [] stat[c] = "CONNECTING" /\ Alive(c) -> "accepted"
      [] stat[c] = "CONNECTED" /\ Alive(c) -> "served"
      [] stat[c] = "DISCONNECTED" /\ Alive(c) -> "released"

Life == INSTANCE ConnectionLife WITH Conn <- Id, stage <- [c \in Id |-> Stage(c)]

ImplementsLife == Life!Spec
=============================================================================
