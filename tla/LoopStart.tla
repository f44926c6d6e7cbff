----------------------------- MODULE LoopStart -----------------------------
(***************************************************************************)
(* The start of TcpServer: LoopThreadPool::CreateLoops makes one           *)
(* LoopThread after the other, each of which constructs its EventLoop on   *)
(* its own stack, and GetLoop waits for the pointer to it.                 *)
(***************************************************************************)
EXTENDS Naturals

CONSTANTS
    ThreadCnt,      \* _thread_cnt
    MaxSpurious     \* bound: spurious wake-ups

ASSUME LoopStartAssumption == ThreadCnt \in Nat /\ MaxSpurious \in Nat

Thread == 0..ThreadCnt - 1

VARIABLES
    main,       \* where the main thread is
    i,          \* CreateLoops' index
    loops,      \* _loops: those filled in, and what they point to
    thread,     \* where each thread is in ThreadEntry
    loop,       \* each LoopThread's _loop
    mutex,      \* who holds each _mutex
    signaled,   \* the _cond the main thread waits for was notified
    spurious    \* how many waits ended without

vars == <<main, i, loops, thread, loop, mutex, signaled, spurious>>

Init ==
    /\ main = (IF ThreadCnt > 0 THEN "init" ELSE "started")
    /\ i = 0
    /\ loops = [k \in {} |-> "loop"]
    /\ thread = [k \in Thread |-> "none"]
    /\ loop = [k \in Thread |-> "uninitialized"]
    /\ mutex = [k \in Thread |-> "free"]
    /\ signaled = FALSE /\ spurious = 0

-----------------------------------------------------------------------------
(***************************************************************************)
(* The main thread: CreateLoops with LoopThread's constructor and GetLoop. *)
(***************************************************************************)
MutantLoopThread_ThreadFirst ==
    \/ /\ main = "init" /\ main' = "spawn"
       /\ thread' = [thread EXCEPT ![i] = "construct"]
       /\ UNCHANGED <<i, loops, loop, mutex, signaled, spurious>>
    \/ /\ main = "spawn" /\ main' = "lock"
       /\ loop' = [loop EXCEPT ![i] = "null"]
       /\ UNCHANGED <<i, loops, thread, mutex, signaled, spurious>>

\* Members are initialised in the order they are declared: _loop, then _thread.
LoopThread ==
    \/ /\ main = "init" /\ main' = "spawn"
       /\ loop' = [loop EXCEPT ![i] = "null"]
       /\ UNCHANGED <<i, loops, thread, mutex, signaled, spurious>>
    \/ /\ main = "spawn" /\ main' = "lock"
       /\ thread' = [thread EXCEPT ![i] = "construct"]
       /\ UNCHANGED <<i, loops, loop, mutex, signaled, spurious>>

\* Also what a wait does before it returns.
Lock ==
    /\ main = "lock" /\ mutex[i] = "free"
    /\ main' = "check"
    /\ mutex' = [mutex EXCEPT ![i] = "main"]
    /\ UNCHANGED <<i, loops, thread, loop, signaled, spurious>>

\* The wait's condition fails: sleep, and let go of the mutex, in one step.
Wait ==
    /\ main = "check" /\ loop[i] = "null"
    /\ main' = "wait"
    /\ mutex' = [mutex EXCEPT ![i] = "free"]
    /\ signaled' = FALSE
    /\ UNCHANGED <<i, loops, thread, loop, spurious>>

WakeUp ==
    /\ main = "wait"
    /\ signaled \/ spurious < MaxSpurious
    /\ main' = "lock"
    /\ spurious' = IF signaled THEN spurious ELSE spurious + 1
    /\ UNCHANGED <<i, loops, thread, loop, mutex, signaled>>

MutantGetLoop_WaitsOnce ==
    /\ main = "check"
    /\ loop[i] # "null" \/ signaled \/ spurious > 0
    /\ loops' = [k \in 0..i |-> IF k = i THEN loop[i] ELSE loops[k]]
    /\ mutex' = [mutex EXCEPT ![i] = "free"]
    /\ i' = i + 1
    /\ main' = IF i' = ThreadCnt THEN "started" ELSE "init"
    /\ UNCHANGED <<thread, loop, signaled, spurious>>

\* The condition holds: on to the next thread, or to _baseloop.Start().
GetLoop ==
    /\ main = "check" /\ loop[i] # "null"
    /\ loops' = [k \in 0..i |-> IF k = i THEN loop[i] ELSE loops[k]]
    /\ mutex' = [mutex EXCEPT ![i] = "free"]
    /\ i' = i + 1
    /\ main' = IF i' = ThreadCnt THEN "started" ELSE "init"
    /\ UNCHANGED <<thread, loop, signaled, spurious>>

-----------------------------------------------------------------------------
(***************************************************************************)
(* ThreadEntry of thread k.                                                *)
(***************************************************************************)
Construct(k) ==
    /\ thread[k] = "construct"
    /\ thread' = [thread EXCEPT ![k] = "lock"]
    /\ UNCHANGED <<main, i, loops, loop, mutex, signaled, spurious>>

LockThread(k) ==
    /\ thread[k] = "lock" /\ mutex[k] = "free"
    /\ thread' = [thread EXCEPT ![k] = "set"]
    /\ mutex' = [mutex EXCEPT ![k] = "thread"]
    /\ UNCHANGED <<main, i, loops, loop, signaled, spurious>>

SetLoop(k) ==
    /\ thread[k] = "set"
    /\ thread' = [thread EXCEPT ![k] = "notify"]
    /\ loop' = [loop EXCEPT ![k] = "loop"]
    /\ UNCHANGED <<main, i, loops, mutex, signaled, spurious>>

\* notify_all wakes only who waits now.
Notify(k) ==
    /\ thread[k] = "notify"
    /\ thread' = [thread EXCEPT ![k] = "unlock"]
    /\ signaled' = (signaled \/ (main = "wait" /\ i = k))
    /\ UNCHANGED <<main, i, loops, loop, mutex, spurious>>

Unlock(k) ==
    /\ thread[k] = "unlock"
    /\ thread' = [thread EXCEPT ![k] = "run"]
    /\ mutex' = [mutex EXCEPT ![k] = "free"]
    /\ UNCHANGED <<main, i, loops, loop, signaled, spurious>>

ThreadEntry(k) ==
    Construct(k) \/ LockThread(k) \/ SetLoop(k) \/ Notify(k) \/ Unlock(k)

CreateLoops == LoopThread \/ Lock \/ Wait \/ GetLoop

Next ==
    \/ CreateLoops
    \/ WakeUp
    \/ \E k \in Thread : ThreadEntry(k)

Spec == Init /\ [][Next]_vars

\* Threads run on; a wait need not end unless it was notified.
FairSpec ==
    /\ Spec
    /\ WF_vars(CreateLoops)
    /\ WF_vars(signaled /\ WakeUp)
    /\ \A k \in Thread : WF_vars(ThreadEntry(k))

-----------------------------------------------------------------------------
(***************************************************************************)
(* A loop the pool hands out is a constructed one: GetLoop returns neither *)
(* early, on a spurious wake-up, nor with what _loop held before.          *)
(***************************************************************************)
LoopsAreReady ==
    \A k \in DOMAIN loops :
        loops[k] = "loop" /\ thread[k] \notin {"none", "construct"}

(***************************************************************************)
(* The server starts: no notification is missed, and every thread gets     *)
(* into its loop.                                                          *)
(***************************************************************************)
PoolStarts ==
    <>[](main = "started" /\ \A k \in Thread : thread[k] = "run")
=============================================================================
