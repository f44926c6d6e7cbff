-------------------------- MODULE LoopStartProofs --------------------------
(***************************************************************************)
(* Theorems about LoopStart for any number of threads and spurious wakeups.*)
(***************************************************************************)
EXTENDS LoopStart, TLAPS

\* The types, and how far CreateLoops is: loops has the entries before i.
StartOK ==
    /\ main \in {"init", "spawn", "lock", "check", "wait", "started"}
    /\ i \in 0..ThreadCnt
    /\ main # "started" => i \in Thread
    /\ thread \in [Thread -> {"none", "construct", "lock", "set", "notify", "unlock", "run"}]
    /\ loop \in [Thread -> {"uninitialized", "null", "loop"}]
    /\ DOMAIN loops = 0..i - 1

\* The threads CreateLoops has not come to do not run.
NotBegun ==
    /\ main \in {"init", "spawn"} => thread[i] = "none"
    /\ \A k \in Thread : k > i => thread[k] = "none"

\* GetLoop cannot see an uninitialised _loop, and a loop it can see was
\* constructed before.
LoopIsSet ==
    /\ main = "spawn" => loop[i] = "null"
    /\ main \in {"spawn", "lock", "check", "wait"} => loop[i] # "uninitialized"
    /\ \A k \in Thread : loop[k] = "loop" => thread[k] \in {"notify", "unlock", "run"}

LEMMA StartInvariant == Spec => []StartOK
<1> USE LoopStartAssumption
<1>1. Init => StartOK
  BY DEF Init, StartOK, Thread
<1>2. StartOK /\ [Next]_vars => StartOK'
  <2> SUFFICES ASSUME StartOK, [Next]_vars PROVE StartOK'
    OBVIOUS
  <2>1. CASE LoopThread
    BY <2>1 DEF LoopThread, StartOK
  <2>2. CASE Lock
    BY <2>2 DEF Lock, StartOK
  <2>3. CASE Wait
    BY <2>3 DEF Wait, StartOK
  <2>4. CASE GetLoop
    <3>1. i' = i + 1 /\ i \in Thread /\ DOMAIN loops' = 0..i' - 1
      BY <2>4 DEF GetLoop, StartOK, Thread
    <3>2. i' \in 0..ThreadCnt /\ (i' # ThreadCnt => i' \in Thread)
      BY <3>1 DEF Thread
    <3> QED BY <2>4, <3>1, <3>2 DEF GetLoop, StartOK
  <2>5. CASE WakeUp
    BY <2>5 DEF WakeUp, StartOK
  <2>6. ASSUME NEW k \in Thread, ThreadEntry(k) PROVE StartOK'
    BY <2>6 DEF ThreadEntry, Construct, LockThread, SetLoop, Notify, Unlock, StartOK
  <2>7. CASE UNCHANGED vars
    BY <2>7 DEF vars, StartOK
  <2> QED BY <2>1, <2>2, <2>3, <2>4, <2>5, <2>6, <2>7 DEF Next, CreateLoops
<1> QED BY <1>1, <1>2, PTL DEF Spec

LEMMA NotBegunInvariant == Spec => []NotBegun
<1>1. Init => NotBegun
  BY LoopStartAssumption DEF Init, NotBegun, Thread
<1>2. StartOK /\ NotBegun /\ [Next]_vars => NotBegun'
  <2> SUFFICES ASSUME StartOK, NotBegun, [Next]_vars PROVE NotBegun'
    OBVIOUS
  <2>0. i \in Nat /\ ThreadCnt \in Nat
    BY LoopStartAssumption DEF StartOK
  <2>1. CASE LoopThread
    BY <2>0, <2>1 DEF LoopThread, StartOK, NotBegun, Thread
  <2>2. CASE Lock
    BY <2>2 DEF Lock, NotBegun
  <2>3. CASE Wait
    BY <2>3 DEF Wait, NotBegun
  <2>4. CASE GetLoop
    <3>1. i' = i + 1 /\ thread' = thread /\ main' \in {"started", "init"}
      BY <2>4 DEF GetLoop
    <3>2. main' # "started" => i' \in Thread
      BY <2>0, <2>4, <3>1 DEF GetLoop, StartOK, Thread
    <3> QED BY <2>0, <3>1, <3>2 DEF NotBegun, Thread
  <2>5. CASE WakeUp
    BY <2>5 DEF WakeUp, NotBegun
  <2>6. ASSUME NEW k \in Thread, ThreadEntry(k) PROVE NotBegun'
    <3>1. main' = main /\ i' = i /\ thread[k] # "none"
      BY <2>6 DEF ThreadEntry, Construct, LockThread, SetLoop, Notify, Unlock
    <3>2. \A j \in Thread : j # k => thread'[j] = thread[j]
      BY <2>6 DEF ThreadEntry, Construct, LockThread, SetLoop, Notify, Unlock, StartOK
    <3> QED BY <3>1, <3>2 DEF NotBegun, StartOK
  <2>7. CASE UNCHANGED vars
    BY <2>7 DEF vars, NotBegun
  <2> QED BY <2>1, <2>2, <2>3, <2>4, <2>5, <2>6, <2>7 DEF Next, CreateLoops
<1> QED BY <1>1, <1>2, StartInvariant, PTL DEF Spec

\* The loops CreateLoops stores are constructed ones: the constructor sets
\* _loop before the thread runs, the thread sets it after it has the loop,
\* and GetLoop looks again after each wake-up.
THEOREM LoopsAlwaysReady == Spec => []LoopsAreReady
<1> DEFINE Inv == LoopIsSet /\ LoopsAreReady
<1>1. Init => Inv
  BY DEF Init, LoopIsSet, LoopsAreReady
<1>2. StartOK /\ NotBegun /\ Inv /\ [Next]_vars => Inv'
  <2> SUFFICES ASSUME StartOK, NotBegun, LoopIsSet, LoopsAreReady, [Next]_vars
               PROVE  LoopIsSet' /\ LoopsAreReady'
    OBVIOUS
  <2>0. /\ i \in 0..ThreadCnt /\ i \notin DOMAIN loops
        /\ \A k \in DOMAIN loops : k \in Thread
    BY LoopStartAssumption DEF StartOK, Thread
  <2>1. CASE LoopThread
    <3>1. i \in Thread
      BY <2>1 DEF LoopThread, StartOK
    <3>2. LoopIsSet'
      BY <2>1, <3>1 DEF LoopThread, StartOK, NotBegun, LoopIsSet
    <3>3. LoopsAreReady'
      BY <2>0, <2>1, <3>1 DEF LoopThread, StartOK, LoopsAreReady
    <3> QED BY <3>2, <3>3
  <2>2. CASE Lock
    BY <2>2 DEF Lock, LoopIsSet, LoopsAreReady
  <2>3. CASE Wait
    BY <2>3 DEF Wait, LoopIsSet, LoopsAreReady
  <2>4. CASE GetLoop
    <3>1. loop[i] = "loop" /\ thread[i] \notin {"none", "construct"}
      BY <2>4 DEF GetLoop, StartOK, LoopIsSet
    <3>2. LoopIsSet'
      BY <2>4 DEF GetLoop, LoopIsSet
    <3>3. ASSUME NEW k \in DOMAIN loops'
          PROVE  loops'[k] = "loop" /\ thread'[k] \notin {"none", "construct"}
      <4>1. thread' = thread /\ loops' = [j \in 0..i |-> IF j = i THEN loop[i] ELSE loops[j]]
        BY <2>4 DEF GetLoop
      <4>2. k \in 0..i
        BY <4>1, <3>3
      <4>3. CASE k = i
        BY <3>1, <4>1, <4>2, <4>3
      <4>4. CASE k # i
        <5>1. k \in DOMAIN loops
          BY <2>0, <4>2, <4>4 DEF StartOK
        <5> QED BY <4>1, <4>2, <4>4, <5>1 DEF LoopsAreReady
      <4> QED BY <4>3, <4>4
    <3> QED BY <3>2, <3>3 DEF LoopsAreReady
  <2>5. CASE WakeUp
    BY <2>5 DEF WakeUp, LoopIsSet, LoopsAreReady
  <2>6. ASSUME NEW k \in Thread, ThreadEntry(k) PROVE LoopIsSet' /\ LoopsAreReady'
    <3>1. main' = main /\ i' = i /\ loops' = loops
      BY <2>6 DEF ThreadEntry, Construct, LockThread, SetLoop, Notify, Unlock
    <3>2. main # "started" => i \in Thread
      BY DEF StartOK
    <3>3. LoopIsSet'
      BY <2>6, <3>1, <3>2 DEF ThreadEntry, Construct, LockThread, SetLoop, Notify, Unlock,
            StartOK, NotBegun, LoopIsSet
    <3>4. LoopsAreReady'
      BY <2>0, <2>6, <3>1 DEF ThreadEntry, Construct, LockThread, SetLoop, Notify, Unlock,
            StartOK, LoopsAreReady
    <3> QED BY <3>3, <3>4
  <2>7. CASE UNCHANGED vars
    BY <2>7 DEF vars, LoopIsSet, LoopsAreReady
  <2> QED BY <2>1, <2>2, <2>3, <2>4, <2>5, <2>6, <2>7 DEF Next, CreateLoops
<1> QED BY <1>1, <1>2, StartInvariant, NotBegunInvariant, PTL DEF Spec
=============================================================================
