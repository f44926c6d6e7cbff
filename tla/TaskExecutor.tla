---------------------------- MODULE TaskExecutor ----------------------------
(***************************************************************************)
(* What EventLoop::RunInLoop promises to its callers, with no threads, no  *)
(* eventfd and no batches: a task handed over by another thread waits in a *)
(* first-in first-out queue and is run once; a task submitted from the     *)
(* loop's own thread may instead run at once, ahead of the queue.          *)
(* EventLoop.tla implements this module.                                   *)
(***************************************************************************)
EXTENDS Sequences

CONSTANT Task

VARIABLES
    issued,     \* the tasks handed over so far
    queue,      \* those that have not run yet, oldest first
    ran         \* the tasks in the order in which they ran

vars == <<issued, queue, ran>>

Init ==
    /\ issued = {}
    /\ queue = <<>>
    /\ ran = <<>>

Enqueue(t) ==
    /\ t \notin issued
    /\ issued' = issued \cup {t}
    /\ queue' = Append(queue, t)
    /\ UNCHANGED ran

RunInline(t) ==
    /\ t \notin issued
    /\ issued' = issued \cup {t}
    /\ ran' = Append(ran, t)
    /\ UNCHANGED queue

RunOldest ==
    /\ queue # <<>>
    /\ queue' = Tail(queue)
    /\ ran' = Append(ran, Head(queue))
    /\ UNCHANGED issued

Next ==
    \/ \E t \in Task : Enqueue(t) \/ RunInline(t)
    \/ RunOldest

Spec == Init /\ [][Next]_vars
=============================================================================
