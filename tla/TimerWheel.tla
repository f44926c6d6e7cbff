----------------------------- MODULE TimerWheel -----------------------------
(***************************************************************************)
(* TimerWheel of src/server.hpp as its loop's thread runs it. A Timertask  *)
(* lives as long as some slot of the wheel refers to it (shared_ptr);      *)
(* refreshing adds a reference further on, and the task's callback runs    *)
(* in its destructor, when Run clears the slot with the last reference.    *)
(*                                                                         *)
(* A slot is the SET of the ids it refers to: two references to one task   *)
(* in one slot are dropped together, and vector::clear() may destroy its   *)
(* elements in any order. Seconds pass at any moment (TimerExpires), also  *)
(* while the loop is busy elsewhere: Ontime then runs several ticks.       *)
(***************************************************************************)
EXTENDS Naturals, FiniteSetsExt

CONSTANTS
    Id,             \* ids of timer tasks
    None,           \* no id
    Capacity,       \* _capacity, the number of slots (60 in the code)
    Timeouts,       \* the timeouts tasks are added with
    MaxBacklog      \* bound: expirations the timerfd accumulates

ASSUME TimerWheelAssumption ==
    /\ None \notin Id
    /\ Capacity \in Nat \ {0}
    /\ Timeouts \subseteq Nat
    /\ MaxBacklog \in Nat \ {0}

Slots == 0..Capacity - 1
MaxAge == Capacity + 2 * MaxBacklog + 1     \* bound: beyond what OnSchedule allows

VARIABLES
    tick,       \* _tick
    wheel,      \* _wheel: slot -> the tasks it refers to
    mp,         \* the keys of _mp
    timeout,    \* id -> _timeout of its task
    canceled,   \* the tasks with _iscanceled set
    timerfd,    \* expirations the timerfd has counted and nobody read
    times,      \* Run() calls the current Ontime still has to make
    dying,      \* references of the slot being cleared, not destroyed yet
    callback,   \* the task whose _tcb runs in its destructor, or None
    age,        \* history: seconds since the task was added or refreshed, up to MaxAge
    behind      \* history: by how many ticks the wheel was late at that time

vars == <<tick, wheel, mp, timeout, canceled, timerfd, times, dying, callback,
          age, behind>>

\* The number of Run() calls after which a task placed now loses that slot: its
\* timeout modulo _capacity, hence the timeout itself for 1.._capacity only.
Delay(t) == IF t % Capacity = 0 THEN Capacity ELSE t % Capacity

\* The slots that refer to a task, and how many ticks ahead each one is.
SlotsOf(id) == {s \in Slots : id \in wheel[s]}
Ahead(s) == IF s > tick THEN s - tick ELSE s + Capacity - tick

Alive(id) == id \in dying \/ SlotsOf(id) # {}
Backlog == timerfd + times

\* The loop runs code that uses the wheel: a task's callback, or anything
\* outside Ontime.
InUserCode == callback # None \/ (times = 0 /\ dying = {})

Init ==
    /\ tick = 0
    /\ wheel = [s \in Slots |-> {}]
    /\ mp = {}
    /\ timeout = [id \in Id |-> 0]
    /\ canceled = {}
    /\ timerfd = 0
    /\ times = 0
    /\ dying = {}
    /\ callback = None
    /\ age = [id \in Id |-> 0]
    /\ behind = [id \in Id |-> 0]

-----------------------------------------------------------------------------
(***************************************************************************)
(* The operations, as their callers use them.                              *)
(***************************************************************************)
MutantPlace_OneEarly(id, t) ==
    /\ wheel' = [wheel EXCEPT ![(tick + t + Capacity - 1) % Capacity] = @ \cup {id}]
    /\ age' = [age EXCEPT ![id] = 0]
    /\ behind' = [behind EXCEPT ![id] = Backlog]

\* Both operations put the task `t` slots ahead. Adding to the very slot that
\* is being cleared (a callback asking for a multiple of Capacity ticks) is
\* undefined behaviour of std::vector and left out.
Place(id, t) ==
    /\ callback # None => t % Capacity # 0
    /\ wheel' = [wheel EXCEPT ![(tick + t) % Capacity] = @ \cup {id}]
    /\ age' = [age EXCEPT ![id] = 0]
    /\ behind' = [behind EXCEPT ![id] = Backlog]

\* RunAfterInLoop adds under a fresh id, RegisterInactiveReleaseInLoop only
\* when HasTimerTask says no.
AddTaskInLoop(id, t) ==
    /\ InUserCode
    /\ id \notin mp
    /\ Place(id, t)
    /\ mp' = mp \cup {id}
    /\ timeout' = [timeout EXCEPT ![id] = t]
    /\ UNCHANGED <<tick, canceled, timerfd, times, dying, callback>>

MutantRefreshTaskInLoop_NoLock(id) ==
    /\ InUserCode
    /\ id \in mp
    /\ Place(id, timeout[id])
    /\ UNCHANGED <<tick, mp, timeout, canceled, timerfd, times, dying, callback>>

\* Without a live task (no entry, or lock() finds it already in its
\* destructor) refreshing and cancelling do nothing.
RefreshTaskInLoop(id) ==
    /\ InUserCode
    /\ id \in mp /\ Alive(id)
    /\ Place(id, timeout[id])
    /\ UNCHANGED <<tick, mp, timeout, canceled, timerfd, times, dying, callback>>

MutantCancelInLoop_NoCheck(id) ==
    /\ InUserCode
    /\ canceled' = canceled \cup {id}
    /\ UNCHANGED <<tick, wheel, mp, timeout, timerfd, times, dying, callback,
                   age, behind>>

CancelInLoop(id) ==
    /\ InUserCode
    /\ id \in mp /\ Alive(id)
    /\ canceled' = canceled \cup {id}
    /\ UNCHANGED <<tick, wheel, mp, timeout, timerfd, times, dying, callback,
                   age, behind>>

-----------------------------------------------------------------------------
(***************************************************************************)
(* The passing of time, and Ontime.                                        *)
(***************************************************************************)
TimerExpires ==
    /\ timerfd < MaxBacklog
    /\ timerfd' = timerfd + 1
    /\ age' = [id \in Id |-> IF id \in mp /\ age[id] < MaxAge THEN age[id] + 1
                                                              ELSE age[id]]
    /\ UNCHANGED <<tick, wheel, mp, timeout, canceled, times, dying, callback,
                   behind>>

MutantOntime_OneTick ==
    /\ callback = None /\ times = 0 /\ dying = {}
    /\ timerfd > 0
    /\ times' = 1
    /\ timerfd' = 0
    /\ UNCHANGED <<tick, wheel, mp, timeout, canceled, dying, callback, age, behind>>

\* Ontime: ReadTimeFd returns and resets the number of expirations.
Ontime ==
    /\ callback = None /\ times = 0 /\ dying = {}
    /\ timerfd > 0
    /\ times' = timerfd
    /\ timerfd' = 0
    /\ UNCHANGED <<tick, wheel, mp, timeout, canceled, dying, callback, age, behind>>

\* Run: step to the next slot and start to clear it.
Run ==
    /\ callback = None /\ dying = {}
    /\ times > 0
    /\ times' = times - 1
    /\ tick' = (tick + 1) % Capacity
    /\ dying' = wheel[tick']
    /\ wheel' = [wheel EXCEPT ![tick'] = {}]
    /\ UNCHANGED <<mp, timeout, canceled, timerfd, callback, age, behind>>

MutantRemoveTask_Forgotten(id) ==
    /\ canceled' = canceled \ {id}
    /\ UNCHANGED <<mp, age, behind>>

\* ~Timertask ends with _rcb, which is RemoveTask(id).
RemoveTask(id) ==
    /\ mp' = mp \ {id}
    /\ canceled' = canceled \ {id}
    /\ UNCHANGED <<age, behind>>

MutantDropReference_CanceledStays(id) ==
    /\ callback = None
    /\ id \in dying
    /\ dying' = dying \ {id}
    /\ callback' = IF SlotsOf(id) = {} /\ id \notin canceled THEN id ELSE None
    /\ UNCHANGED <<mp, canceled, age, behind, tick, wheel, timeout, timerfd, times>>

\* clear() drops one reference; the last one runs ~Timertask, which calls
\* _tcb unless the task was cancelled.
DropReference(id) ==
    /\ callback = None
    /\ id \in dying
    /\ dying' = dying \ {id}
    /\ CASE SlotsOf(id) # {} ->
              UNCHANGED <<callback, mp, canceled, age, behind>>
         [] SlotsOf(id) = {} /\ id \in canceled ->
              RemoveTask(id) /\ UNCHANGED callback
         [] OTHER ->
              callback' = id /\ UNCHANGED <<mp, canceled, age, behind>>
    /\ UNCHANGED <<tick, wheel, timeout, timerfd, times>>

CallbackReturns ==
    /\ callback # None
    /\ callback' = None
    /\ RemoveTask(callback)
    /\ UNCHANGED <<tick, wheel, timeout, timerfd, times, dying>>

\* What the loop does by itself once the timerfd is readable.
Turn ==
    \/ Ontime
    \/ Run
    \/ \E id \in Id : DropReference(id)
    \/ CallbackReturns

Next ==
    \/ \E id \in Id :
          \/ \E t \in Timeouts : AddTaskInLoop(id, t)
          \/ RefreshTaskInLoop(id)
          \/ CancelInLoop(id)
    \/ TimerExpires
    \/ Turn

Spec == Init /\ [][Next]_vars

\* Time goes on, the loop comes back to the timerfd, and callbacks return.
FairSpec == Spec /\ WF_vars(TimerExpires) /\ WF_vars(Turn)

-----------------------------------------------------------------------------
\* Ticks left: the furthest slot that refers to the task.
Remaining(id) ==
    IF SlotsOf(id) = {} THEN 0 ELSE Max({Ahead(s) : s \in SlotsOf(id)})

TypeOK ==
    /\ tick \in Slots
    /\ wheel \in [Slots -> SUBSET Id]
    /\ mp \subseteq Id
    /\ timeout \in [Id -> Timeouts \cup {0}]
    /\ canceled \subseteq mp
    /\ timerfd \in 0..MaxBacklog
    /\ times \in 0..MaxBacklog
    /\ dying \subseteq Id
    /\ callback \in Id \cup {None}
    /\ age \in [Id -> 0..MaxAge]
    /\ behind \in [Id -> 0..2 * MaxBacklog]

(***************************************************************************)
(* _mp knows exactly the tasks that exist: those some slot refers to, and  *)
(* the one whose callback runs in its destructor. HasTimerTask decides by  *)
(* it whether an inactivity timer is added or refreshed.                   *)
(***************************************************************************)
MapMatchesWheel ==
    \A id \in Id : id \in mp <=> Alive(id) \/ callback = id

(***************************************************************************)
(* A task is destroyed once: while its callback runs no slot refers to it, *)
(* so neither a later tick nor a refresh from its callback revives it.     *)
(***************************************************************************)
NoRevival ==
    callback # None => ~Alive(callback) /\ callback \notin canceled

(***************************************************************************)
(* Wall-clock accuracy, against the timeout that was asked for. The        *)
(* seconds since a task was last added or refreshed and the ticks it has   *)
(* left add up to its timeout, corrected by how late the wheel was then    *)
(* and is now. So a task goes off early by at most the backlog at its last *)
(* refresh: a loop stalled in a callback that serves the connection before *)
(* the timerfd closes a fresh connection. This holds up to a timeout of a  *)
(* whole turn, the last slot included. Beyond (server.hpp:647 takes the    *)
(* modulo) only half of it is left: the task is never late, but goes off   *)
(* whole turns early. A timeout of 0, which lasts a turn, is left out.     *)
(***************************************************************************)
OnSchedule ==
    \A id \in Id : Alive(id) /\ timeout[id] >= 1 =>
        LET total == age[id] + behind[id] + Remaining(id)
            asked == timeout[id] + Backlog
        IN  /\ total <= asked
            /\ timeout[id] <= Capacity => total = asked

Timer == INSTANCE Countdown WITH
            Id <- Id,
            Period <- 1..Capacity,
            None <- None,
            period <- [id \in Id |-> IF id \in mp THEN Delay(timeout[id]) ELSE 0],
            remaining <- [id \in Id |-> Remaining(id)],
            silent <- canceled,
            callback <- callback

(***************************************************************************)
(* Slots, references and destructors together are plain countdown timers.  *)
(***************************************************************************)
ImplementsCountdown == Timer!Spec

(***************************************************************************)
(* A timer that is not refreshed for ever is gone in the end, cancelled or *)
(* not: no reference leaks.                                                *)
(***************************************************************************)
EventuallyGone ==
    \A id \in Id :
        <>[][~RefreshTaskInLoop(id)]_vars => (id \in mp ~> id \notin mp)
=============================================================================
