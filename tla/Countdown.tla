----------------------------- MODULE Countdown -----------------------------
(***************************************************************************)
(* What a TimerWheel promises, with no slots and no references: each timer *)
(* counts down a number of ticks, a refresh winds it up again, and when it *)
(* reaches zero it goes off once, before the next tick; a cancelled timer  *)
(* counts down all the same but goes away without a callback.              *)
(* TimerWheel.tla implements this module.                                  *)
(***************************************************************************)
EXTENDS Naturals

CONSTANTS
    Id,         \* the timers' ids
    Period,     \* the numbers of ticks a timer may be set to
    None        \* not an id: no callback is running

VARIABLES
    period,     \* id -> what the timer is wound up to; 0 when it is not set
    remaining,  \* id -> ticks left; a timer that is set with 0 left is due
    silent,     \* the cancelled timers
    callback    \* the timer whose callback runs now, or None

vars == <<period, remaining, silent, callback>>

IsSet(id) == period[id] # 0 /\ callback # id
Due == {id \in Id : IsSet(id) /\ remaining[id] = 0}

Init ==
    /\ period = [id \in Id |-> 0]
    /\ remaining = [id \in Id |-> 0]
    /\ silent = {}
    /\ callback = None

Set(id, p) ==
    /\ period[id] = 0
    /\ period' = [period EXCEPT ![id] = p]
    /\ remaining' = [remaining EXCEPT ![id] = p]
    /\ UNCHANGED <<silent, callback>>

\* A due timer may still be saved by another timer's callback.
Refresh(id) ==
    /\ IsSet(id)
    /\ remaining' = [remaining EXCEPT ![id] = period[id]]
    /\ UNCHANGED <<period, silent, callback>>

Cancel(id) ==
    /\ IsSet(id)
    /\ silent' = silent \cup {id}
    /\ UNCHANGED <<period, remaining, callback>>

Tick ==
    /\ Due = {} /\ callback = None
    /\ remaining' = [id \in Id |-> IF IsSet(id) THEN remaining[id] - 1 ELSE 0]
    /\ UNCHANGED <<period, silent, callback>>

Clear(id) ==
    /\ period' = [period EXCEPT ![id] = 0]
    /\ silent' = silent \ {id}
    /\ UNCHANGED remaining

GoOff(id) ==
    /\ id \in Due \ silent /\ callback = None
    /\ callback' = id
    /\ UNCHANGED <<period, remaining, silent>>

CallbackReturns ==
    /\ callback # None
    /\ callback' = None
    /\ Clear(callback)

GoAway(id) ==
    /\ id \in Due \cap silent /\ callback = None
    /\ Clear(id)
    /\ UNCHANGED callback

Next ==
    \/ \E id \in Id :
          \/ \E p \in Period : Set(id, p)
          \/ Refresh(id) \/ Cancel(id) \/ GoOff(id) \/ GoAway(id)
    \/ CallbackReturns
    \/ Tick

Spec == Init /\ [][Next]_vars
=============================================================================
