-------------------------- MODULE TimerWheelProofs --------------------------
(***************************************************************************)
(* Proofs about TimerWheel for any number of tasks, any capacity and any   *)
(* timeouts: _mp and the wheel never disagree about which tasks exist, a   *)
(* task in its destructor is never revived, every task keeps its schedule  *)
(* to the second unless its timeout exceeds the capacity, and then is not  *)
(* late, and the wheel implements plain countdown timers.                  *)
(*                                                                         *)
(* Hardly any of this is inductive alone. RemoveTask may erase an id from  *)
(* _mp only because nothing refers to the task whose callback returns      *)
(* (NoRevival), and RefreshTaskInLoop cannot revive that task only because *)
(* lock() fails exactly when no reference is left, which _mp and the wheel *)
(* agree on (MapMatchesWheel). The schedule needs both, and that no slot   *)
(* refers to a task beyond its delay (WithinDelay). TypeOK is inductive by *)
(* itself.                                                                 *)
(***************************************************************************)
EXTENDS TimerWheel, WellFoundedInduction, TLAPS

-----------------------------------------------------------------------------
\* The slot a task is put into exists: (_tick + t) % _capacity is an index.
LEMMA SlotExists ==
    ASSUME tick \in Slots, NEW t \in Nat
    PROVE  (tick + t) % Capacity \in Slots
BY TimerWheelAssumption DEF Slots

\* Run's next _tick is an index of the wheel.
LEMMA NextSlot ==
    ASSUME tick \in Slots
    PROVE  (tick + 1) % Capacity \in Slots
BY TimerWheelAssumption DEF Slots

\* The wheel is always late by at most two full backlogs: one not read yet,
\* one that Ontime is working off.
LEMMA BacklogBound ==
    ASSUME TypeOK
    PROVE  Backlog \in 0..2 * MaxBacklog
BY TimerWheelAssumption DEF TypeOK, Backlog

\* What Place does to the wheel and the history variables is well typed.
LEMMA PlaceType ==
    ASSUME TypeOK, NEW id \in Id, NEW t \in Nat, Place(id, t)
    PROVE  /\ wheel' \in [Slots -> SUBSET Id]
           /\ age' \in [Id -> 0..MaxAge]
           /\ behind' \in [Id -> 0..2 * MaxBacklog]
<1>1. (tick + t) % Capacity \in Slots
  BY SlotExists DEF TypeOK
<1>2. wheel' \in [Slots -> SUBSET Id]
  BY <1>1 DEF TypeOK, Place
<1>3. 0 \in 0..MaxAge
  BY TimerWheelAssumption DEF MaxAge
<1>4. age' \in [Id -> 0..MaxAge]
  BY <1>3 DEF TypeOK, Place
<1>5. behind' \in [Id -> 0..2 * MaxBacklog]
  BY BacklogBound DEF TypeOK, Place
<1> QED
  BY <1>2, <1>4, <1>5

\* Every timeout of a task is one that AddTaskInLoop was called with, or the
\* initial 0: a number either way.
LEMMA TimeoutIsNat ==
    ASSUME TypeOK, NEW id \in Id
    PROVE  timeout[id] \in Nat
<1>1. timeout[id] \in Timeouts \/ timeout[id] = 0
  BY DEF TypeOK
<1>2. \A t \in Timeouts : t \in Nat
  BY TimerWheelAssumption
<1>3. CASE timeout[id] \in Timeouts
  BY <1>2, <1>3
<1>4. CASE timeout[id] = 0
  BY <1>4
<1> QED
  BY <1>1, <1>3, <1>4

\* The initial state is well typed.
LEMMA InitTypeOK ==
    Init => TypeOK
<1> SUFFICES ASSUME Init PROVE TypeOK
  OBVIOUS
<1>1. 0 \in Slots /\ 0 \in 0..MaxAge /\ 0 \in 0..MaxBacklog /\ 0 \in 0..2 * MaxBacklog
  BY TimerWheelAssumption DEF Slots, MaxAge
<1> QED
  BY <1>1 DEF Init, TypeOK

\* Every step keeps the types and canceled within _mp.
LEMMA NextTypeOK ==
    ASSUME TypeOK, [Next]_vars
    PROVE  TypeOK'
<1> USE TimerWheelAssumption
<1>1. ASSUME NEW id \in Id, NEW t \in Timeouts, AddTaskInLoop(id, t)
      PROVE  TypeOK'
  <2>1. t \in Nat
    OBVIOUS
  <2> QED
    BY <1>1, <2>1, PlaceType DEF AddTaskInLoop, TypeOK
<1>2. ASSUME NEW id \in Id, RefreshTaskInLoop(id)
      PROVE  TypeOK'
  BY <1>2, PlaceType, TimeoutIsNat DEF RefreshTaskInLoop, TypeOK
<1>3. ASSUME NEW id \in Id, CancelInLoop(id)
      PROVE  TypeOK'
  BY <1>3 DEF CancelInLoop, TypeOK
<1>4. CASE TimerExpires
  <2>1. ASSUME NEW i \in Id, age[i] < MaxAge
        PROVE  age[i] + 1 \in 0..MaxAge
    BY <2>1 DEF TypeOK, MaxAge
  <2>2. age' \in [Id -> 0..MaxAge]
    BY <1>4, <2>1 DEF TimerExpires, TypeOK
  <2> QED
    BY <1>4, <2>2 DEF TimerExpires, TypeOK
<1>5. CASE Ontime
  BY <1>5 DEF Ontime, TypeOK
<1>6. CASE Run
  <2>1. tick' \in Slots
    BY <1>6, NextSlot DEF Run, TypeOK
  <2>2. dying' \subseteq Id /\ wheel' \in [Slots -> SUBSET Id]
    BY <1>6, <2>1 DEF Run, TypeOK
  <2> QED
    BY <1>6, <2>1, <2>2 DEF Run, TypeOK
<1>7. ASSUME NEW id \in Id, DropReference(id)
      PROVE  TypeOK'
  BY <1>7 DEF DropReference, RemoveTask, TypeOK
<1>8. CASE CallbackReturns
  BY <1>8 DEF CallbackReturns, RemoveTask, TypeOK
<1>9. CASE UNCHANGED vars
  BY <1>9 DEF vars, TypeOK
<1> QED
  BY <1>1, <1>2, <1>3, <1>4, <1>5, <1>6, <1>7, <1>8, <1>9 DEF Next, Turn

\* The types hold in every state of every behaviour: in particular a task is
\* only ever cancelled while _mp has it, and every index into the wheel exists.
THEOREM TypeInvariant ==
    Spec => []TypeOK
BY InitTypeOK, NextTypeOK, PTL DEF Spec

-----------------------------------------------------------------------------
\* The two facts about tasks that hold each other up.
Consistent == MapMatchesWheel /\ NoRevival

\* Placing a task makes or keeps it alive and leaves the others as they were.
LEMMA PlaceAlive ==
    ASSUME TypeOK, NEW id \in Id, NEW t \in Nat, Place(id, t), dying' = dying
    PROVE  /\ Alive(id)'
           /\ \A i \in Id \ {id} : Alive(i)' <=> Alive(i)
<1> DEFINE s0 == (tick + t) % Capacity
<1>1. s0 \in Slots
  BY SlotExists DEF TypeOK
<1> HIDE DEF s0
<1>2. wheel' = [wheel EXCEPT ![s0] = @ \cup {id}]
  BY DEF Place, s0
<1>3. wheel \in [Slots -> SUBSET Id]
  BY DEF TypeOK
<1>4. id \in wheel'[s0]
  BY <1>1, <1>2, <1>3
<1>5. ASSUME NEW i \in Id \ {id}, NEW s \in Slots
      PROVE  i \in wheel'[s] <=> i \in wheel[s]
  BY <1>2, <1>3, <1>5
<1> QED
  BY <1>1, <1>4, <1>5 DEF Alive, SlotsOf

\* Initially there are no tasks.
LEMMA InitConsistent ==
    Init => Consistent
BY TimerWheelAssumption DEF Init, Consistent, MapMatchesWheel, NoRevival, Alive, SlotsOf

\* A new task has a fresh id, so it is not the one in its destructor.
LEMMA AddConsistent ==
    ASSUME TypeOK, Consistent, NEW id \in Id, NEW t \in Timeouts, AddTaskInLoop(id, t)
    PROVE  Consistent'
<1>1. t \in Nat
  BY TimerWheelAssumption
<1>2. /\ Alive(id)'
      /\ \A i \in Id \ {id} : Alive(i)' <=> Alive(i)
  BY <1>1, PlaceAlive DEF AddTaskInLoop
<1>3. MapMatchesWheel'
  BY <1>2 DEF Consistent, AddTaskInLoop, MapMatchesWheel
<1>4. NoRevival'
  BY <1>2 DEF Consistent, AddTaskInLoop, MapMatchesWheel, NoRevival, TypeOK
<1> QED
  BY <1>3, <1>4 DEF Consistent

\* Only a live task is refreshed, so not the one in its destructor either.
LEMMA RefreshConsistent ==
    ASSUME TypeOK, Consistent, NEW id \in Id, RefreshTaskInLoop(id)
    PROVE  Consistent'
<1>1. /\ Alive(id)'
      /\ \A i \in Id \ {id} : Alive(i)' <=> Alive(i)
  BY TimeoutIsNat, PlaceAlive DEF RefreshTaskInLoop
<1>2. MapMatchesWheel'
  BY <1>1 DEF Consistent, RefreshTaskInLoop, MapMatchesWheel
<1>3. NoRevival'
  BY <1>1 DEF Consistent, RefreshTaskInLoop, MapMatchesWheel, NoRevival, TypeOK
<1> QED
  BY <1>2, <1>3 DEF Consistent

\* Cancelling moves no reference, and only a live task is cancelled.
LEMMA CancelConsistent ==
    ASSUME TypeOK, Consistent, NEW id \in Id, CancelInLoop(id)
    PROVE  Consistent'
BY DEF CancelInLoop, Consistent, MapMatchesWheel, NoRevival, Alive, SlotsOf

\* Run moves the references of one slot into the vector being cleared.
LEMMA RunConsistent ==
    ASSUME TypeOK, Consistent, Run
    PROVE  Consistent'
<1>1. tick' \in Slots
  BY NextSlot DEF Run, TypeOK
<1>2. ASSUME NEW i \in Id
      PROVE  Alive(i)' <=> Alive(i)
  <2>1. dying = {} /\ dying' = wheel[tick'] /\ wheel' = [wheel EXCEPT ![tick'] = {}]
    BY DEF Run
  <2>2. \A s \in Slots : wheel'[s] = IF s = tick' THEN {} ELSE wheel[s]
    BY <2>1 DEF TypeOK
  <2> QED
    BY <1>1, <2>1, <2>2 DEF Alive, SlotsOf
<1>3. MapMatchesWheel'
  BY <1>2 DEF Consistent, Run, MapMatchesWheel
<1>4. NoRevival'
  BY DEF Run, NoRevival
<1> QED
  BY <1>3, <1>4 DEF Consistent

\* The last reference dropped makes the task leave _mp at once when it was
\* cancelled, else it enters its callback with no reference left.
LEMMA DropConsistent ==
    ASSUME TypeOK, Consistent, NEW id \in Id, DropReference(id)
    PROVE  Consistent'
<1>1. None \notin Id
  BY TimerWheelAssumption
<1>2. callback = None /\ id \in dying /\ dying' = dying \ {id} /\ wheel' = wheel
  BY DEF DropReference
<1>3. \A i \in Id : SlotsOf(i)' = SlotsOf(i)
  BY <1>2 DEF SlotsOf
<1>4. \A i \in Id \ {id} : Alive(i)' <=> Alive(i)
  BY <1>2, <1>3 DEF Alive
<1>5. Alive(id) /\ id \in mp /\ (Alive(id)' <=> SlotsOf(id) # {})
  BY <1>2, <1>3 DEF Alive, Consistent, MapMatchesWheel
<1>6. CASE SlotsOf(id) # {}
  BY <1>2, <1>4, <1>5, <1>6 DEF DropReference, Consistent, MapMatchesWheel, NoRevival
<1>7. CASE SlotsOf(id) = {} /\ id \in canceled
  BY <1>1, <1>2, <1>4, <1>5, <1>7
  DEF DropReference, RemoveTask, Consistent, MapMatchesWheel, NoRevival
<1>8. CASE SlotsOf(id) = {} /\ id \notin canceled
  BY <1>1, <1>2, <1>4, <1>5, <1>8
  DEF DropReference, Consistent, MapMatchesWheel, NoRevival
<1> QED
  BY <1>6, <1>7, <1>8

\* The task whose callback returns has no reference left, so _mp may lose it.
LEMMA ReturnConsistent ==
    ASSUME TypeOK, Consistent, CallbackReturns
    PROVE  Consistent'
<1>1. \A i \in Id : Alive(i)' <=> Alive(i)
  BY DEF CallbackReturns, Alive, SlotsOf
<1>2. callback \in Id /\ ~Alive(callback)
  BY DEF CallbackReturns, Consistent, NoRevival, TypeOK
<1>3. MapMatchesWheel'
  BY <1>1, <1>2, TimerWheelAssumption
  DEF CallbackReturns, RemoveTask, Consistent, MapMatchesWheel
<1>4. NoRevival'
  BY DEF CallbackReturns, NoRevival
<1> QED
  BY <1>3, <1>4 DEF Consistent

\* Every step keeps _mp and the wheel consistent.
LEMMA NextConsistent ==
    ASSUME TypeOK, Consistent, [Next]_vars
    PROVE  Consistent'
<1>1. CASE TimerExpires
  BY <1>1 DEF TimerExpires, Consistent, MapMatchesWheel, NoRevival, Alive, SlotsOf
<1>2. CASE Ontime
  BY <1>2 DEF Ontime, Consistent, MapMatchesWheel, NoRevival, Alive, SlotsOf
<1>3. CASE UNCHANGED vars
  BY <1>3 DEF vars, Consistent, MapMatchesWheel, NoRevival, Alive, SlotsOf
<1> QED
  BY <1>1, <1>2, <1>3, AddConsistent, RefreshConsistent, CancelConsistent,
     RunConsistent, DropConsistent, ReturnConsistent
  DEF Next, Turn

\* Types and consistency together hold in every state.
LEMMA AlwaysConsistent ==
    Spec => [](TypeOK /\ Consistent)
BY InitTypeOK, NextTypeOK, InitConsistent, NextConsistent, PTL DEF Spec

\* _mp has exactly the tasks that exist, so HasTimerTask, refreshing and
\* cancelling never miss a task and never act on one that is gone.
THEOREM MapAlwaysMatchesWheel ==
    Spec => []MapMatchesWheel
<1>1. TypeOK /\ Consistent => MapMatchesWheel
  BY DEF Consistent
<1> QED
  BY <1>1, AlwaysConsistent, PTL

\* A task's callback runs when nothing refers to the task any more and never
\* for a cancelled one, so it runs at most once for each time it is added.
THEOREM NeverRevives ==
    Spec => []NoRevival
<1>1. TypeOK /\ Consistent => NoRevival
  BY DEF Consistent
<1> QED
  BY <1>1, AlwaysConsistent, PTL

-----------------------------------------------------------------------------
(***************************************************************************)
(* Arithmetic of the wheel: how many ticks ahead a slot is.                *)
(***************************************************************************)
\* Quotient and remainder, and that there is one remainder only.
LEMMA Division ==
    ASSUME NEW C \in Nat \ {0}, NEW t \in Nat
    PROVE  t \div C \in Nat /\ t % C \in 0..C - 1 /\ t = C * (t \div C) + (t % C)
OBVIOUS

LEMMA OneRemainder ==
    ASSUME NEW C \in Nat \ {0}, NEW p \in Int, NEW q \in Int,
           NEW r \in 0..C - 1, NEW s \in 0..C - 1, C * p + r = C * q + s
    PROVE  r = s
<1>1. C * (p - q) = C * p - C * q
  OBVIOUS
<1>2. C * (p - q) = s - r
  BY <1>1
<1>3. ASSUME NEW d \in Int, d >= 1 PROVE C * d >= C /\ C * (-d) <= -C
  BY <1>3
<1>4. ~(p - q >= 1)
  BY <1>2, <1>3
<1>5. ~(q - p >= 1)
  <2>1. C * (q - p) = r - s
    BY <1>2
  <2> QED BY <2>1, <1>3
<1>6. p = q
  BY <1>4, <1>5
<1> QED BY <1>2, <1>6

\* Going t slots on from slot k is going t % C slots on, once round at most.
LEMMA RoundTheWheel ==
    ASSUME NEW C \in Nat \ {0}, NEW k \in 0..C - 1, NEW t \in Nat
    PROVE  (k + t) % C = IF k + (t % C) < C THEN k + (t % C) ELSE k + (t % C) - C
<1> DEFINE r == t % C
           p == t \div C
           u == (k + t) % C
           q == (k + t) \div C
           s == IF k + r < C THEN k + r ELSE k + r - C
           e == IF k + r < C THEN 0 ELSE 1
<1>1. p \in Nat /\ r \in 0..C - 1 /\ t = C * p + r
  BY Division
<1>2. k + t \in Nat
  OBVIOUS
<1>3. q \in Nat /\ u \in 0..C - 1 /\ k + t = C * q + u
  BY <1>2, Division
<1> HIDE DEF r, p, u, q
<1>4. s \in 0..C - 1 /\ k + r = C * e + s /\ e \in 0..1
  BY <1>1
<1> HIDE DEF s, e
<1>5. C * (p + e) = C * p + C * e
  BY <1>1, <1>4
<1>6. C * (p + e) + s = C * q + u
  BY <1>1, <1>3, <1>4, <1>5
<1>7. p + e \in Int /\ q \in Int
  BY <1>1, <1>3, <1>4
<1>8. s = u
  BY <1>3, <1>4, <1>6, <1>7, OneRemainder
<1> QED BY <1>8 DEF s, u, r

\* A delay is a number of ticks from one to once round the wheel,
LEMMA DelayType ==
    ASSUME NEW t \in Nat
    PROVE  Delay(t) \in 1..Capacity
BY TimerWheelAssumption, Division DEF Delay

\* as is how far ahead a slot is.
LEMMA AheadType ==
    ASSUME TypeOK, NEW s \in Slots
    PROVE  Ahead(s) \in 1..Capacity
BY TimerWheelAssumption DEF TypeOK, Slots, Ahead

LEMMA AheadTypeNext ==
    ASSUME TypeOK', NEW s \in Slots
    PROVE  Ahead(s)' \in 1..Capacity
<1>1. PICK k \in 0..Capacity - 1 : k = tick'
  BY DEF TypeOK, Slots
<1>2. s \in 0..Capacity - 1
  BY DEF Slots
<1>3. Ahead(s)' = IF s > k THEN s - k ELSE s + Capacity - k
  BY <1>1 DEF Ahead
<1>4. (IF s > k THEN s - k ELSE s + Capacity - k) \in 1..Capacity
  BY <1>2, TimerWheelAssumption
<1> QED BY <1>3, <1>4

\* The slot that Place chooses is as far ahead as the delay says.
LEMMA AheadOfPlace ==
    ASSUME TypeOK, NEW t \in Nat
    PROVE  Ahead((tick + t) % Capacity) = Delay(t)
<1> DEFINE r == t % Capacity
           s == (tick + t) % Capacity
<1>1. tick \in 0..Capacity - 1 /\ Capacity \in Nat \ {0}
  BY TimerWheelAssumption DEF TypeOK, Slots
<1>2. r \in 0..Capacity - 1
  BY <1>1, Division
<1>3. s = IF tick + r < Capacity THEN tick + r ELSE tick + r - Capacity
  BY <1>1, RoundTheWheel, Zenon
<1>4. Delay(t) = IF r = 0 THEN Capacity ELSE r
  BY DEF Delay
<1> HIDE DEF r, s
<1>5. Ahead(s) = Delay(t)
  BY <1>1, <1>2, <1>3, <1>4 DEF Ahead
<1> QED BY <1>5 DEF s

\* A tick brings every slot nearer by one, and comes to the one that was next.
LEMMA AheadAfterTick ==
    ASSUME TypeOK, Run, NEW s \in Slots
    PROVE  IF s = tick' THEN Ahead(s) = 1 ELSE Ahead(s)' = Ahead(s) - 1
<1>1. tick \in 0..Capacity - 1 /\ Capacity \in Nat \ {0} /\ s \in 0..Capacity - 1
  BY TimerWheelAssumption DEF TypeOK, Slots
<1>2. tick' = IF tick + 1 < Capacity THEN tick + 1 ELSE 0
  <2>1. tick' = (tick + 1) % Capacity
    BY DEF Run
  <2>2. CASE Capacity = 1
    BY <1>1, <2>1, <2>2
  <2>3. CASE Capacity > 1
    <3>1. 1 % Capacity = 1
      BY <1>1, <2>3
    <3>2. (tick + 1) % Capacity = IF tick + (1 % Capacity) < Capacity
                                    THEN tick + (1 % Capacity)
                                    ELSE tick + (1 % Capacity) - Capacity
      BY <1>1, RoundTheWheel
    <3> QED BY <1>1, <2>1, <2>3, <3>1, <3>2
  <2> QED BY <1>1, <2>2, <2>3
<1> QED BY <1>1, <1>2 DEF Ahead

-----------------------------------------------------------------------------
(***************************************************************************)
(* The furthest slot.                                                      *)
(***************************************************************************)
\* The greatest element, when there is one,
LEMMA MaxIs ==
    ASSUME NEW S \in SUBSET Int, NEW m \in S, \A x \in S : m >= x
    PROVE  Max(S) = m
<1>1. \A y \in S : (\A x \in S : y >= x) => y = m
  OBVIOUS
<1> QED BY <1>1 DEF Max

\* and there is one in a set with an upper bound.
LEMMA MaxExists ==
    ASSUME NEW n \in Nat, NEW S \in SUBSET (1..n), S # {}
    PROVE  Max(S) \in S /\ \A x \in S : Max(S) >= x
<1> DEFINE Gaps == {n - x : x \in S}
<1>0. \A x \in S : x \in 1..n /\ n - x \in Nat
  OBVIOUS
<1>1. Gaps \subseteq Nat /\ Gaps # {}
  BY <1>0
<1> HIDE DEF Gaps
<1>2. PICK g \in Gaps : \A h \in Gaps : ~(<<h, g>> \in OpToRel(<, Nat))
  BY <1>1, NatLessThanWellFounded, WFMin
<1>3. PICK m \in S : g = n - m
  BY <1>2 DEF Gaps
<1>4. ASSUME NEW x \in S PROVE m >= x
  <2>1. n - x \in Gaps /\ n - x \in Nat /\ g \in Nat
    BY <1>1, <1>2 DEF Gaps
  <2>2. ~(n - x < g)
    BY <1>2, <2>1 DEF OpToRel
  <2> QED BY <1>3, <2>2
<1>5. Max(S) = m
  BY <1>4, MaxIs
<1> QED BY <1>4, <1>5

\* The ticks a task has left are how far its furthest slot is ahead.
LEMMA Furthest ==
    ASSUME TypeOK, NEW id \in Id, SlotsOf(id) # {}
    PROVE  \E s \in SlotsOf(id) : /\ Remaining(id) = Ahead(s)
                                  /\ \A u \in SlotsOf(id) : Ahead(u) <= Ahead(s)
<1> DEFINE S == {Ahead(s) : s \in SlotsOf(id)}
<1>1. S \in SUBSET (1..Capacity) /\ S # {}
  BY AheadType DEF SlotsOf
<1>2. Max(S) \in S /\ \A x \in S : Max(S) >= x
  BY <1>1, TimerWheelAssumption, MaxExists
<1>3. PICK s \in SlotsOf(id) : Max(S) = Ahead(s)
  BY <1>2
<1>4. \A u \in SlotsOf(id) : Ahead(u) <= Ahead(s)
  <2>1. ASSUME NEW u \in SlotsOf(id) PROVE Ahead(u) <= Ahead(s)
    <3>1. Ahead(u) \in 1..Capacity /\ Ahead(s) \in 1..Capacity
      BY AheadType DEF SlotsOf
    <3> QED BY <1>2, <1>3, <3>1
  <2> QED BY <2>1
<1> QED BY <1>3, <1>4 DEF Remaining

\* A task with a slot left has a tick left.
LEMMA RemainingType ==
    ASSUME TypeOK, NEW id \in Id
    PROVE  /\ Remaining(id) \in 0..Capacity
           /\ Remaining(id) = 0 <=> SlotsOf(id) = {}
<1>1. CASE SlotsOf(id) = {}
  BY <1>1, TimerWheelAssumption DEF Remaining
<1>2. CASE SlotsOf(id) # {}
  <2>1. PICK s \in SlotsOf(id) : Remaining(id) = Ahead(s)
    BY <1>2, Furthest
  <2>2. Ahead(s) \in 1..Capacity
    BY AheadType DEF SlotsOf
  <2> QED BY <1>2, <2>1, <2>2, TimerWheelAssumption
<1> QED BY <1>1, <1>2

-----------------------------------------------------------------------------
(***************************************************************************)
(* Wall-clock accuracy, first in the wheel's own terms (OnTicks): every    *)
(* task keeps the number of ticks its slot stands for. It is not inductive *)
(* alone: a refresh winds a task up to its full delay only because no slot *)
(* that still refers to it is further ahead than that (WithinDelay); and a *)
(* second is counted for every task that is alive only because _mp has     *)
(* them all. What the ticks are of the timeout that was asked for is said  *)
(* last, and gives OnSchedule.                                             *)
(***************************************************************************)
OnTicks ==
    \A id \in Id : Alive(id) =>
        age[id] + behind[id] + Remaining(id) = Delay(timeout[id]) + Backlog

WithinDelay ==
    \A id \in Id : \A s \in SlotsOf(id) : Ahead(s) <= Delay(timeout[id])

Timely == WithinDelay /\ OnTicks

\* After Place the task has its full delay left, the others what they had.
LEMMA PlaceRemaining ==
    ASSUME TypeOK, TypeOK', NEW id \in Id, NEW t \in Nat, Place(id, t), tick' = tick,
           \A s \in SlotsOf(id) : Ahead(s) <= Delay(t)
    PROVE  /\ Remaining(id)' = Delay(t)
           /\ \A s \in SlotsOf(id)' : Ahead(s)' <= Delay(t)
           /\ \A i \in Id \ {id} : SlotsOf(i)' = SlotsOf(i) /\ Remaining(i)' = Remaining(i)
<1> DEFINE s0 == (tick + t) % Capacity
<1>1. s0 \in Slots /\ Ahead(s0) = Delay(t)
  BY SlotExists, AheadOfPlace DEF TypeOK
<1> HIDE DEF s0
<1>2. wheel' = [wheel EXCEPT ![s0] = @ \cup {id}] /\ wheel \in [Slots -> SUBSET Id]
  BY DEF Place, s0, TypeOK
<1>3. SlotsOf(id)' = SlotsOf(id) \cup {s0}
  BY <1>1, <1>2 DEF SlotsOf
<1>4. \A s : Ahead(s)' = Ahead(s)
  BY DEF Ahead
<1>5. \A i \in Id \ {id} : SlotsOf(i)' = SlotsOf(i)
  BY <1>1, <1>2 DEF SlotsOf
<1>6. \A i \in Id \ {id} : Remaining(i)' = Remaining(i)
  BY <1>4, <1>5 DEF Remaining
<1>7. \A s \in SlotsOf(id)' : Ahead(s)' <= Delay(t)
  <2>1. Ahead(s0) <= Delay(t)
    BY <1>1, DelayType, TimerWheelAssumption
  <2> QED BY <1>3, <1>4, <2>1
<1>8. Remaining(id)' = Delay(t)
  <2> DEFINE S == {Ahead(s)' : s \in SlotsOf(id)'}
  <2>1. S \in SUBSET Int /\ Delay(t) \in S /\ \A x \in S : Delay(t) >= x
    <3>1. S = {Ahead(s) : s \in SlotsOf(id) \cup {s0}}
      BY <1>3, <1>4
    <3>2. \A s \in SlotsOf(id) \cup {s0} : Ahead(s) \in 1..Capacity /\ Ahead(s) <= Delay(t)
      BY <1>1, <1>3, <1>4, <1>7, AheadType DEF SlotsOf
    <3>3. Delay(t) \in 1..Capacity
      BY DelayType
    <3>4. Delay(t) \in S
      BY <1>1, <3>1
    <3> QED BY <3>1, <3>2, <3>3, <3>4, TimerWheelAssumption
  <2>2. Max(S) = Delay(t)
    <3> HIDE DEF S
    <3> QED BY <2>1, MaxIs
  <2>3. SlotsOf(id)' # {}
    BY <1>3
  <2> QED BY <2>2, <2>3 DEF Remaining
<1> QED BY <1>5, <1>6, <1>7, <1>8

\* A tick leaves each task one tick less, and no slot to one that had one left.
LEMMA RunRemaining ==
    ASSUME TypeOK, TypeOK', Run, NEW id \in Id
    PROVE  /\ SlotsOf(id)' = SlotsOf(id) \ {tick'}
           /\ Remaining(id)' = IF SlotsOf(id) = {} THEN 0 ELSE Remaining(id) - 1
<1>1. tick' \in Slots /\ wheel \in [Slots -> SUBSET Id]
  BY DEF TypeOK
<1>2. SlotsOf(id)' = SlotsOf(id) \ {tick'}
  BY <1>1 DEF SlotsOf, Run
<1>3. ASSUME NEW s \in SlotsOf(id)
      PROVE  /\ s \in Slots /\ Ahead(s) \in 1..Capacity
             /\ s = tick' => Ahead(s) = 1
             /\ s # tick' => Ahead(s)' = Ahead(s) - 1
  <2>1. s \in Slots
    BY <1>3 DEF SlotsOf
  <2> QED BY <2>1, AheadType, AheadAfterTick
<1>4. CASE SlotsOf(id) = {}
  BY <1>2, <1>4 DEF Remaining
<1>5. CASE SlotsOf(id) # {}
  <2>1. PICK m \in SlotsOf(id) : /\ Remaining(id) = Ahead(m)
                                 /\ \A u \in SlotsOf(id) : Ahead(u) <= Ahead(m)
    BY <1>5, Furthest
  <2>2. CASE SlotsOf(id)' = {}
    <3>1. m = tick'
      BY <1>2, <2>2
    <3>2. Remaining(id)' = 0
      BY <2>2 DEF Remaining
    <3> QED BY <1>2, <1>3, <1>5, <2>1, <3>1, <3>2
  <2>3. CASE SlotsOf(id)' # {}
    <3>1. PICK u \in SlotsOf(id) : u # tick'
      BY <1>2, <2>3
    <3>2. Ahead(u)' \in 1..Capacity
      BY <1>3, <3>1, AheadTypeNext
    <3>3. m # tick'
      BY <1>3, <2>1, <3>1, <3>2, TimerWheelAssumption
    <3> DEFINE S == {Ahead(s)' : s \in SlotsOf(id)'}
               n == Ahead(m) - 1
    <3>4. \A s \in SlotsOf(id)' : Ahead(s)' = Ahead(s) - 1 /\ Ahead(s)' \in Int /\ Ahead(s)' <= n
      BY <1>2, <1>3, <2>1, TimerWheelAssumption
    <3>5. n \in S
      BY <1>2, <1>3, <3>3
    <3>6. S \in SUBSET Int /\ \A x \in S : n >= x
      <4>1. n \in Int
        BY <1>3, TimerWheelAssumption
      <4> QED BY <3>4, <4>1
    <3>7. Max(S) = n
      <4> HIDE DEF S, n
      <4> QED BY <3>5, <3>6, MaxIs
    <3> QED BY <1>2, <1>5, <2>1, <2>3, <3>7 DEF Remaining
  <2> QED BY <2>2, <2>3
<1> QED BY <1>2, <1>4, <1>5

\* A step that moves no reference and no slot leaves everyone's ticks.
LEMMA SameRemaining ==
    ASSUME UNCHANGED <<tick, wheel>>
    PROVE  \A id : /\ SlotsOf(id)' = SlotsOf(id)
                   /\ Remaining(id)' = Remaining(id)
<1>1. \A id : SlotsOf(id)' = SlotsOf(id)
  BY DEF SlotsOf
<1>2. \A s : Ahead(s)' = Ahead(s)
  BY DEF Ahead
<1> QED BY <1>1, <1>2 DEF Remaining

\* A task's delay is a number of ticks.
LEMMA DelayOfTask ==
    ASSUME TypeOK, NEW id \in Id
    PROVE  Delay(timeout[id]) \in 1..Capacity
BY TimeoutIsNat, DelayType

\* Initially there are no tasks.
LEMMA InitTimely == Init => Timely
BY TimerWheelAssumption DEF Init, Timely, WithinDelay, OnTicks, Alive, SlotsOf

\* The seconds counted stay below the bound of the history variable, so it
\* counts every second of a task that exists.
LEMMA AgeCounts ==
    ASSUME TypeOK, OnTicks, NEW id \in Id, Alive(id)
    PROVE  age[id] < MaxAge
<1>1. age[id] + behind[id] + Remaining(id) = Delay(timeout[id]) + Backlog
  BY DEF OnTicks
<1>2. age[id] \in Nat /\ behind[id] \in Nat
  BY TimerWheelAssumption DEF TypeOK, MaxAge
<1>3. Remaining(id) \in 0..Capacity /\ Delay(timeout[id]) \in 1..Capacity
  BY RemainingType, DelayOfTask
<1>4. Backlog \in 0..2 * MaxBacklog
  BY BacklogBound
<1> QED BY <1>1, <1>2, <1>3, <1>4, TimerWheelAssumption DEF MaxAge

\* Placing a task that has no slot beyond its delay keeps everyone on schedule.
LEMMA PlaceTimely ==
    ASSUME TypeOK, TypeOK', Timely, NEW id \in Id, NEW t \in Nat, Place(id, t),
           UNCHANGED <<tick, timerfd, times, dying>>,
           \A s \in SlotsOf(id) : Ahead(s) <= Delay(t),
           timeout' = [timeout EXCEPT ![id] = t]
    PROVE  Timely'
<1>1. timeout'[id] = t /\ \A i \in Id \ {id} : timeout'[i] = timeout[i]
  BY DEF TypeOK
<1>2. \A d : Delay(d)' = Delay(d)
  BY DEF Delay
<1>3. Backlog' = Backlog
  BY DEF Backlog
<1>4. /\ Remaining(id)' = Delay(t)
      /\ \A s \in SlotsOf(id)' : Ahead(s)' <= Delay(t)
      /\ \A i \in Id \ {id} : SlotsOf(i)' = SlotsOf(i) /\ Remaining(i)' = Remaining(i)
  BY PlaceRemaining
<1>5. WithinDelay'
  <2>1. \A s : Ahead(s)' = Ahead(s)
    BY DEF Ahead
  <2>2. ASSUME NEW i \in Id, NEW s \in SlotsOf(i)'
        PROVE  Ahead(s)' <= Delay(timeout'[i])
    <3>1. CASE i = id
      BY <1>1, <1>4, <2>2, <3>1
    <3>2. CASE i # id
      BY <1>1, <1>4, <2>1, <2>2, <3>2 DEF Timely, WithinDelay
    <3> QED BY <3>1, <3>2
  <2> QED BY <1>2, <2>2 DEF WithinDelay
<1>6. OnTicks'
  <2>1. ASSUME NEW i \in Id, Alive(i)'
        PROVE  age'[i] + behind'[i] + Remaining(i)' = Delay(timeout'[i]) + Backlog'
    <3>1. CASE i = id
      <4>1. age'[i] = 0 /\ behind'[i] = Backlog
        BY <3>1 DEF Place, TypeOK
      <4>2. Backlog \in Nat /\ Delay(t) \in Nat
        BY BacklogBound, DelayType, TimerWheelAssumption
      <4> QED BY <1>1, <1>3, <1>4, <3>1, <4>1, <4>2
    <3>2. CASE i # id
      <4>1. age'[i] = age[i] /\ behind'[i] = behind[i]
        BY <3>2 DEF Place, TypeOK
      <4>2. Alive(i)
        BY <1>4, <2>1, <3>2 DEF Alive
      <4> QED BY <1>1, <1>3, <1>4, <3>2, <4>1, <4>2 DEF Timely, OnTicks
    <3> QED BY <3>1, <3>2
  <2> QED BY <1>2, <2>1 DEF OnTicks
<1> QED BY <1>5, <1>6 DEF Timely

\* A step that moves no reference and winds no task up keeps the schedule.
LEMMA QuietTimely ==
    ASSUME TypeOK, Timely, UNCHANGED <<tick, wheel, timeout, age, behind>>,
           Backlog' = Backlog, \A i \in Id : Alive(i)' => Alive(i)
    PROVE  Timely'
<1>1. \A i : SlotsOf(i)' = SlotsOf(i) /\ Remaining(i)' = Remaining(i)
  BY SameRemaining
<1>2. \A s : Ahead(s)' = Ahead(s)
  BY DEF Ahead
<1>3. \A d : Delay(d)' = Delay(d)
  BY DEF Delay
<1>4. WithinDelay'
  BY <1>1, <1>2, <1>3 DEF Timely, WithinDelay
<1>5. OnTicks'
  BY <1>1, <1>3 DEF Timely, OnTicks
<1> QED BY <1>4, <1>5 DEF Timely

\* Another second: one more for every task, and the wheel one tick later.
LEMMA TimerExpiresTimely ==
    ASSUME TypeOK, Consistent, Timely, TimerExpires
    PROVE  Timely'
<1>1. \A i : SlotsOf(i)' = SlotsOf(i) /\ Remaining(i)' = Remaining(i)
  BY SameRemaining DEF TimerExpires
<1>2. \A s : Ahead(s)' = Ahead(s)
  BY DEF Ahead, TimerExpires
<1>3. timeout' = timeout /\ \A d : Delay(d)' = Delay(d)
  BY DEF Delay, TimerExpires
<1>4. WithinDelay'
  BY <1>1, <1>2, <1>3 DEF Timely, WithinDelay
<1>5. ASSUME NEW i \in Id, Alive(i)'
      PROVE  age'[i] + behind'[i] + Remaining(i)' = Delay(timeout'[i]) + Backlog'
  <2>1. Alive(i)
    BY <1>1, <1>5 DEF Alive, TimerExpires
  <2>2. i \in mp /\ age[i] < MaxAge
    BY <2>1, AgeCounts DEF Consistent, MapMatchesWheel, Timely
  <2>3. age'[i] = age[i] + 1 /\ behind'[i] = behind[i]
    BY <2>2 DEF TimerExpires
  <2>4. Backlog' = Backlog + 1
    BY TimerWheelAssumption DEF Backlog, TimerExpires, TypeOK
  <2>5. age[i] + behind[i] + Remaining(i) = Delay(timeout[i]) + Backlog
    BY <2>1 DEF Timely, OnTicks
  <2>6. age[i] \in Nat /\ behind[i] \in Nat /\ Remaining(i) \in Nat
    BY RemainingType, TimerWheelAssumption DEF TypeOK, MaxAge
  <2>7. Backlog \in Nat /\ Delay(timeout[i]) \in Nat
    BY BacklogBound, DelayOfTask, TimerWheelAssumption
  <2> QED BY <1>1, <1>3, <2>3, <2>4, <2>5, <2>6, <2>7
<1>6. OnTicks'
  BY <1>3, <1>5 DEF OnTicks
<1> QED BY <1>4, <1>6 DEF Timely

\* A tick: one less for every task, and the wheel one tick less late.
LEMMA RunTimely ==
    ASSUME TypeOK, TypeOK', Timely, Run
    PROVE  Timely'
<1>1. timeout' = timeout /\ age' = age /\ behind' = behind /\ dying = {}
  BY DEF Run
<1>2. \A d : Delay(d)' = Delay(d)
  BY DEF Delay
<1>3. ASSUME NEW i \in Id, NEW s \in SlotsOf(i)'
      PROVE  Ahead(s)' <= Delay(timeout'[i])
  <2>1. s \in SlotsOf(i) /\ s # tick'
    BY <1>3, RunRemaining
  <2>2. s \in Slots
    BY <2>1 DEF SlotsOf
  <2>3. Ahead(s)' = Ahead(s) - 1 /\ Ahead(s) \in 1..Capacity
    BY <2>1, <2>2, AheadType, AheadAfterTick
  <2>4. Ahead(s) <= Delay(timeout[i]) /\ Delay(timeout[i]) \in 1..Capacity
    BY <2>1, DelayOfTask DEF Timely, WithinDelay
  <2> QED BY <1>1, <2>3, <2>4, TimerWheelAssumption
<1>4. WithinDelay'
  BY <1>2, <1>3 DEF WithinDelay
<1>5. ASSUME NEW i \in Id, Alive(i)'
      PROVE  age'[i] + behind'[i] + Remaining(i)' = Delay(timeout'[i]) + Backlog'
  <2>1. SlotsOf(i) # {}
    <3>1. dying' = wheel[tick'] /\ tick' \in Slots
      BY DEF Run, TypeOK
    <3>2. i \in dying' \/ SlotsOf(i)' # {}
      BY <1>5 DEF Alive
    <3>3. SlotsOf(i)' = SlotsOf(i) \ {tick'}
      BY RunRemaining
    <3> QED BY <3>1, <3>2, <3>3 DEF SlotsOf
  <2>2. Remaining(i)' = Remaining(i) - 1
    BY <2>1, RunRemaining
  <2>3. Backlog' = Backlog - 1
    BY TimerWheelAssumption DEF Backlog, Run, TypeOK
  <2>4. age[i] + behind[i] + Remaining(i) = Delay(timeout[i]) + Backlog
    BY <2>1 DEF Timely, OnTicks, Alive
  <2>5. age[i] \in Nat /\ behind[i] \in Nat /\ Remaining(i) \in Nat
    BY RemainingType, TimerWheelAssumption DEF TypeOK, MaxAge
  <2>6. Backlog \in Nat /\ Delay(timeout[i]) \in Nat
    BY BacklogBound, DelayOfTask, TimerWheelAssumption
  <2> QED BY <1>1, <2>2, <2>3, <2>4, <2>5, <2>6
<1>6. OnTicks'
  BY <1>2, <1>5 DEF OnTicks
<1> QED BY <1>4, <1>6 DEF Timely

\* Every step keeps the schedule.
LEMMA NextTimely ==
    ASSUME TypeOK, TypeOK', Consistent, Timely, [Next]_vars
    PROVE  Timely'
<1>1. ASSUME NEW id \in Id, NEW t \in Timeouts, AddTaskInLoop(id, t)
      PROVE  Timely'
  <2>1. t \in Nat
    BY TimerWheelAssumption
  <2>2. SlotsOf(id) = {}
    BY <1>1 DEF AddTaskInLoop, Consistent, MapMatchesWheel, Alive
  <2> QED BY <1>1, <2>1, <2>2, PlaceTimely DEF AddTaskInLoop
<1>2. ASSUME NEW id \in Id, RefreshTaskInLoop(id)
      PROVE  Timely'
  <2>1. timeout[id] \in Nat
    BY TimeoutIsNat
  <2>2. timeout' = [timeout EXCEPT ![id] = timeout[id]]
    BY <1>2 DEF RefreshTaskInLoop, TypeOK
  <2>3. \A s \in SlotsOf(id) : Ahead(s) <= Delay(timeout[id])
    BY DEF Timely, WithinDelay
  <2> QED BY <1>2, <2>1, <2>2, <2>3, PlaceTimely DEF RefreshTaskInLoop
<1>3. ASSUME NEW id \in Id, CancelInLoop(id)
      PROVE  Timely'
  BY <1>3, QuietTimely DEF CancelInLoop, Backlog, Alive, SlotsOf
<1>4. CASE Ontime
  <2>1. Backlog' = Backlog
    BY <1>4, TimerWheelAssumption DEF Ontime, Backlog, TypeOK
  <2> QED BY <1>4, <2>1, QuietTimely DEF Ontime, Alive, SlotsOf
<1>5. ASSUME NEW id \in Id, DropReference(id)
      PROVE  Timely'
  <2>1. UNCHANGED <<tick, wheel, timeout, timerfd, times>> /\ dying' \subseteq dying
    BY <1>5 DEF DropReference
  <2>2. UNCHANGED <<age, behind>>
    BY <1>5 DEF DropReference, RemoveTask
  <2> QED BY <2>1, <2>2, QuietTimely DEF Backlog, Alive, SlotsOf
<1>6. CASE CallbackReturns
  BY <1>6, QuietTimely DEF CallbackReturns, RemoveTask, Backlog, Alive, SlotsOf
<1>7. CASE UNCHANGED vars
  BY <1>7, QuietTimely DEF vars, Backlog, Alive, SlotsOf
<1> QED
  BY <1>1, <1>2, <1>3, <1>4, <1>5, <1>6, <1>7, TimerExpiresTimely, RunTimely
  DEF Next, Turn

\* All of it together holds in every state.
LEMMA AlwaysTimely == Spec => [](TypeOK /\ Consistent /\ Timely)
BY InitTypeOK, NextTypeOK, InitConsistent, NextConsistent, InitTimely, NextTimely, PTL
DEF Spec

\* The ticks are the timeout for 1..Capacity, and fewer beyond.
LEMMA DelayOfTimeout ==
    ASSUME NEW t \in Nat, t >= 1
    PROVE  Delay(t) <= t /\ (t <= Capacity => Delay(t) = t)
<1>1. Capacity \in Nat /\ Capacity >= 1
  BY TimerWheelAssumption
<1>2. CASE t < Capacity
  <2>1. t % Capacity = t
    BY <1>1, <1>2
  <2> QED BY <1>1, <1>2, <2>1 DEF Delay
<1>3. CASE t = Capacity
  <2>1. t % Capacity = 0
    BY <1>1, <1>3
  <2> QED BY <1>1, <1>3, <2>1 DEF Delay
<1>4. CASE t > Capacity
  BY <1>1, <1>4, DelayType
<1> QED BY <1>1, <1>2, <1>3, <1>4

\* The ticks a task has left and the seconds since it was last added or
\* refreshed make up the timeout it was given, but for how late the wheel was
\* then and is now, if that is 1..Capacity seconds; a longer timeout is never
\* overrun, although the wheel, which takes it modulo Capacity, cuts it short.
THEOREM AlwaysOnSchedule == Spec => []OnSchedule
<1>1. TypeOK /\ Consistent /\ Timely => OnSchedule
  <2> SUFFICES ASSUME TypeOK, Timely, NEW id \in Id, Alive(id), timeout[id] >= 1
               PROVE  /\ age[id] + behind[id] + Remaining(id) <= timeout[id] + Backlog
                      /\ timeout[id] <= Capacity =>
                            age[id] + behind[id] + Remaining(id) = timeout[id] + Backlog
    BY Zenon DEF OnSchedule
  <2>1. age[id] + behind[id] + Remaining(id) = Delay(timeout[id]) + Backlog
    BY DEF Timely, OnTicks
  <2>2. timeout[id] \in Nat /\ Delay(timeout[id]) \in 1..Capacity
    BY TimeoutIsNat, DelayOfTask
  <2>3. /\ Delay(timeout[id]) <= timeout[id]
        /\ timeout[id] <= Capacity => Delay(timeout[id]) = timeout[id]
    BY <2>2, DelayOfTimeout
  <2>4. Backlog \in Nat /\ Capacity \in Nat
    BY BacklogBound, TimerWheelAssumption
  <2> QED BY <2>1, <2>2, <2>3, <2>4
<1> QED BY <1>1, AlwaysTimely, PTL

-----------------------------------------------------------------------------
(***************************************************************************)
(* The wheel implements Countdown: step by step.                           *)
(***************************************************************************)
\* What the refinement maps the state to.
TimerPeriod == [id \in Id |-> IF id \in mp THEN Delay(timeout[id]) ELSE 0]
TimerLeft   == [id \in Id |-> Remaining(id)]

\* A timer is set, abstractly, exactly while a reference keeps its task alive.
LEMMA SetIsAlive ==
    ASSUME TypeOK, Consistent, NEW id \in Id
    PROVE  /\ TimerPeriod[id] # 0 <=> id \in mp
           /\ Timer!IsSet(id) <=> Alive(id)
<1>1. Delay(timeout[id]) # 0
  BY DelayOfTask, TimerWheelAssumption
<1>2. TimerPeriod[id] # 0 <=> id \in mp
  BY <1>1 DEF TimerPeriod
<1>3. Timer!IsSet(id) <=> id \in mp /\ callback # id
  BY <1>2 DEF Timer!IsSet, TimerPeriod
<1>4. Alive(id) => id \in mp /\ callback # id
  BY TimerWheelAssumption DEF Consistent, MapMatchesWheel, NoRevival
<1>5. id \in mp /\ callback # id => Alive(id)
  BY DEF Consistent, MapMatchesWheel
<1> QED BY <1>2, <1>3, <1>4, <1>5

\* and it is due while the vector being cleared holds its last reference.
LEMMA DueIsLast ==
    ASSUME TypeOK, Consistent, NEW id \in Id
    PROVE  id \in Timer!Due <=> id \in dying /\ SlotsOf(id) = {}
BY SetIsAlive, RemainingType DEF Timer!Due, Alive

\* The ticks left of all tasks when those of one change only.
LEMMA LeftOfOne ==
    ASSUME NEW id \in Id, NEW p, Remaining(id)' = p,
           \A i \in Id \ {id} : Remaining(i)' = Remaining(i)
    PROVE  TimerLeft' = [TimerLeft EXCEPT ![id] = p]
BY DEF TimerLeft

LEMMA InitImplements == Init => Timer!Init
<1> SUFFICES ASSUME Init PROVE Timer!Init
  OBVIOUS
<1>1. \A id \in Id : Remaining(id) = 0
  BY DEF Init, Remaining, SlotsOf
<1> QED BY <1>1 DEF Init, Timer!Init

LEMMA AddImplements ==
    ASSUME TypeOK, TypeOK', Consistent, NEW id \in Id, NEW t \in Timeouts,
           AddTaskInLoop(id, t)
    PROVE  \E p \in 1..Capacity : Timer!Set(id, p)
<1>1. t \in Nat /\ Delay(t) \in 1..Capacity
  BY DelayType, TimerWheelAssumption
<1>2. id \notin mp /\ SlotsOf(id) = {}
  BY DEF AddTaskInLoop, Consistent, MapMatchesWheel, Alive
<1>3. Place(id, t) /\ tick' = tick /\ callback' = callback /\ canceled' = canceled
  BY DEF AddTaskInLoop
<1>4. TimerLeft' = [TimerLeft EXCEPT ![id] = Delay(t)]
  <2>1. Remaining(id)' = Delay(t) /\ \A i \in Id \ {id} : Remaining(i)' = Remaining(i)
    BY <1>1, <1>2, <1>3, PlaceRemaining
  <2> QED BY <2>1, LeftOfOne
<1>5. TimerPeriod[id] = 0 /\ TimerPeriod' = [TimerPeriod EXCEPT ![id] = Delay(t)]
  <2>1. \A d : Delay(d)' = Delay(d)
    BY DEF Delay
  <2>2. mp' = mp \cup {id} /\ timeout' = [timeout EXCEPT ![id] = t]
    BY DEF AddTaskInLoop
  <2> QED BY <1>2, <2>1, <2>2 DEF TimerPeriod, TypeOK
<1>6. Timer!Set(id, Delay(t))
  BY <1>3, <1>4, <1>5 DEF Timer!Set, TimerPeriod, TimerLeft
<1> QED BY <1>1, <1>6

LEMMA RefreshImplements ==
    ASSUME TypeOK, TypeOK', Consistent, Timely, NEW id \in Id, RefreshTaskInLoop(id)
    PROVE  Timer!Refresh(id)
<1>1. timeout[id] \in Nat /\ \A s \in SlotsOf(id) : Ahead(s) <= Delay(timeout[id])
  BY TimeoutIsNat DEF Timely, WithinDelay
<1>2. /\ id \in mp /\ Alive(id)
      /\ Place(id, timeout[id])
      /\ UNCHANGED <<tick, mp, timeout, canceled, callback>>
  BY DEF RefreshTaskInLoop
<1>3. TimerLeft' = [TimerLeft EXCEPT ![id] = Delay(timeout[id])]
  <2>1. /\ Remaining(id)' = Delay(timeout[id])
        /\ \A i \in Id \ {id} : Remaining(i)' = Remaining(i)
    BY <1>1, <1>2, PlaceRemaining
  <2> QED BY <2>1, LeftOfOne
<1>4. TimerPeriod[id] = Delay(timeout[id]) /\ TimerPeriod' = TimerPeriod
  BY <1>2 DEF TimerPeriod, Delay
<1> QED BY <1>2, <1>3, <1>4, SetIsAlive DEF Timer!Refresh, TimerPeriod, TimerLeft

\* A step that moves no reference, adds no task and removes none maps to a
\* step that leaves the counters alone.
LEMMA SameTimers ==
    ASSUME UNCHANGED <<tick, wheel, timeout, mp>>
    PROVE  TimerLeft' = TimerLeft /\ TimerPeriod' = TimerPeriod
BY SameRemaining DEF TimerLeft, TimerPeriod, Delay

\* What RemoveTask does to the map, once the wheel is left alone.
LEMMA RemoveImplements ==
    ASSUME NEW id \in Id, RemoveTask(id), UNCHANGED <<tick, wheel, timeout>>
    PROVE  Timer!Clear(id)
<1>1. TimerLeft' = TimerLeft
  BY SameRemaining DEF TimerLeft
<1>2. TimerPeriod' = [TimerPeriod EXCEPT ![id] = 0]
  <2>1. mp' = mp \ {id}
    BY DEF RemoveTask
  <2>2. \A d : Delay(d)' = Delay(d)
    BY DEF Delay
  <2> QED BY <2>1, <2>2 DEF TimerPeriod
<1> QED BY <1>1, <1>2 DEF RemoveTask, Timer!Clear, TimerPeriod, TimerLeft

\* Run starts to clear a slot only when the last one is empty: no timer is due.
LEMMA RunImplements ==
    ASSUME TypeOK, TypeOK', Consistent, Run
    PROVE  Timer!Tick
<1>1. callback = None /\ dying = {} /\ UNCHANGED <<mp, timeout, canceled, callback>>
  BY DEF Run
<1>2. Timer!Due = {}
  <2>1. \A id \in Id : id \notin Timer!Due
    BY <1>1, DueIsLast
  <2> QED BY <2>1 DEF Timer!Due
<1>3. ASSUME NEW id \in Id
      PROVE  Remaining(id)' = IF Timer!IsSet(id) THEN Remaining(id) - 1 ELSE 0
  <2>1. Timer!IsSet(id) <=> SlotsOf(id) # {}
    BY <1>1, SetIsAlive DEF Alive
  <2> QED BY <2>1, RunRemaining
<1>4. TimerLeft' = [id \in Id |-> IF Timer!IsSet(id) THEN TimerLeft[id] - 1 ELSE 0]
  BY <1>3 DEF TimerLeft
<1>5. TimerPeriod' = TimerPeriod
  BY <1>1 DEF TimerPeriod, Delay
<1> QED BY <1>1, <1>2, <1>4, <1>5 DEF Timer!Tick, TimerPeriod, TimerLeft

\* A reference dropped is nothing, or a cancelled timer gone, or one going off.
LEMMA DropImplements ==
    ASSUME TypeOK, Consistent, NEW id \in Id, DropReference(id)
    PROVE  Timer!GoOff(id) \/ Timer!GoAway(id) \/ UNCHANGED Timer!vars
<1>1. callback = None /\ id \in dying /\ UNCHANGED <<tick, wheel, timeout>>
  BY DEF DropReference
<1>2. SlotsOf(id) = {} <=> id \in Timer!Due
  BY <1>1, DueIsLast
<1>3. CASE SlotsOf(id) # {}
  <2>1. UNCHANGED <<mp, canceled, callback>>
    BY <1>3 DEF DropReference
  <2> QED BY <1>1, <2>1, SameTimers DEF Timer!vars, TimerPeriod, TimerLeft
<1>4. CASE SlotsOf(id) = {} /\ id \in canceled
  <2>1. RemoveTask(id) /\ callback' = callback
    BY <1>4 DEF DropReference
  <2> QED BY <1>1, <1>2, <1>4, <2>1, RemoveImplements DEF Timer!GoAway
<1>5. CASE SlotsOf(id) = {} /\ id \notin canceled
  <2>1. callback' = id /\ UNCHANGED <<mp, canceled>>
    BY <1>5 DEF DropReference
  <2>2. TimerLeft' = TimerLeft /\ TimerPeriod' = TimerPeriod
    BY <1>1, <2>1, SameTimers
  <2> QED BY <1>1, <1>2, <1>5, <2>1, <2>2 DEF Timer!GoOff, TimerPeriod, TimerLeft
<1> QED BY <1>3, <1>4, <1>5

\* Every step of the wheel is a step of the countdown timers, or none.
LEMMA NextImplements ==
    ASSUME TypeOK, TypeOK', Consistent, Timely, [Next]_vars
    PROVE  [Timer!Next]_(Timer!vars)
<1>1. ASSUME NEW id \in Id, NEW t \in Timeouts, AddTaskInLoop(id, t)
      PROVE  Timer!Next
  BY <1>1, AddImplements DEF Timer!Next
<1>2. ASSUME NEW id \in Id, RefreshTaskInLoop(id)
      PROVE  Timer!Next
  BY <1>2, RefreshImplements DEF Timer!Next
<1>3. ASSUME NEW id \in Id, CancelInLoop(id)
      PROVE  Timer!Next
  <2>1. /\ Alive(id) /\ canceled' = canceled \cup {id}
        /\ UNCHANGED <<tick, wheel, timeout, mp, callback>>
    BY <1>3 DEF CancelInLoop
  <2>2. Timer!Cancel(id)
    BY <2>1, SetIsAlive, SameTimers DEF Timer!Cancel, TimerPeriod, TimerLeft
  <2> QED BY <2>2 DEF Timer!Next
<1>4. CASE TimerExpires \/ Ontime \/ UNCHANGED vars
  <2>1. UNCHANGED <<tick, wheel, timeout, mp, canceled, callback>>
    BY <1>4 DEF TimerExpires, Ontime, vars
  <2> QED BY <2>1, SameTimers DEF Timer!vars, TimerPeriod, TimerLeft
<1>5. CASE Run
  BY <1>5, RunImplements DEF Timer!Next
<1>6. ASSUME NEW id \in Id, DropReference(id)
      PROVE  [Timer!Next]_(Timer!vars)
  BY <1>6, DropImplements DEF Timer!Next
<1>7. CASE CallbackReturns
  <2>1. /\ callback # None /\ callback' = None /\ RemoveTask(callback)
        /\ UNCHANGED <<tick, wheel, timeout>>
    BY <1>7 DEF CallbackReturns
  <2>2. PICK id \in Id : id = callback
    BY <2>1 DEF TypeOK
  <2>3. Timer!Clear(id)
    BY <2>1, <2>2, RemoveImplements DEF RemoveTask
  <2>4. Timer!CallbackReturns
    BY <2>1, <2>2, <2>3 DEF Timer!CallbackReturns, Timer!Clear
  <2> QED BY <2>4 DEF Timer!Next
<1> QED BY <1>1, <1>2, <1>3, <1>4, <1>5, <1>6, <1>7 DEF Next, Turn

\* The wheel with its slots, references and destructors implements plain
\* countdown timers, for any capacity and any timeouts: a timer goes off once,
\* the number of ticks after its last refresh that Delay says, and a cancelled
\* one goes away at that tick without a callback.
THEOREM WheelImplementsCountdown == Spec => ImplementsCountdown
<1>1. Init => Timer!Init
  BY InitImplements
<1>2. TypeOK /\ TypeOK' /\ Consistent /\ Timely /\ [Next]_vars => [Timer!Next]_(Timer!vars)
  BY NextImplements
<1> QED BY <1>1, <1>2, AlwaysTimely, PTL DEF Spec, ImplementsCountdown, Timer!Spec
=============================================================================
