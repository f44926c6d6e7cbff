# Verification of evloop

TLA+ models of [evloop](../src/README.md), a multi-reactor network library
(`src/src/server.hpp`) with an HTTP server on top (`src/src/http/http.hpp`), the
TLC configurations that check them on small instances, and TLAPS proofs for every
value of the constants. Line numbers below without a file are those of
`src/src/server.hpp`.

## 1. The system

One thread runs one `EventLoop`. The main thread's loop (the base loop) accepts;
each accepted connection is given to one of the sub loops and stays there. The
only things shared between threads are the task queues.

| Component | State it keeps | Operations | What makes it correct |
|---|---|---|---|
| `EventLoop` 693-824 | `_tasks` under `_mutex`, the eventfd's counter, the local batch of `RunAllTasks` | `RunInLoop`, `PushInLoop`, `WakeUpEventFd`, `Start` (Poll, dispatch, `RunAllTasks`) | each task runs exactly once, in the order its thread handed it over; the loop does not sleep on queued work |
| `Poller`, `Channel` 349-532 | `_channels` (fd -> `Channel*`), epoll's interest list, `_events`, `_revents` | `UpdateEvent`, `RemoveEvent`, `Poll`, `HandleEvent` | a ready descriptor is dispatched to the channel it belongs to now, and that channel still exists |
| `TimerWheel`, `Timertask` 537-689 | `_tick`, 60 slots of `shared_ptr<Timertask>`, `_mp` of weak pointers, the timerfd | `AddTask`, `RefreshTask`, `Cancel`, `Ontime`/`Run`, `~Timertask` | a timer goes off once, when its last refresh is that many ticks ago, unless cancelled; `_mp` has the timers that exist |
| `Connection` 910-1134 | `_stat`, two `Buffer`s, its `Channel`, its inactivity timer (by id) | `Established`, `Send`, `ShutDown`, `Release`, `RegisterInactiveRelease`, `CancelInactiveRelease`, `UpgradeProtocol`; `HandleRead/Write/Close/Error/Event` | accepted output reaches the kernel before a graceful close; every way to end leads to one release; nothing runs on it afterwards |
| `Acceptor`, `TcpServer` 1137-1251 | `_conns`, `_next_id` | `HandleRead`, `NewConnection`, `RemoveConnection`, `RunAfter`, `Start` | a connection is known while it is served, destroyed afterwards, and never while a task, a timer or the dispatch loop still uses it |
| `LoopThread`, `LoopThreadPool` 827-899 | `_loop` under a mutex and condition variable; `_loops`, `_next_idx` | `GetLoop`, `ThreadEntry`, `CreateLoops`, `NextLoop` | `GetLoop` returns a constructed loop; round robin |
| `Buffer` 28-167 | a vector, a read and a write offset | `Write*`, `Read*`, `Move*`, `GetLine*`, `Clear` | the bytes written are the bytes read, across compaction and growth |
| `Socket` 170-345 | a descriptor | create, bind, listen, accept, recv, send, close | results are told apart: data, nothing, end, error |
| `HttpContext` http.hpp 367-556 | parse state, request, status | `RecvHttpRequest` and its steps, `Reset` | the same requests come out however the bytes are cut |
| `HttpServer` http.hpp 558-811 | route tables, base directory | `OnMessage`, `Route`, `FileHandler`, `WriteResponse` | one response for each request, in order; close exactly when the request or an error asks |
| `Util` http.hpp 15-199 | none | `Split`, `UrlEncode/Decode`, `ValidPath`, file access | functions of their input |
| `EchoServer`, `log.hpp`, `mime.hpp`, `statu.hpp`, `main.cc` | none or tables | | |

Interactions. `Poll` fills `_revents` and a local array of channels; the dispatch
loop calls `Channel::HandleEvent` on each, which calls up to three callbacks of its
owner; those call user callbacks, which call `Send` and `ShutDown` (inline on the
loop's own thread, queued from another) and, inside, `Release` (always queued).
`RunAllTasks` follows every dispatch. The timerfd is one of the channels: `Ontime`
destroys timer tasks and their destructors call `Release`. `NewConnection` on the base
loop queues two tasks at a sub loop; `ReleaseInLoop` on the sub loop queues one at
the base loop. Without sub loops (`SetThreadCount` not called) the base loop serves the
connections too, and what is queued otherwise runs inline.

Hard behaviours: a push against a loop about to sleep; tasks handed over while
a batch runs; a handler that goes on using an object after the callback that ended it;
several causes of the same release in one dispatch; descriptor numbers the kernel
reuses at once; a timer refreshed, cancelled or re-armed around the tick on which it
is due; a loop kept busy while the timerfd counts on; half-closed and reset peers with
output pending; `accept` out of descriptors; files that vanish. PROJECT.json lists each as a hazard with its line and the properties
aimed at it.

## 2. Modules

| Module | Models |
|---|---|
| `TaskExecutor` | abstract: what `RunInLoop` promises, a FIFO queue that in-thread calls may overtake |
| `EventLoop` | one loop with its queue, batch, eventfd and timerfd, and the threads that post to it; implements `TaskExecutor` |
| `EventLoopProofs` | theorems about `EventLoop` |
| `Countdown` | abstract: timers that count ticks down, without slots or references |
| `TimerWheel` | the wheel, the references and the destructors; implements `Countdown` |
| `TimerWheelProofs` | theorems about `TimerWheel` |
| `Queues` | lemmas about queues: push, take the front, append a batch |
| `Connection` | one connection: status, interest set, buffers (as byte counts), timer, tasks, peer |
| `ConnectionProofs` | theorems about `Connection` |
| `ConnectionLife` | abstract: the life of a connection, from accepted to destroyed, one step at a time |
| `TcpServer` | base loop and any number of sub loops: accepting, ownership of connections, Pollers' tables, reuse of descriptors, the two handoffs, `RunAfter`; implements `ConnectionLife` |
| `TcpServerProofs` | theorems about `TcpServer` |
| `ByteQueue` | abstract: what a `Buffer` is to its users, a queue of bytes with lines in it |
| `Buffer` | vector and offsets, compaction and growth; implements `ByteQueue` |
| `BufferProofs` | theorems about `Buffer` |
| `LoopStart` | `LoopThread`, `GetLoop` and `CreateLoops`: the threads' hand-shake |
| `LoopStartProofs` | theorems about `LoopStart` |
| `HttpContext` | the resumable request parser on one connection's input |
| `HttpServer` | `OnMessage` on top of `HttpContext`: routing, answers, pipelining, nested calls, the end of the connection |
| `HttpServerProofs` | theorems about `HttpServer` and `HttpContext` |
| `MC...` | the instance of each for TLC |

### EventLoop

`pc` is where the loop thread is in `Start`: "poll" in `epoll_wait`, "dispatch"
between two channels, "handler" inside the callback of a channel other than the
eventfd's, "run" between two tasks of the batch, "task" inside one. `PushInLoop` is
two steps, the push under the mutex and then the eventfd write, because any other
thread may run in between; `waking` holds the threads that are between the two.
`RunAllTasks` is a step for the swap and one for each task. A callback may call
`RunInLoop` (runs on the spot: `RunInline`) and `PushInLoop`, also from the loop's own
thread. A task's identity is the thread that submitted it and a number. `ran` is
history. `MayInterrupt` lets a signal end `epoll_wait` (513-519) and the eventfd write
(735-738) early; the code gives the write up. `gaveUp` is history: the threads that did
for what is queued now. `NoLostWakeup` and `EveryTaskRuns` excuse exactly those
states, and `TicksRunTheRest` says that the next tick of the timerfd brings the loop
round even then.

### TimerWheel

A slot is the set of tasks it refers to; two references in one slot go in the same
`clear()`, so their number is never seen. `dying` holds the references of the slot being
cleared that are not destroyed yet; `clear()` may destroy them in any order.
`DropReference` of the last one enters `~Timertask`: the callback runs (`callback`),
during which any operation may be called, then `RemoveTask`. Refresh and cancel need
`lock()` to succeed, which is `Alive`. Seconds pass at any time, also during `Ontime`;
`timerfd` counts them and `Ontime` makes that many `Run`s. `age` (seconds since the last
refresh, saturating at `MaxAge`) and `behind` (ticks the wheel was late then) are
history for `OnSchedule`.

### Connection

One connection on its loop. Bytes are counted. `HandleEvent`, `HandleRead` and
`HandleRest` are the three stretches of `Channel::HandleEvent`; the peer, the kernel,
the base loop and other threads may act between them. `MsgCb` is the user's message
callback: it consumes any part of the input, sends anything and may end with a
`ShutDown`, which runs inline and calls it again (1032-1035, as `EchoServer` does).
`recv` returns data, then a pending error, then end of file, as Linux does.
`Inactivity` is `EnableInactiveRelease`. `EarlyTimer` lets the inactivity timer go off
between the two tasks `NewConnection` queues; it needs a one-second timeout and a
second of delay there. `AppTasks` says what other threads may call, at any time after the
establishment, also after the release. `RegisterInactiveReleaseInLoop` arms the timer or
refreshes the task of that id, also one that was cancelled and is still in its slot
(`timer = "canceled"`); `lapsed` is history and says that the last registration met such
a one. `owed`, `timedOut` and `closed` are history too. `_revents` is cleared after its
last use, as `Poll` sets it before the next.

### TcpServer

`cnt`, the number of sub loops, is chosen at the start; loop 0 is the base loop. Per
loop: `_channels`, epoll's list, the array being dispatched, `_tasks`, the batch; per
connection: descriptor, loop, status, socket open; `conns` is `_conns` with its keys, and
`armed` the timers in the loops' wheels. An object is alive (`Alive`) while a
`shared_ptr` to it exists: `NewConnection`'s local, the entry of `_conns`, one that
another thread has (`held`), or one captured by a `Release` or `RemoveConnection` task that
is queued or in a batch that has not ended. The tasks `Register`, `Established` and
`ShutDown`, the timer's callback and the `Channel*` in `actives` are raw pointers:
`NoDanglingPointers` says they only ever point to live objects. The `Channel*` in `_channels`
are `WatchesOwnFds`' subject.

`HandleRead` accepts one client, if a descriptor is free (the lowest), and creates the
connection; `Established` queues the two tasks at a sub loop or runs them at once on the
base loop, inside the same handler; `Insert` files the connection under `_next_id`, read
again as the code does (1197). `RunAfter` comes from any thread or from inside a handler
of the base loop, the connected callback among them. Releases have any number of
causes per event, up to `MaxReleases`; `MayQuit` names the loops whose connected
callbacks may cause one. Events that end nothing are `Connection`'s and left out.

Other threads get a connection from its connected callback and then call `ShutDown` and
`Release` (1107-1114) whenever they like, `MaxCalls` times in all and for the connections in `Shared`, also when the connection is
released already (`Call`), until they drop their pointer (`Drop`). A `ShutDown` task holds a
raw `this`, so its caller keeps the pointer until it has run. `ShutDownInLoop` does not look at
`_stat`: with output left it subscribes the channel, without it queues another `Release`,
also for a connection whose descriptor number has gone to another one. `late` is history: it
says that somebody did this to a connection that is `Ending`, that is, released or about
to be by a `Release` of the batch under way. `Send` of other threads is
`Connection`'s.

### Buffer

`buffer`, `ridx` and `widx` are the vector and the offsets; a write is
`EnsureWriteSpace`, `std::copy` and `MoveWrite` together, a read is the copy and
`MoveRead`. `call` and `moved` say what the last call was and which bytes it wrote or
returned; they are what `ByteQueue` looks at.

### LoopStart

`main` is where the main thread is in `CreateLoops`: inside `LoopThread`'s constructor
(whose members are initialised in two steps), at the lock, at the wait's condition, or
asleep. `thread` is where each loop thread is in `ThreadEntry`. Waking up, notified or
not, leads back to the lock and the condition.

### HttpContext and HttpServer

What the client has to say is fixed at the start (`wire`): up to `MaxRequests` requests of
the kinds in `Kind`, as pieces. The last piece of a line is the one with its LF. `arrived`
and `read` are the offsets of the input; `HandleRead` delivers any number of pieces, so
that every cut is tried. `recv_stat`, `resp_code` and `req` are the context's;
`req` has numbers in place of texts: which request the line and the header came from,
and which pieces the body is made of. `pc` is where `OnMessage` is and `depth` how many
calls of it are active: `ShutDown` calls the message callback again while input is left
(1032-1035), on a parser that was reset just before. The branch of `OnMessage` without
a context (http.hpp:580-585) is left out: `OnConnected` has set it. `after` is what the connection's
handler does when the outermost call returns. A request's `route` is where `Route` sends
it: a file, a handler that writes a body or none, or nobody (404); `says` is the
`Connection` field its handler sets, which `WriteResponse` keeps. A file may vanish before
it is read. A response keeps its code, what it answers, whether it ends the connection
(`close`, which is `HttpResponse::IsClose`) and whether it has a length (`sized`).
`out` says that some output waits; how it is sent is `Connection`'s business.

## 3. What is checked

All runs use the specification as written; constants only bound it.

| Run | Asks | Instance and why it is enough |
|---|---|---|
| `EventLoop_tasks` | types, lost wake-ups, exactly-once, per-thread order, refinement of `TaskExecutor`, that every task runs | two posters and the loop's own thread, two tasks each, at most `MaxTasks` = 4 in all, with signals: a push can fall before, between and after each step of another push and of a batch, and each of them can lose its wake-up |
| `TimerWheel_timers` | types, `_mp` against the wheel, no revival, accuracy, refinement of `Countdown`, no reference leaks | 3 slots, timeouts below, at and above 3, two timers, up to two unread expirations: refreshes lap the wheel and meet the slot being cleared |
| `Connection_handlers` | no output forgotten; output drained before a graceful close; a shut-down connection is on its way to its release in every order of events; the timer is what the application asked for; the connection ends when its peer is gone or it was shut down | one unread byte of an endless input, 2 bytes out (so that a write can be partial), any two calls of other threads among `Send`, `ShutDown`, `RegisterInactiveRelease` and `CancelInactiveRelease`; an armed timer may go off but need not, so that what ends the connection is not the timer |
| `Connection_assert` | finding: the assertion in `EstablishInLoop` | early timer, nothing else |
| `Connection_once` | finding: close callbacks run twice | one byte each way |
| `TcpServer_conns` | objects alive whenever used, Poller tables and `_conns` under reuse, no stolen timers, the life of a connection, closed connections are destroyed, waiting clients are accepted | none, one or two sub loops, two descriptors, three clients: two live at once, the third is refused by `accept` until a descriptor is free and then reuses it, on the same loop or another. One `RunAfter`, with no sub loops (`AfterThreads` = {0}), where the connected callback may release as well (`MayQuit` = {0}): with sub loops its timers have the base loop's wheel for themselves. An event queues at most `MaxReleases` = 1 release; a timer and an event in the same dispatch give the two releases of one connection that matter. The inactivity timer is enabled with no and with two sub loops (`TimedThreads` = {0, 2}). With one sub loop another thread makes one call of `ShutDown` or `Release` (`CallThreads` = {1}) on the first connection (`Shared` = {1}): the call can come before, with or behind a release, and its tasks before or behind the establishment of the next owner of the number, which a second or third client is |
| `TcpServer_late` | finding: a late `ShutDown` keeps the next connection from being watched | one descriptor, two clients, one call |
| `TcpServer_int` | finding: ids that do not fit an `int` | `int` of 2 bits, two connections |
| `HttpServer_requests` | each request is answered once, in order, from its own pieces, by the handler that brought its end; failures are answered with their code; `OnMessage` returns; announced ends happen | up to three requests of nine kinds: with and without header, body and keep-alive, to a file, a handler that sets `Connection` or not, or nobody, improper lines and fields, lines longer than `MaxLine` = 2, a body shorter than declared. Three requests let the second be nested in the first's `ShutDown` and the third follow it |
| `HttpServer_lengths` | finding: responses whose end cannot be told | one upload |
| `Buffer_queue` | refinement of `ByteQueue` | 3 bytes, writes of up to 3 into a vector of 2 that grows up to 5: every combination of room in front, room behind, moving and resizing |
| `LoopStart_pool` | `CreateLoops` gets constructed loops; the start-up ends | three threads in turn, two spurious wake-ups |

What the properties say, beyond their names:

* `NoLostWakeup` rests on three orders: push before write, read before swap, and
  waking even from the loop's own thread (a task pushed by a task of the running batch
  would otherwise wait for the next event).
* `OnSchedule` states exactly how accurate the timers are, against the timeout asked for: up
  to a timeout of a whole turn (60 s), seconds passed and ticks left make it up, corrected
  by how late the wheel was at the last refresh and is now. A loop that was stalled for `n`
  seconds and then serves a connection before the timerfd closes it up to `n` seconds early.
  Above a whole turn the code's modulo (647) cuts the timeout short by whole turns; there
  the property only says that the timer is not late. A timeout of 0, which the code makes a
  whole turn, is left out. `ImplementsCountdown` does take the modulo over, in ticks.
* `DrainedBeforeRelease` excuses two losses: the peer closed (a half-closed peer
  that still reads loses the pending output: `HandleClose` releases at once, 973-981) and
  the inactivity timer.
* `WatchesOwnFds` holds although `RemoveEvent` goes by descriptor number and a
  second `Release` may run after the number was given away. As long as only handlers,
  callbacks and timers queue Releases, all those of a connection are in one batch, and the
  new owner is registered by a later one. A call of another thread breaks this: in the batch
  `[Release c, ShutDown c]` the `ShutDown` queues a second `Release` behind the `Established` of
  the number's new owner, whose channel it then erases; or it subscribes `c` under that number. The
  property therefore holds until `late`, and `TranslatesReadyFds` (finding 5)
  shows what comes after. While no connection is given to other threads `late` never is
  (`OwnCallbacksAreNeverLate`).
* `StaysDisconnected`: after the release the socket is never open again, without exception, and
  the status stays DISCONNECTED with one: a `ShutDown` from another thread that
  arrives after the release sets it back to DISCONNECTING, as `ShutDownInLoop` does not check
  it. `ShutDownUnderWay` does not speak of released connections.
* `EnabledIsTimed` excuses registrations that met a cancelled task (1046): such a
  connection has no timer although the flag says so. The code has this fault; the property shows
  that nothing else loses a timer. A registration after the release
  arms a timer with a raw `this`; it is the caller's fault and not excused but out of
  the invariant's reach (`open`).
* `FunctorsKept`: with no sub loops `RunAfter`'s functions and the connections' timers are
  in one wheel, with ids from one counter; no release cancels a function.
* `ImplementsLife`: every step of the loops leaves each connection where it is or takes it
  one stage on; in particular it is not destroyed before its release and does nothing
  between the release and the end.
* `ReleasedIsDestroyed` excuses connections that `_conns` has under another key than their id.
  That happens only with no sub loops, when the connected callback calls
  `RunAfter`: it increments `_next_id` between the creation (1188) and the insertion
  (1197). Such a connection stays in `_conns` for ever. It and `ClientsAreAccepted` promise nothing
  after `late` either: an event may then meet a destroyed connection in the dispatch array,
  which is undefined, and the model's loop stops there.
* `ClientsAreAccepted`: level-triggered epoll reports the waiting client again after a
  failed `accept`, so that it waits only while other connections hold all descriptors.
* `PeerGoneReleases` and `ShutDownCompletes` say that the socket is closed in the end: after a
  shutdown, or after the peer's end of file or reset. `EventuallyGone` and
  `ReleasedIsDestroyed` say that timers and connections are let go of.
* `NoDanglingPointers` joins three uses of raw pointers: tasks that captured `this`,
  timer callbacks, and the `Channel*` of the dispatch array (this one until `late`).
* `AnswersMatch` and `AnsweredOnArrival` are claims about requests that start where the one
  before ends, which is so while all before are good and send as many bytes of body as
  they declare. After that the server cannot know where the next one starts.
* `CloseIsHonoured` needs `HandleWrite`: a response is sent, then the connection closes.

`CHECK_DEADLOCK FALSE` is set where the system really stops: a closed connection
(`HttpServer_requests`), a start-up that has ended (`LoopStart_pool`).

### Fairness

`EventLoop`: weak fairness of the loop thread's own steps and of the second half of
`PushInLoop`: `Start` is an endless loop and callbacks return. The timerfd, which is
periodic (602-607), is no part of it: `TicksRunTheRest` assumes its ticks in its own
statement, so that `EveryTaskRuns` does not owe anything to them. `TimerWheel`: time
passes, the loop comes back to the timerfd. `Connection`: `NewConnection` finishes, the
loop turns, and the peer goes on reading, without which no server can drain its output;
it need never send or close. `TcpServer`: each loop turns, and so accepts while clients wait; a connection need never end,
nor the timer of one or of `RunAfter` go off.
`HttpServer`: `OnMessage` runs on and the peer reads; it need not send anything, so
`AnsweredOnArrival` is an invariant and not a promise about later input. `LoopStart`: threads run, and
a wait that was notified ends; one that was not need not.

### Findings

1. `Connection_assert`. `NewConnection` queues the registration of the inactivity
   timer and the establishment as two tasks (1195-1196). If a timer of one second
   passes between them the queued `Release` runs first, and `EstablishInLoop`'s assertion
   (996) stops the server (the Makefiles do not define `NDEBUG`).
2. `Connection_once`. `ReleaseInLoop` has no guard against a second run. A `Release`
   that is queued leaves time for further handlers: an event of the same connection that is
   handled before it runs, be it data (whose message callback shuts down), end of file or a reset (where
   `HandleRead` and `HandleError` each lead to one), queues a second, and the close callbacks
   (1014-1016) run twice. TLC shows one of the shortest such behaviours.
3. `TcpServer_int`. `RemoveConnectionInLoop` keeps the 64-bit id in an `int` (1201):
   after 2^31 connections closed ones stay in `_conns`.
4. `HttpServer_lengths`. `WriteResponse` adds `Content-Length` only to a response with a body
   (http.hpp:668). On a connection that is kept, a response without one (a 404 of
   `Dispatcher`, an upload answered by `PutFile` of `main.cc`) does not say where it ends, and
   a client waits for more until the inactivity timer closes the connection.
5. `TcpServer_late`. A `ShutDown` of another thread that runs in the batch behind the
   `Release`, with output left, calls `EnableWrite` (1039) on the closed descriptor. epoll
   refuses it, but `UpdateEvent` has filed the dead connection's channel under the number
   (490-500). The next connection that gets the number is taken for registered,
   its `EnableRead` becomes a MOD, and the Poller never watches it.

## 4. What is proved

`EventLoopProofs`, from `EventLoopAssumption` alone (any threads, any bounds, with or
without signals):

* `TypeInvariant`: `TypeOK` is inductive. It also carries what each program point
  implies (a batch exists only inside `RunAllTasks`), which the others use.
* `NeverLosesWakeup`: inductive given `TypeOK`.
* `TasksRunExactlyOnce`, `PostersKeepOrder`: about `Schedule`, the concatenation of what has
  run, the batch and the queue. Every step either leaves it as it is (swapping and
  running move the boundaries) or inserts the new task: at the end for a push, between
  what ran and what waits for an in-thread call. Lemmas on sequences make that
  precise; distinctness and order follow by insertion.
* `LoopImplementsExecutor`: each step is a step of `TaskExecutor` or a stutter.

`TimerWheelProofs`, from `TimerWheelAssumption` (any number of slots and timers):

* `TypeInvariant`: `TypeOK` is inductive; slot indices exist.
* `MapAlwaysMatchesWheel` and `NeverRevives`: together inductive. `RemoveTask` may erase
  an id only because nothing refers to the task whose callback returns, and refreshing
  cannot revive that task because `_mp` and the wheel agree on who is alive.
* `AlwaysOnSchedule`: in two steps. `OnTicks` says the same in the wheel's own terms, with the
  slots a timeout comes to (`Delay`, its modulo); `DelayOfTimeout` says that these are the
  timeout itself for 1..Capacity and fewer beyond. `OnTicks` is inductive with the two before and with `WithinDelay`: no slot refers to a
  task further ahead than its delay. Without that the reference a refresh adds, `Delay` slots
  ahead, need not be the furthest, and an older one would keep the task alive too long.
  The arithmetic is that of places on a ring: a step of `_tick` brings every slot one nearer and
  sends the one under it round to the far end (`RoundTheWheel`, `AheadAfterTick`), which is
  empty by then.
* `WheelImplementsCountdown`: `Remaining` is the distance to the furthest reference, so adding and
  refreshing set it, a tick takes one from all, and the last reference goes exactly when it is
  the only thing left to go.

`BufferProofs`, from `BufferAssumption` (any bytes, sizes and bounds):

* `TypeInvariant`: `TypeOK` is inductive; it needs `RoomProperties`, that
  `EnsureWriteSpace` makes room in all three of its cases.
* `BufferImplementsQueue`: compared byte by byte, moving and resizing leave `Readable` as it is,
  a write appends to it (`CopyAppends`), and taking bytes splits it (`TakeSplits`);
  `LineSize` is the first LF because a set of numbers has a least one.

`LoopStartProofs`, from `LoopStartAssumption` (any number of threads and spurious wake-ups):

* `LoopsAlwaysReady`, by two inductive invariants on top of the types (`StartOK`):
  threads `CreateLoops` has not come to do not run (`NotBegun`), so the
  constructor cannot overwrite what a thread stored; and a `_loop` that `GetLoop` may look at is initialised, and
  points to a loop only if its thread is past the construction (`LoopIsSet`).

`ConnectionProofs`, from `ConnectionAssumption` (any bounds, any calls of other threads, with or
without the inactivity timer):

* `TypeInvariant`: `TypeOK` is inductive. `MsgCb` is treated once, by what it leaves behind
  (`MsgCbLeaves`), whether data, an error or the peer's end led to it.
* `OutputAlwaysWatched`: inductive given the types. Every step either subscribes to EPOLLOUT or
  changes neither the subscription nor, except by sending some of it, the output (`OutputStep`).
* `EnabledIsAlwaysTimed`: inductive given the types; with the excuse of `lapsed`.
* `UncancelledIsAlwaysTimed`: without it, assuming that nobody calls `CancelInactiveRelease`: then no task is
  ever cancelled while the connection is open, so no registration can meet one.
* `AlwaysStaysDisconnected`: from `SocketOK`, which relates four views of the same socket: the
  status, whether the descriptor is open, `_channels` and epoll's list, and which handlers may still
  run. The action property follows because only `EstablishInLoop` and `ShutDownInLoop` assign
  another status; the first asserts CONNECTING, which a released connection never is, and
  the second, run for a released connection, can only be the task of another thread, which is excused.
* `ShutDownAlwaysUnderWay`: inductive with `SocketOK`: in DISCONNECTING a `Release` is queued or
  output waits that EPOLLOUT is asked for. A handler that ends with neither has released.
* `DrainedAlwaysBeforeRelease`: a release may be queued at any time, long before it runs. So the
  invariant is about the queue (`ReleaseOK`: when a `Release` is queued nothing is owed, or the peer
  is gone, or the timer went off) and about what the dispatch loop still has to handle
  (`EventsOK`: an event for reading is there only with data or with the peer's end).

`TcpServerProofs`, from `TcpServerAssumption` (any number of loops, descriptors, clients and
calls of `RunAfter`):

* `TypeInvariant`: needs `Types`: that ids do not run out takes a count (an id has been taken by a client or by a
  `RunAfter` that ran; the others are still queued: `Counted`), that `accept` finds a client takes
  the readiness of the Acceptor, that `Poll` finds a channel takes epoll's agreement with `_channels`.
* `AlwaysWatchesOwnFds`, `FunctorsAlwaysKept`, `OpenIsAlwaysKnown`, `NeverDangling`: parts of one
  invariant, `Safe`, in nine parts that need each other. What makes it inductive is
  `QueuesOK` with `SetUpOK` (what each queued task implies of its connection: a set-up is never
  behind an establishment, a `Release` that waits for the next batch is the only one left) and
  `ReuseOK` (while a second `Release` waits in a batch nothing on that loop that is or is about to be established
  has its descriptor), which is the reason why `RemoveEvent` by number is harmless until `late`.
  What concerns `late` behaviours is conditional in each part; what does not, like `EstablishedOK` (what
  other threads and `_channels` have was established on its loop), holds always, so that
  `NeverDangling` for tasks and timers and `Implementation` cover them too.
* `OwnCallbacksAreNeverLate`: if `CallThreads` is empty nobody but the loops has a connection. A loop that dispatches
  has no batch under way and its events are of CONNECTED connections, so no handler
  meets an `Ending` one; `TranslatesReadyFds` follows from `WatchesOwnFds`.
* `Implementation`: `TcpServer` refines `ConnectionLife`. Each step of the loops advances at most one connection,
  and a released connection that nothing refers to any more gets no new reference (`Lives`).

`OpenIsAlwaysKnown`, `NeverDangling` and `Implementation` assume `NoWrap`: no id that was cut
off to an `int` is another connection's. The code does cut ids off (finding 3), so that they hold only as
long as ids stay below 2^31; the run `TcpServer_int` shows what happens beyond. With the
`IntBits` of the run `TcpServer_conns` `NoWrap` is true, with 2^31 connections in the life of the
server it would not be.

`HttpServerProofs`, from `HttpContextAssumption` (any kinds of requests, any number of them, any
`MaxLine`):

* Where a request is on the wire: `WireLayout`. `wire` is `FlattenSeq` of the requests'
  pieces. That the recursive function behind it exists and puts the i-th request behind
  the i-1 before it is proved by induction on the number of requests, and induction by the
  least counterexample (`SetInduction`): the library's induction theorems take
  an operator as a parameter, its `WFMin` does not.
* `TypeInvariant`, `EachAnsweredInTurn`, `NothingIsLeftToParse`, `NoneKeptWaiting`: parts or
  consequences of one invariant, `Inv`, about those places. `Parser`: the read offset is at the start of
  a line of the request that `_req` says, or inside its body, of which `_req` has exactly what
  lies before the offset; in the states where the parser returns it can do nothing
  with what is left. `Position`: that request is the next to answer, and an error
  is the one it deserves. Both are needed together: which line it is that `RecvLine`
  takes follows from the place, and the place after it from the line.
* Any cut of the input is covered because the lemmas on lines (`RequestLine`, `HeaderLine`, `BlankLine`) say where
  the first LF is, whatever part of the line has arrived.

So every invariant, action property and refinement that a run checks is also proved for all
values of the constants. Only model-checked: the liveness properties (`EveryTaskRuns`,
`TicksRunTheRest`, `EventuallyGone`, `PeerGoneReleases`, `ShutDownCompletes`, `ReleasedIsDestroyed`,
`ClientsAreAccepted`, `OnMessageReturns`, `CloseIsHonoured`, `PoolStarts`), because fairness and
ENABLED are beyond the prover. The findings need no proof: each is a behaviour TLC exhibits.

## 5. What is not modelled

Now: a `Content-Length` that is no number (`stol` throws
and nothing catches it); handlers that set `Content-Length` themselves; HEAD, which is
routed and answered like GET, with a body; `Send` from other threads in `TcpServer`
(`Connection` has it);
adding a timer of a multiple of
60 s from a timer's callback (appends to the slot being cleared, undefined in
`std::vector`). For good: `Util`, whose
`Split`, `UrlEncode`, `UrlDecode` and `ValidPath` are functions of one string that unit tests
reach (`Split` repeats the ends of parts, "aa," gives "aa" and "a", as http.hpp:33 goes on
behind the start of a part instead of behind the separator); `UpgradeProtocol` (assigns callbacks, which may do anything here), `Socket`'s set-up calls,
which path matches which pattern or file, file access
(also the race of `ReadFile` with a `WriteFile` on another loop, which `FileHandler` answers with a padded body), logging, the MIME and status tables, `main.cc`, the layout of responses,
the test clients.

## 6. Plan

Order: what is shared by all connections first, then one connection, then the HTTP layer.

1. Done: `EventLoop`, `TimerWheel`, `Connection`, `TcpServer` with `RunAfter`, failing `accept` and
   no sub loops, `LoopStart`, `Buffer`, `HttpContext`, `HttpServer` with its routes, and the
   proofs above.
2. Left of the model: `HttpServer` composed with more of `Connection` (partial sends between
   responses).
3. Left of the proofs: the safety halves of the liveness properties (after an announced end the
   connection is no longer CONNECTED, for `CloseIsHonoured`; each turn of `OnMessage` takes input or
   returns, for `OnMessageReturns`; what keeps a released connection alive is queued, for
   `ReleasedIsDestroyed`).

New questions are put to the existing runs where possible (a wider instance or a property in
place of a shallower one) rather than to new ones.
