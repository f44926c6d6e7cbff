----------------------------- MODULE Connection -----------------------------
(***************************************************************************)
(* One Connection of src/server.hpp on the loop it was assigned to: its    *)
(* status, its Channel's interest set, the two buffers, its inactivity     *)
(* timer, the tasks its loop still has to run for it, and the peer's half  *)
(* of the TCP connection.                                                  *)
(*                                                                         *)
(* Bytes are counted, not stored. User callbacks consume, Send and         *)
(* ShutDown as they like; the close and any-event callbacks do not call    *)
(* the connection back. The loop is EventLoop.tla's, one handler per step  *)
(* so that other threads' submissions fall in between; that a queued task  *)
(* wakes it is proved there. The timer is TimerWheel.tla's without its     *)
(* ticks: while armed it may go off at any timer event, so a refresh,      *)
(* which only delays it, changes nothing here.                             *)
(***************************************************************************)
EXTENDS Integers, Sequences, SequencesExt

CONSTANTS
    MaxUnread,      \* bound: bytes of the peer not consumed yet
    MaxSend,        \* bound: bytes the application sends
    AppTasks,       \* what other threads submit, see ConnectionAssumption
    MaxAppTasks,    \* bound: how often they do
    Inactivity,     \* whether the server enabled the inactivity timer
    EarlyTimer      \* whether its timeout may pass before Established runs

ASSUME ConnectionAssumption ==
    /\ MaxUnread \in Nat /\ MaxSend \in Nat /\ MaxAppTasks \in Nat
    /\ AppTasks \subseteq {"Send", "ShutDown", "Register", "Cancel"}
    /\ Inactivity \in BOOLEAN /\ EarlyTimer \in BOOLEAN

VARIABLES
    stat,       \* _stat
    events,     \* _channel._events
    inMap,      \* the Poller's _channels has this channel
    epoll,      \* the kernel watches the socket with _events
    open,       \* the socket is not closed
    in, out,    \* bytes in _in_buffer and _out_buffer
    timer,      \* the loop's timer task for _conn_id
    enabled,    \* _enable_inactive_release
    tasks,      \* the loop's _tasks, as far as they concern this connection
    local,      \* what is left of the batch RunAllTasks took
    pc,         \* where the loop is: in Start, or inside Channel::HandleEvent
    actives,    \* channels returned by Poll and not dispatched yet
    revents,    \* _channel._revents
    setup,      \* how far NewConnection got on the base loop
    recvq, fin, rst, soerr,     \* peer's bytes unread, FIN, RST, pending error
    writable,   \* the kernel takes more bytes for the peer
    submitted, calls,  \* counters for the bounds
    owed,       \* history: bytes sent while CONNECTED that are still in out
    timedOut,   \* history: the inactivity timer went off
    lapsed,     \* history: the last registration met a cancelled timer task
    closed      \* history: the close callbacks ran once (1) or more often (2)

loopVars == <<tasks, local, pc, actives, revents>>
peerVars == <<recvq, fin, rst, soerr>>
timerVars == <<timer, enabled, lapsed>>
connVars == <<stat, events, inMap, epoll, open, in, out, timerVars>>
histVars == <<owed, timedOut, closed>>
vars == <<connVars, loopVars, peerVars, histVars, setup, writable, submitted, calls>>

Init ==
    /\ stat = "CONNECTING"
    /\ events = {} /\ inMap = FALSE /\ epoll = FALSE /\ open = TRUE
    /\ in = 0 /\ out = 0
    /\ timer = "none" /\ enabled = FALSE /\ lapsed = FALSE
    /\ tasks = <<>> /\ local = <<>>
    /\ pc = "poll" /\ actives = {} /\ revents = {}
    /\ setup = IF Inactivity THEN "register" ELSE "establish"
    /\ recvq = 0 /\ fin = FALSE /\ rst = FALSE /\ soerr = FALSE
    /\ writable = TRUE
    /\ submitted = 0 /\ calls = 0
    /\ owed = 0 /\ timedOut = FALSE /\ closed = 0

-----------------------------------------------------------------------------
(***************************************************************************)
(* Other threads: NewConnection on the base loop, and the application.     *)
(***************************************************************************)
\* RegisterInactiveRelease, then Established, each a task of its own.
NewConnection ==
    /\ setup # "done"
    /\ IF setup = "register"
         THEN tasks' = Append(tasks, "Register") /\ setup' = "establish"
         ELSE tasks' = Append(tasks, "Established") /\ setup' = "done"
    /\ UNCHANGED <<connVars, local, pc, actives, revents, peerVars, histVars,
                   writable, submitted, calls>>

\* Send and ShutDown from a thread that got the connection in a callback.
AppCall(t) ==
    /\ calls < MaxAppTasks
    /\ setup = "done" /\ stat # "CONNECTING"
    /\ calls' = calls + 1
    /\ tasks' = Append(tasks, t)
    /\ UNCHANGED <<connVars, local, pc, actives, revents, peerVars, histVars,
                   setup, writable, submitted>>

-----------------------------------------------------------------------------
(***************************************************************************)
(* The peer and the kernel.                                                *)
(***************************************************************************)
PeerSends ==
    /\ open /\ ~fin /\ ~rst /\ in + recvq < MaxUnread
    /\ recvq' = recvq + 1
    /\ UNCHANGED <<connVars, loopVars, fin, rst, soerr, histVars, setup,
                   writable, submitted, calls>>

PeerCloses ==
    /\ open /\ ~fin /\ ~rst
    /\ fin' = TRUE
    /\ UNCHANGED <<connVars, loopVars, recvq, rst, soerr, histVars,
                   setup, writable, submitted, calls>>

PeerResets ==
    /\ open /\ ~rst
    /\ rst' = TRUE /\ soerr' = TRUE
    /\ UNCHANGED <<connVars, loopVars, recvq, fin, histVars, setup,
                   writable, submitted, calls>>

PeerReads ==
    /\ open /\ ~writable
    /\ writable' = TRUE
    /\ UNCHANGED <<connVars, loopVars, peerVars, histVars, setup, submitted, calls>>

\* What epoll reports: the subscribed events, and errors always.
Reported ==
    (IF recvq > 0 \/ fin \/ rst THEN {"IN"} \cap events ELSE {})
        \cup (IF writable \/ rst THEN {"OUT"} \cap events ELSE {})
        \cup (IF soerr THEN {"ERR"} ELSE {})
        \cup (IF rst THEN {"HUP"} ELSE {})

-----------------------------------------------------------------------------
(***************************************************************************)
(* Pieces the handlers share.                                              *)
(***************************************************************************)
\* Channel::Update of a new interest set, down to epoll_ctl: ADD works on an
\* open descriptor only, MOD on a watched one.
UpdateEvent(evs) ==
    /\ events' = evs
    /\ inMap' = TRUE
    /\ epoll' = IF inMap THEN epoll ELSE open

EnableWriteIf(cond) ==
    IF cond /\ "OUT" \notin events THEN UpdateEvent(events \cup {"OUT"})
                                   ELSE UNCHANGED <<events, inMap, epoll>>

Releases(n) == [i \in 1..n |-> "Release"]

\* Runs the message callback when _in_buffer holds something, on behalf of
\* `downs` ShutDownInLoop calls (0 or 1) and with `releases` Release() calls to
\* follow. The callback consumes and sends as it likes and may end with a
\* ShutDown, which runs at once and calls it again for what is left: the
\* choices of k and s stand for all the nested calls together.
MsgCb(avail, downs, releases) ==
    \E k \in 0..avail, s \in 0..MaxSend - submitted, d \in {0, 1} :
        /\ avail = 0 => s = 0 /\ d = 0
        /\ in' = avail - k
        /\ out' = out + s
        /\ submitted' = submitted + s
        /\ owed' = IF stat = "CONNECTED" THEN owed + s ELSE owed
        /\ stat' = IF downs + d > 0 THEN "DISCONNECTING" ELSE stat
        /\ EnableWriteIf(s > 0 \/ (downs + d > 0 /\ out' > 0))
        /\ tasks' = tasks \o Releases(releases + IF out' = 0 THEN downs + d ELSE 0)

MutantHandleClose_NoRelease == MsgCb(in, 0, 0)

HandleClose == MsgCb(in, 0, 1)

ShutDownInLoop == MsgCb(in, 1, 0)

-----------------------------------------------------------------------------
(***************************************************************************)
(* Poll and Channel::HandleEvent.                                          *)
(***************************************************************************)
\* Returns the channels with events; a timer event may come at any time, and
\* the eventfd is readable when tasks are queued.
Poll ==
    /\ pc = "poll"
    /\ \E ready \in SUBSET {"conn", "timer"} :
          /\ "conn" \in ready <=> epoll /\ Reported # {}
          /\ ready # {} \/ tasks # <<>>
          /\ actives' = ready
          /\ revents' = IF "conn" \in ready THEN Reported ELSE revents
    /\ pc' = "dispatch"
    /\ UNCHANGED <<connVars, tasks, local, peerVars, histVars, setup, writable,
                   submitted, calls>>

HandleEvent ==
    /\ pc = "dispatch"
    /\ "conn" \in actives
    /\ actives' = actives \ {"conn"}
    /\ pc' = IF "IN" \in revents THEN "read" ELSE "write"
    /\ UNCHANGED <<connVars, tasks, local, revents, peerVars, histVars, setup,
                   writable, submitted, calls>>

\* recv() returns the bytes that are there, else the pending error, else EOF.
HandleRead ==
    /\ pc = "read"
    /\ pc' = "write"
    /\ CASE recvq > 0 ->
              MsgCb(in + recvq, 0, 0) /\ recvq' = 0 /\ UNCHANGED soerr
         [] recvq = 0 /\ soerr ->
              ShutDownInLoop /\ soerr' = FALSE /\ UNCHANGED recvq
         [] OTHER ->
              HandleClose /\ UNCHANGED <<recvq, soerr>>
    /\ UNCHANGED <<open, timerVars, local, actives, revents, fin, rst,
                   timedOut, closed, setup, writable, calls>>

MutantDisableWrite_Always(left) == UpdateEvent(events \ {"OUT"})

DisableWrite(left) ==
    IF left = 0 THEN UpdateEvent(events \ {"OUT"}) ELSE UNCHANGED <<events, inMap, epoll>>

MutantLastRelease_Never(left) == 0
MutantLastRelease_Early(left) == IF stat = "DISCONNECTING" THEN 1 ELSE 0

LastRelease(left) == IF left = 0 /\ stat = "DISCONNECTING" THEN 1 ELSE 0

\* The rest of HandleWrite, once the kernel took n bytes of _out_buffer.
SendOut(n) ==
    /\ out' = out - n
    /\ owed' = IF owed > n THEN owed - n ELSE 0
    /\ DisableWrite(out')
    /\ tasks' = tasks \o Releases(LastRelease(out'))

\* SendNonBlock of nothing returns 0; send() fails after a reset; otherwise the
\* kernel takes some bytes, and a part of them only when it is full.
HandleWrite ==
    IF rst /\ out > 0
      THEN HandleClose /\ soerr' = FALSE /\ UNCHANGED writable
      ELSE /\ \E n \in 0..out :
                /\ writable /\ out > 0 <=> n > 0
                /\ SendOut(n)
                /\ writable' \in IF n = out THEN {writable, FALSE} ELSE {FALSE}
           /\ UNCHANGED <<stat, in, submitted, soerr>>

\* The second half of Channel::HandleEvent: one of the write, error and close
\* callbacks, then Connection::HandleEvent, which refreshes the timer. _revents
\* is not read again before Poll sets it.
HandleRest ==
    /\ pc = "write"
    /\ pc' = "dispatch"
    /\ revents' = {}
    /\ CASE "OUT" \in revents -> HandleWrite
         [] "OUT" \notin revents /\ revents \cap {"ERR", "HUP"} # {} ->
              HandleClose /\ UNCHANGED <<writable, soerr>>
         [] OTHER ->
              UNCHANGED <<stat, events, inMap, epoll, in, out, tasks, submitted,
                          owed, writable, soerr>>
    /\ UNCHANGED <<open, timerVars, local, actives, recvq, fin, rst,
                   timedOut, closed, setup, calls>>

\* Ontime: an armed timer may go off, which runs Release; a cancelled one
\* may reach its slot and disappear.
Ontime ==
    /\ pc = "dispatch"
    /\ "timer" \in actives
    /\ actives' = actives \ {"timer"}
    /\ \/ UNCHANGED <<timer, tasks, timedOut>>
       \/ /\ timer = "armed"
          /\ EarlyTimer \/ stat # "CONNECTING"
          /\ timer' = "none" /\ timedOut' = TRUE
          /\ tasks' = Append(tasks, "Release")
       \/ /\ timer = "canceled"
          /\ timer' = "none"
          /\ UNCHANGED <<tasks, timedOut>>
    /\ UNCHANGED <<stat, events, inMap, epoll, open, in, out, enabled, lapsed, local,
                   pc, revents, peerVars, owed, closed, setup, writable, submitted, calls>>

-----------------------------------------------------------------------------
(***************************************************************************)
(* RunAllTasks.                                                            *)
(***************************************************************************)
SwapTasks ==
    /\ pc = "dispatch"
    /\ actives = {}
    /\ local' = tasks
    /\ tasks' = <<>>
    /\ pc' = "run"
    /\ UNCHANGED <<connVars, actives, revents, peerVars, histVars, setup,
                   writable, submitted, calls>>

MutantBatchDone_Early == TRUE

BatchDone == local = <<>>

EndOfBatch ==
    /\ pc = "run" /\ BatchDone
    /\ pc' = "poll"
    /\ UNCHANGED <<connVars, tasks, local, actives, revents, peerVars, histVars,
                   setup, writable, submitted, calls>>

RunTask(t) ==
    /\ pc = "run"
    /\ local # <<>> /\ Head(local) = t
    /\ local' = Tail(local)
    /\ UNCHANGED <<actives, revents, peerVars, setup, writable, calls>>

\* A task whose cancellation has not come to its slot yet is only refreshed.
RegisterInactiveReleaseInLoop ==
    /\ RunTask("Register")
    /\ enabled' = TRUE
    /\ timer' = IF timer = "none" THEN "armed" ELSE timer
    /\ lapsed' = (timer = "canceled")
    /\ UNCHANGED <<stat, events, inMap, epoll, open, in, out, tasks, pc, histVars,
                   submitted>>

MutantCancelTimer_KeepsFlag ==
    /\ timer' = IF timer = "none" THEN "none" ELSE "canceled"
    /\ UNCHANGED enabled

CancelTimer ==
    /\ enabled' = FALSE
    /\ timer' = IF timer = "none" THEN "none" ELSE "canceled"

CancelInactiveReleaseInLoop ==
    /\ RunTask("Cancel")
    /\ CancelTimer
    /\ UNCHANGED <<stat, events, inMap, epoll, open, in, out, lapsed, tasks, pc,
                   histVars, submitted>>

\* The assertion, then EnableRead, then the connected callback, which may send
\* and shut down.
EstablishInLoop ==
    /\ RunTask("Established")
    /\ IF stat # "CONNECTING"
         THEN pc' = "aborted" /\ UNCHANGED <<connVars, tasks, submitted, owed>>
         ELSE /\ UNCHANGED <<pc, open, in, timerVars>>
              /\ \E s \in 0..MaxSend - submitted, down \in BOOLEAN :
                    /\ stat' = IF down THEN "DISCONNECTING" ELSE "CONNECTED"
                    /\ out' = s /\ submitted' = submitted + s /\ owed' = s
                    /\ UpdateEvent({"IN"} \cup IF s > 0 THEN {"OUT"} ELSE {})
                    /\ tasks' = tasks \o Releases(IF down /\ s = 0 THEN 1 ELSE 0)
    /\ UNCHANGED <<timedOut, closed>>

MutantRemoveAndClose_Nothing == UNCHANGED <<inMap, epoll, open>>

\* Channel::Remove and Socket::Close.
RemoveAndClose == inMap' = FALSE /\ epoll' = FALSE /\ open' = FALSE

\* The timer is cancelled if there is one, then come the two close callbacks.
ReleaseInLoop ==
    /\ RunTask("Release")
    /\ stat' = "DISCONNECTED"
    /\ RemoveAndClose
    /\ IF timer # "none" THEN CancelTimer ELSE UNCHANGED <<timer, enabled>>
    /\ closed' = IF closed = 0 THEN 1 ELSE 2
    /\ UNCHANGED <<events, in, out, lapsed, tasks, pc, owed, timedOut, submitted>>

SendInLoop ==
    /\ RunTask("Send")
    /\ IF stat = "DISCONNECTED" \/ submitted = MaxSend
         THEN UNCHANGED <<out, submitted, owed, events, inMap, epoll>>
         ELSE /\ out' = out + 1
              /\ submitted' = submitted + 1
              /\ owed' = IF stat = "CONNECTED" THEN owed + 1 ELSE owed
              /\ EnableWriteIf(TRUE)
    /\ UNCHANGED <<stat, open, in, timerVars, tasks, pc, timedOut, closed>>

ShutDownTask ==
    /\ RunTask("ShutDown")
    /\ ShutDownInLoop
    /\ UNCHANGED <<open, timerVars, pc, timedOut, closed>>

Start ==
    \/ Poll \/ HandleEvent \/ HandleRead \/ HandleRest \/ Ontime
    \/ SwapTasks \/ EndOfBatch
    \/ RegisterInactiveReleaseInLoop \/ CancelInactiveReleaseInLoop
    \/ EstablishInLoop \/ ReleaseInLoop
    \/ SendInLoop \/ ShutDownTask

Next ==
    \/ NewConnection
    \/ \E t \in AppTasks : AppCall(t)
    \/ PeerSends \/ PeerCloses \/ PeerResets \/ PeerReads
    \/ Start

Spec == Init /\ [][Next]_vars

(***************************************************************************)
(* The base loop finishes NewConnection, the loop keeps turning and the    *)
(* peer goes on reading; it need not send, close, or let the timer go off. *)
(***************************************************************************)
FairSpec ==
    /\ Spec
    /\ WF_vars(NewConnection)
    /\ WF_vars(Start)
    /\ WF_vars(PeerReads)

-----------------------------------------------------------------------------
Pending(t) == t \in Range(local \o tasks)
PeerGone == fin \/ rst

Task == {"Register", "Established", "Release"} \cup AppTasks

FlagsOK ==
    /\ {inMap, epoll, open} \subseteq BOOLEAN
    /\ {fin, rst, soerr, writable} \subseteq BOOLEAN
    /\ {enabled, lapsed, timedOut} \subseteq BOOLEAN

TypeOK ==
    /\ FlagsOK
    /\ stat \in {"CONNECTING", "CONNECTED", "DISCONNECTING", "DISCONNECTED"}
    /\ events \subseteq {"IN", "OUT"}
    /\ in \in 0..MaxUnread /\ recvq \in 0..MaxUnread /\ in + recvq <= MaxUnread
    /\ submitted \in 0..MaxSend /\ out \in 0..submitted /\ owed \in 0..out
    /\ timer \in {"none", "armed", "canceled"}
    /\ tasks \in Seq(Task) /\ local \in Seq(Task)
    /\ pc \in {"poll", "dispatch", "read", "write", "run", "aborted"}
    /\ actives \subseteq {"conn", "timer"}
    /\ revents \subseteq {"IN", "OUT", "ERR", "HUP"}
    /\ setup \in {"register", "establish", "done"}
    /\ calls \in 0..MaxAppTasks
    /\ closed \in 0..2
    /\ local # <<>> => pc \in {"run", "aborted"}
    /\ actives # {} => pc \in {"dispatch", "read", "write"}

(***************************************************************************)
(* While the socket is watched, output waits only for EPOLLOUT: no path    *)
(* through Send, HandleWrite and DisableWrite leaves bytes in _out_buffer  *)
(* that nothing would ever send.                                           *)
(***************************************************************************)
OutputWatched ==
    epoll /\ out > 0 => "OUT" \in events

(***************************************************************************)
(* Graceful close: what the application sent while the connection was      *)
(* CONNECTED is in the kernel's hands before the socket is closed, except  *)
(* when the peer closed or reset it or the inactivity timer went off.      *)
(***************************************************************************)
DrainedBeforeRelease ==
    stat = "DISCONNECTED" /\ owed > 0 => PeerGone \/ timedOut

(***************************************************************************)
(* A connection that was shut down is on its way out: either output is     *)
(* still being sent, or its Release is queued. A ShutDown that reaches a   *)
(* released connection is StaysDisconnected's case.                        *)
(***************************************************************************)
ShutDownUnderWay ==
    stat = "DISCONNECTING" /\ closed = 0 =>
        \/ Pending("Release")
        \/ epoll /\ out > 0 /\ "OUT" \in events

(***************************************************************************)
(* Release is final: whatever its loop had queued or dispatched for the    *)
(* connection, its socket is not open again and its status stays           *)
(* DISCONNECTED. Excused, and for the status only, is the ShutDown of      *)
(* another thread that runs late: ShutDownInLoop (server.hpp:1028) does    *)
(* not look at _stat and makes the connection DISCONNECTING once more.     *)
(***************************************************************************)
StaysDisconnected ==
    [][closed > 0 =>
         /\ ~open'
         /\ \/ stat' \in {stat, "DISCONNECTED"}
            \/ stat' = "DISCONNECTING" /\ pc = "run" /\ Head(local) = "ShutDown"]_vars

(***************************************************************************)
(* The flag and the wheel agree: an established connection whose inactive  *)
(* release is enabled has a live timer, or went past it, and one that is   *)
(* not has none. Excused is a registration that met the task of an earlier *)
(* one, cancelled and still in its slot: it refreshed a timer that will    *)
(* never go off (server.hpp:1046).                                         *)
(***************************************************************************)
EnabledIsTimed ==
    /\ timer = "armed" => enabled
    /\ enabled /\ open => timer = "armed" \/ Pending("Release") \/ lapsed

(***************************************************************************)
(* EstablishInLoop's assertion (server.hpp:996) holds.                     *)
(***************************************************************************)
AssertConnecting ==
    pc # "aborted"

(***************************************************************************)
(* ReleaseInLoop's step 5 (server.hpp:1014), the user's and the server's   *)
(* close callbacks, happens once in the life of a connection.              *)
(***************************************************************************)
CloseCallbackOnce ==
    closed <= 1

(***************************************************************************)
(* The socket of a connection whose peer closed or reset it is closed,     *)
(* without help from the inactivity timer.                                 *)
(***************************************************************************)
PeerGoneReleases ==
    PeerGone /\ stat = "CONNECTED" ~> ~open

(***************************************************************************)
(* A shutdown completes when the peer goes on reading.                     *)
(***************************************************************************)
ShutDownCompletes ==
    stat = "DISCONNECTING" ~> ~open
=============================================================================
