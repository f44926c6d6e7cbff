-------------------------- MODULE ConnectionProofs --------------------------
(***************************************************************************)
(* Theorems about Connection for any bounds, whatever other threads submit *)
(* and whenever the inactivity timer goes off.                             *)
(***************************************************************************)
EXTENDS Connection, Queues

-----------------------------------------------------------------------------
(***************************************************************************)
(* TypeOK.                                                                 *)
(***************************************************************************)
\* Release() n times.
LEMMA PushReleases ==
    ASSUME NEW q \in Seq(Task), NEW n \in Nat
    PROVE  /\ q \o Releases(n) \in Seq(Task)
           /\ \A t : t \in Range(q \o Releases(n))
                        <=> t \in Range(q) \/ (n > 0 /\ t = "Release")
<1>1. Releases(n) \in Seq(Task)
  BY DEF Releases, Task
<1>2. \A t : t \in Range(Releases(n)) <=> n > 0 /\ t = "Release"
  <2>1. DOMAIN Releases(n) = 1..n /\ \A i \in 1..n : Releases(n)[i] = "Release"
    BY DEF Releases
  <2>2. n > 0 => 1 \in 1..n
    OBVIOUS
  <2> QED BY <2>1, <2>2 DEF Range
<1> QED BY <1>1, <1>2, RangeConcat, ConcatProperties

\* The buffers after a step, with at most `avail` bytes in _in_buffer.
Counts(avail) ==
    /\ in' \in 0..avail
    /\ submitted' \in 0..MaxSend /\ out' \in 0..submitted' /\ owed' \in 0..out'

\* The channel after a step: as it was, or updated once to the events evs.
UpdatedTo(evs) ==
    \/ UNCHANGED <<events, inMap, epoll>>
    \/ events' = evs /\ inMap' = TRUE /\ epoll' = IF inMap THEN epoll ELSE open

\* What the message callback, with the ShutDowns and the Release around it,
\* leaves behind: n Releases are queued.
MsgCbLeaves(n, avail, downs, releases) ==
    /\ Counts(avail)
    /\ stat' = stat \/ stat' = "DISCONNECTING"
    /\ downs = 1 => stat' = "DISCONNECTING"
    /\ tasks' = tasks \o Releases(n)
    /\ stat' # stat /\ out' = 0 => n > 0
    /\ releases = 1 => n > 0
    /\ n > 0 => releases = 1 \/ (stat' = "DISCONNECTING" /\ out' = 0)
    /\ out <= out' /\ (stat = "CONNECTED" \/ owed' = owed)
    /\ out < out' \/ (stat' # stat /\ out' > 0) => "OUT" \in events'
    /\ UpdatedTo(events \cup {"OUT"})

\* The choices of MsgCb, without its existential.
LEMMA MsgCbEffect ==
    ASSUME TypeOK, NEW avail \in Nat, NEW downs \in {0, 1}, NEW releases \in {0, 1},
           MsgCb(avail, downs, releases)
    PROVE  \E n \in Nat : MsgCbLeaves(n, avail, downs, releases)
<1>1. PICK k \in 0..avail, s \in 0..MaxSend - submitted, d \in {0, 1} :
        /\ in' = avail - k
        /\ out' = out + s
        /\ submitted' = submitted + s
        /\ owed' = IF stat = "CONNECTED" THEN owed + s ELSE owed
        /\ stat' = IF downs + d > 0 THEN "DISCONNECTING" ELSE stat
        /\ EnableWriteIf(s > 0 \/ (downs + d > 0 /\ out' > 0))
        /\ tasks' = tasks \o Releases(releases + IF out' = 0 THEN downs + d ELSE 0)
  BY DEF MsgCb
<1> DEFINE n == releases + IF out' = 0 THEN downs + d ELSE 0
<1>2. n \in Nat /\ s \in Nat /\ out \in Nat /\ owed \in Nat /\ submitted \in Nat
  BY ConnectionAssumption, <1>1 DEF TypeOK
<1>3. Counts(avail) /\ out <= out' /\ (stat = "CONNECTED" \/ owed' = owed)
  BY ConnectionAssumption, <1>1, <1>2 DEF TypeOK, Counts
<1>4. /\ stat' = stat \/ stat' = "DISCONNECTING"
      /\ downs = 1 => stat' = "DISCONNECTING"
      /\ stat' # stat /\ out' = 0 => n > 0
      /\ releases = 1 => n > 0
      /\ n > 0 => releases = 1 \/ (stat' = "DISCONNECTING" /\ out' = 0)
  BY <1>1
<1>5. out < out' \/ (stat' # stat /\ out' > 0) => "OUT" \in events'
  BY <1>1, <1>2 DEF EnableWriteIf, UpdateEvent
<1>6. UpdatedTo(events \cup {"OUT"})
  BY <1>1 DEF EnableWriteIf, UpdateEvent, UpdatedTo
<1>7. MsgCbLeaves(n, avail, downs, releases)
  BY <1>1, <1>3, <1>4, <1>5, <1>6 DEF MsgCbLeaves
<1> QED BY <1>2, <1>7

\* The three outcomes of recv.
LEMMA HandleReadCases ==
    ASSUME TypeOK, HandleRead
    PROVE  \E n \in Nat :
              \/ recvq > 0 /\ recvq' = 0 /\ soerr' = soerr /\ MsgCbLeaves(n, in + recvq, 0, 0)
              \/ recvq = 0 /\ recvq' = 0 /\ soerr' = FALSE /\ MsgCbLeaves(n, in, 1, 0)
              \/ recvq = 0 /\ recvq' = 0 /\ ~soerr /\ soerr' = soerr /\ MsgCbLeaves(n, in, 0, 1)
<1>1. in \in Nat /\ in + recvq \in Nat /\ recvq \in Nat
  BY ConnectionAssumption DEF TypeOK
<1>2. CASE recvq > 0
  <2>1. MsgCb(in + recvq, 0, 0) /\ recvq' = 0 /\ soerr' = soerr
    BY <1>2 DEF HandleRead
  <2> QED BY <1>1, <1>2, <2>1, MsgCbEffect
<1>3. CASE recvq = 0 /\ soerr
  <2>1. MsgCb(in, 1, 0) /\ recvq' = 0 /\ soerr' = FALSE
    BY <1>3 DEF HandleRead, ShutDownInLoop
  <2> QED BY <1>1, <1>3, <2>1, MsgCbEffect
<1>4. CASE recvq = 0 /\ ~soerr
  <2>1. MsgCb(in, 0, 1) /\ recvq' = 0 /\ soerr' = soerr
    BY <1>4 DEF HandleRead, HandleClose
  <2>2. PICK n \in Nat : MsgCbLeaves(n, in, 0, 1)
    BY <1>1, <2>1, MsgCbEffect
  <2>3. recvq = 0 /\ recvq' = 0 /\ ~soerr /\ soerr' = soerr
    BY <1>4, <2>1
  <2> QED BY Zenon, <2>2, <2>3
<1>5. recvq > 0 \/ recvq = 0
  BY <1>1
<1> QED BY Zenon, <1>2, <1>3, <1>4, <1>5

\* What a HandleWrite that closes nothing leaves behind.
SendLeaves(n) ==
    /\ Counts(in) /\ out' <= out /\ owed' <= owed
    /\ tasks' = tasks \o Releases(n)
    /\ n > 0 <=> out' = 0 /\ stat = "DISCONNECTING"
    /\ UNCHANGED <<stat, soerr>>
    /\ writable' \in {writable, FALSE}
    /\ out' > 0 => UNCHANGED <<events, inMap, epoll>>
    /\ UpdatedTo(events \ {"OUT"})

\* The callbacks of the second half of Channel::HandleEvent.
LEMMA HandleRestCases ==
    ASSUME TypeOK, HandleRest
    PROVE  \E n \in Nat :
              \/ rst /\ writable' = writable /\ soerr' = FALSE /\ MsgCbLeaves(n, in, 0, 1)
              \/ SendLeaves(n)
              \/ /\ revents \cap {"ERR", "HUP"} # {}
                 /\ UNCHANGED <<writable, soerr>>
                 /\ MsgCbLeaves(n, in, 0, 1)
              \/ UNCHANGED <<stat, events, inMap, epoll, in, out, tasks, submitted,
                             owed, writable, soerr>>
<1>1. in \in Nat /\ out \in Nat /\ owed \in 0..out
  BY ConnectionAssumption DEF TypeOK
<1>2. CASE "OUT" \in revents /\ rst /\ out > 0
  <2>1. MsgCb(in, 0, 1) /\ soerr' = FALSE /\ writable' = writable
    BY <1>2 DEF HandleRest, HandleWrite, HandleClose
  <2> QED BY <1>1, <1>2, <2>1, MsgCbEffect
<1>3. CASE "OUT" \in revents /\ ~(rst /\ out > 0)
  <2>1. /\ \E n \in 0..out :
              /\ SendOut(n)
              /\ writable' \in IF n = out THEN {writable, FALSE} ELSE {FALSE}
        /\ UNCHANGED <<stat, in, submitted, soerr>>
    BY <1>3 DEF HandleRest, HandleWrite
  <2>2. PICK n \in 0..out : SendOut(n) /\ writable' \in {writable, FALSE}
    BY <2>1
  <2>3. Counts(in) /\ out' <= out /\ owed' <= owed
    <3>1. out' = out - n /\ owed' = (IF owed > n THEN owed - n ELSE 0)
      BY <2>2 DEF SendOut
    <3>2. in' = in /\ submitted' = submitted
      BY <2>1
    <3> QED BY ConnectionAssumption, <1>1, <3>1, <3>2 DEF Counts, TypeOK
  <2>4. LastRelease(out') \in Nat /\ (LastRelease(out') > 0 <=> out' = 0 /\ stat = "DISCONNECTING")
    BY DEF LastRelease
  <2>5. tasks' = tasks \o Releases(LastRelease(out'))
    BY <2>2 DEF SendOut
  <2>6. (out' > 0 => UNCHANGED <<events, inMap, epoll>>) /\ UpdatedTo(events \ {"OUT"})
    BY <2>2 DEF SendOut, DisableWrite, UpdateEvent, UpdatedTo
  <2>7. writable' \in {writable, FALSE}
    BY <2>2
  <2>8. SendLeaves(LastRelease(out'))
    BY <2>1, <2>3, <2>4, <2>5, <2>6, <2>7 DEF SendLeaves
  <2> QED BY <2>4, <2>8
<1>4. CASE "OUT" \notin revents /\ revents \cap {"ERR", "HUP"} # {}
  <2>1. MsgCb(in, 0, 1) /\ UNCHANGED <<writable, soerr>>
    BY <1>4 DEF HandleRest, HandleClose
  <2> QED BY <1>1, <1>4, <2>1, MsgCbEffect
<1>5. CASE "OUT" \notin revents /\ revents \cap {"ERR", "HUP"} = {}
  <2>1. UNCHANGED <<stat, events, inMap, epoll, in, out, tasks, submitted,
                    owed, writable, soerr>>
    BY <1>5 DEF HandleRest
  <2> QED BY <2>1
<1> QED BY <1>2, <1>3, <1>4, <1>5

\* A task is done with and its body has pushed n Releases.
LEMMA RunTaskEffect ==
    ASSUME TypeOK, NEW t, RunTask(t), NEW n \in Nat, tasks' = tasks \o Releases(n)
    PROVE  /\ tasks' \in Seq(Task) /\ local' \in Seq(Task)
           /\ n > 0 => Pending("Release")'
           /\ t # "Release" /\ Pending("Release") => Pending("Release")'
           /\ Pending("Release")' => Pending("Release") \/ n > 0
<1>1. /\ local \in Seq(Task) /\ tasks \in Seq(Task)
      /\ local # <<>> /\ t = Head(local) /\ local' = Tail(local)
  BY DEF RunTask, TypeOK
<1>2. /\ local' \in Seq(Task)
      /\ \A u : u \in Range(local) <=> u = t \/ u \in Range(local')
  BY <1>1, PopTask
<1>3. /\ tasks' \in Seq(Task)
      /\ \A u : u \in Range(tasks') <=> u \in Range(tasks) \/ (n > 0 /\ u = "Release")
  BY <1>1, PushReleases
<1>4. /\ Pending("Release") <=> "Release" \in Range(local) \/ "Release" \in Range(tasks)
      /\ Pending("Release")' <=> "Release" \in Range(local') \/ "Release" \in Range(tasks')
  BY <1>1, <1>2, <1>3, RangeConcat DEF Pending
<1> QED BY <1>2, <1>3, <1>4

\* The same without a push.
LEMMA RunTaskOnly ==
    ASSUME TypeOK, NEW t, RunTask(t), tasks' = tasks
    PROVE  /\ tasks' \in Seq(Task) /\ local' \in Seq(Task)
           /\ t # "Release" /\ Pending("Release") => Pending("Release")'
           /\ Pending("Release")' => Pending("Release")
<1>1. tasks \in Seq(Task) /\ Releases(0) = <<>>
  BY DEF TypeOK, Releases
<1>2. tasks' = tasks \o Releases(0)
  BY <1>1, ConcatEmptySeq
<1> QED BY <1>2, RunTaskEffect

\* A handler or another thread pushes n Releases.
LEMMA PushEffect ==
    ASSUME TypeOK, local' = local, NEW n \in Nat, tasks' = tasks \o Releases(n)
    PROVE  /\ tasks' \in Seq(Task)
           /\ Pending("Release")' <=> Pending("Release") \/ n > 0
<1>1. local \in Seq(Task) /\ tasks \in Seq(Task)
  BY DEF TypeOK
<1>2. /\ tasks' \in Seq(Task)
      /\ \A u : u \in Range(tasks') <=> u \in Range(tasks) \/ (n > 0 /\ u = "Release")
  BY <1>1, PushReleases
<1>3. /\ Pending("Release") <=> "Release" \in Range(local) \/ "Release" \in Range(tasks)
      /\ Pending("Release")' <=> "Release" \in Range(local) \/ "Release" \in Range(tasks')
  BY <1>1, <1>2, RangeConcat DEF Pending
<1> QED BY <1>2, <1>3

\* A handler or another thread pushes some task.
LEMMA PushTaskEffect ==
    ASSUME TypeOK, local' = local, NEW t \in Task, tasks' = Append(tasks, t)
    PROVE  /\ tasks' \in Seq(Task)
           /\ Pending("Release")' <=> Pending("Release") \/ t = "Release"
<1>1. local \in Seq(Task) /\ tasks \in Seq(Task)
  BY DEF TypeOK
<1>2. /\ tasks' \in Seq(Task)
      /\ \A u : u \in Range(tasks') <=> u \in Range(tasks) \/ u = t
  BY <1>1, PushTask
<1>3. /\ Pending("Release") <=> "Release" \in Range(local) \/ "Release" \in Range(tasks)
      /\ Pending("Release")' <=> "Release" \in Range(local) \/ "Release" \in Range(tasks')
  BY <1>1, <1>2, RangeConcat DEF Pending
<1> QED BY <1>2, <1>3

\* The batch is taken when the last one is done.
LEMMA SwapEffect ==
    ASSUME TypeOK, SwapTasks
    PROVE  /\ tasks' \in Seq(Task) /\ local' \in Seq(Task)
           /\ Pending("Release")' <=> Pending("Release")
<1>1. tasks \in Seq(Task) /\ local = <<>> /\ local' = tasks /\ tasks' = <<>>
  BY DEF TypeOK, SwapTasks
<1>2. local' \o tasks' = local \o tasks
  BY <1>1, ConcatEmptySeq
<1>3. Pending("Release")' <=> Pending("Release")
  BY <1>2 DEF Pending
<1> QED BY <1>1, <1>3

\* EstablishInLoop when its assertion holds.
EstablishLeaves(n) ==
    /\ stat' \in {"CONNECTED", "DISCONNECTING"}
    /\ Counts(in) /\ owed' = out'
    /\ out' > 0 => "OUT" \in events'
    /\ events' \subseteq {"IN", "OUT"}
    /\ inMap' = TRUE /\ epoll' = IF inMap THEN epoll ELSE open
    /\ tasks' = tasks \o Releases(n)
    /\ n > 0 <=> stat' = "DISCONNECTING" /\ out' = 0

\* The assertion fails, or the connection is established.
LEMMA EstablishCases ==
    ASSUME TypeOK, EstablishInLoop
    PROVE  \/ /\ pc' = "aborted" /\ stat # "CONNECTING"
              /\ UNCHANGED <<connVars, tasks, submitted, owed>>
           \/ /\ stat = "CONNECTING"
              /\ UNCHANGED <<pc, open, in, timerVars>>
              /\ \E n \in Nat : EstablishLeaves(n)
<1>1. CASE stat # "CONNECTING"
  BY <1>1 DEF EstablishInLoop
<1>2. CASE stat = "CONNECTING"
  <2>1. PICK s \in 0..MaxSend - submitted, down \in BOOLEAN :
          /\ stat' = IF down THEN "DISCONNECTING" ELSE "CONNECTED"
          /\ out' = s /\ submitted' = submitted + s /\ owed' = s
          /\ UpdateEvent({"IN"} \cup IF s > 0 THEN {"OUT"} ELSE {})
          /\ tasks' = tasks \o Releases(IF down /\ s = 0 THEN 1 ELSE 0)
    BY <1>2 DEF EstablishInLoop
  <2> DEFINE n == IF down /\ s = 0 THEN 1 ELSE 0
  <2>2. Counts(in)
    <3>1. out' = s /\ submitted' = submitted + s /\ owed' = s
      BY <2>1
    <3>2. in' = in
      BY <1>2 DEF EstablishInLoop
    <3> QED BY ConnectionAssumption, <3>1, <3>2 DEF Counts, TypeOK
  <2>3. n \in Nat /\ (n > 0 <=> stat' = "DISCONNECTING" /\ out' = 0)
    BY <2>1
  <2>4. /\ out' > 0 => "OUT" \in events'
        /\ events' \subseteq {"IN", "OUT"}
        /\ inMap' = TRUE /\ epoll' = IF inMap THEN epoll ELSE open
    BY <2>1 DEF UpdateEvent
  <2>5. EstablishLeaves(n)
    BY <2>1, <2>2, <2>3, <2>4 DEF EstablishLeaves
  <2>6. UNCHANGED <<pc, open, in, timerVars>>
    BY <1>2 DEF EstablishInLoop
  <2> QED BY <1>2, <2>3, <2>5, <2>6
<1> QED BY <1>1, <1>2

-----------------------------------------------------------------------------
\* A buffer that shrinks makes room.
LEMMA BytesFit ==
    ASSUME NEW old \in 0..MaxUnread, NEW unread \in 0..MaxUnread - old, NEW new \in 0..old
    PROVE  /\ unread \in 0..MaxUnread /\ new \in 0..MaxUnread /\ new + unread <= MaxUnread
BY ConnectionAssumption

\* A new connection has the types.
LEMMA InitTypeOK == Init => TypeOK
<1> SUFFICES ASSUME Init PROVE TypeOK
  OBVIOUS
<1>1. setup \in {"register", "establish", "done"}
  BY DEF Init
<1>2. <<>> \in Seq(Task)
  OBVIOUS
<1>3. 0 \in 0..MaxUnread /\ 0 \in 0..MaxSend /\ 0 \in 0..MaxAppTasks /\ 0 + 0 <= MaxUnread
  BY ConnectionAssumption
<1>4. FlagsOK
  BY Zenon DEF Init, FlagsOK
<1> QED BY <1>1, <1>2, <1>3, <1>4 DEF Init, TypeOK

\* Flags stay Booleans.
LEMMA NextFlagsOK ==
    ASSUME TypeOK, [Next]_vars
    PROVE  FlagsOK'
<1>1. FlagsOK
  BY DEF TypeOK
<1>2. CASE UNCHANGED <<inMap, epoll, open, fin, rst, soerr, writable, enabled, lapsed, timedOut>>
  BY Zenon, <1>1, <1>2 DEF FlagsOK
<1>3. CASE PeerCloses \/ PeerResets \/ PeerReads
  BY Zenon, <1>1, <1>3
  DEF PeerCloses, PeerResets, PeerReads, FlagsOK, connVars, timerVars, peerVars, histVars
<1>4. CASE HandleRead
  <2>1. /\ inMap' \in {inMap, TRUE} /\ epoll' \in {epoll, open}
        /\ soerr' \in {soerr, FALSE}
    BY <1>4, HandleReadCases DEF MsgCbLeaves, UpdatedTo
  <2> QED BY Zenon, <1>1, <1>4, <2>1 DEF HandleRead, FlagsOK, timerVars
<1>5. CASE HandleRest
  <2>1. /\ inMap' \in {inMap, TRUE} /\ epoll' \in {epoll, open}
        /\ soerr' \in {soerr, FALSE} /\ writable' \in {writable, FALSE}
    BY <1>5, HandleRestCases DEF MsgCbLeaves, SendLeaves, UpdatedTo
  <2> QED BY Zenon, <1>1, <1>5, <2>1 DEF HandleRest, FlagsOK, timerVars
<1>6. CASE Ontime
  BY Zenon, <1>1, <1>6 DEF Ontime, FlagsOK, peerVars
<1>7. CASE RegisterInactiveReleaseInLoop
  <2>1. (timer = "canceled") \in BOOLEAN
    OBVIOUS
  <2> QED
    BY Zenon, <1>1, <1>7, <2>1
    DEF RegisterInactiveReleaseInLoop, RunTask, FlagsOK, peerVars, histVars
<1>8. CASE CancelInactiveReleaseInLoop
  BY Zenon, <1>1, <1>8
  DEF CancelInactiveReleaseInLoop, CancelTimer, RunTask, FlagsOK, peerVars, histVars
<1>9. CASE EstablishInLoop
  <2>1. inMap' \in {inMap, TRUE} /\ epoll' \in {epoll, open}
    BY <1>9, EstablishCases DEF EstablishLeaves, connVars
  <2>2. UNCHANGED <<open, timerVars>>
    BY <1>9, EstablishCases DEF connVars
  <2> QED
    BY Zenon, <1>1, <1>9, <2>1, <2>2
    DEF EstablishInLoop, RunTask, FlagsOK, timerVars, peerVars
<1>10. CASE ReleaseInLoop
  BY Zenon, <1>1, <1>10
  DEF ReleaseInLoop, RemoveAndClose, CancelTimer, RunTask, FlagsOK, peerVars
<1>11. CASE SendInLoop
  <2>1. inMap' \in {inMap, TRUE} /\ epoll' \in {epoll, open}
    BY <1>11 DEF SendInLoop, EnableWriteIf, UpdateEvent
  <2> QED
    BY Zenon, <1>1, <1>11, <2>1 DEF SendInLoop, RunTask, FlagsOK, timerVars, peerVars
<1>12. CASE ShutDownTask
  <2>1. inMap' \in {inMap, TRUE} /\ epoll' \in {epoll, open}
    BY <1>12, MsgCbEffect
    DEF ShutDownTask, ShutDownInLoop, MsgCb, EnableWriteIf, UpdateEvent
  <2> QED
    BY Zenon, <1>1, <1>12, <2>1
    DEF ShutDownTask, RunTask, FlagsOK, timerVars, peerVars
<1>13. ASSUME \/ NewConnection \/ \E t \in AppTasks : AppCall(t)
              \/ PeerSends \/ Poll \/ HandleEvent \/ SwapTasks \/ EndOfBatch
              \/ UNCHANGED vars
       PROVE UNCHANGED <<inMap, epoll, open, fin, rst, soerr, writable, enabled, lapsed, timedOut>>
  BY <1>13
  DEF NewConnection, AppCall, PeerSends, Poll, HandleEvent, SwapTasks, EndOfBatch,
      vars, connVars, timerVars, loopVars, peerVars, histVars
<1> QED
  BY <1>2, <1>3, <1>4, <1>5, <1>6, <1>7, <1>8, <1>9, <1>10, <1>11, <1>12, <1>13
  DEF Next, Start

\* The types are kept by every handler, task and submission.
LEMMA NextTypeOK ==
    ASSUME TypeOK, [Next]_vars
    PROVE  TypeOK'
<1> USE ConnectionAssumption
<1>0. FlagsOK'
  BY NextFlagsOK
<1>1. CASE NewConnection
  <2>1. PICK t \in {"Register", "Established"} : tasks' = Append(tasks, t)
    BY <1>1 DEF NewConnection
  <2>2. tasks' \in Seq(Task)
    BY <1>1, <2>1, PushTaskEffect DEF NewConnection, loopVars, Task
  <2> QED
    BY <1>0, <1>1, <2>2
    DEF NewConnection, TypeOK, connVars, timerVars, peerVars, histVars
<1>2. ASSUME NEW t \in AppTasks, AppCall(t) PROVE TypeOK'
  <2>1. tasks' \in Seq(Task)
    BY <1>2, PushTaskEffect DEF AppCall, Task
  <2> QED
    BY <1>0, <1>2, <2>1 DEF AppCall, TypeOK, connVars, timerVars, peerVars, histVars
<1>3. CASE PeerSends
  BY <1>0, <1>3 DEF PeerSends, TypeOK, connVars, timerVars, loopVars, histVars
<1>4. CASE PeerCloses
  BY <1>0, <1>4 DEF PeerCloses, TypeOK, connVars, timerVars, loopVars, histVars
<1>5. CASE PeerResets
  BY <1>0, <1>5 DEF PeerResets, TypeOK, connVars, timerVars, loopVars, histVars
<1>6. CASE PeerReads
  BY <1>0, <1>6 DEF PeerReads, TypeOK, connVars, timerVars, loopVars, peerVars, histVars
<1>7. CASE Poll
  <2>1. actives' \subseteq {"conn", "timer"} /\ revents' \subseteq {"IN", "OUT", "ERR", "HUP"}
    BY <1>0, <1>7 DEF Poll, Reported, TypeOK
  <2> QED
    BY <1>0, <1>7, <2>1 DEF Poll, TypeOK, connVars, timerVars, peerVars, histVars
<1>8. CASE HandleEvent
  BY <1>0, <1>8 DEF HandleEvent, TypeOK, connVars, timerVars, peerVars, histVars
<1>9. CASE HandleRead
  <2>1. PICK n \in Nat, avail \in 0..MaxUnread, downs \in {0, 1}, releases \in {0, 1} :
          /\ recvq' = 0 /\ soerr' \in {soerr, FALSE}
          /\ MsgCbLeaves(n, avail, downs, releases)
    <3>1. PICK n \in Nat :
            \/ recvq' = 0 /\ soerr' \in {soerr, FALSE} /\ MsgCbLeaves(n, in + recvq, 0, 0)
            \/ recvq' = 0 /\ soerr' \in {soerr, FALSE} /\ MsgCbLeaves(n, in, 1, 0)
            \/ recvq' = 0 /\ soerr' \in {soerr, FALSE} /\ MsgCbLeaves(n, in, 0, 1)
      BY Zenon, <1>9, HandleReadCases
    <3>2. in \in 0..MaxUnread /\ in + recvq \in 0..MaxUnread
      BY DEF TypeOK
    <3>3. 0 \in {0, 1} /\ 1 \in {0, 1}
      OBVIOUS
    <3> QED BY Zenon, <3>1, <3>2, <3>3
  <2>2. tasks' \in Seq(Task)
    BY <1>9, <2>1, PushEffect DEF HandleRead, MsgCbLeaves
  <2>3. Counts(avail)
    BY <2>1 DEF MsgCbLeaves
  <2>4. recvq' \in 0..MaxUnread /\ in' \in 0..MaxUnread /\ in' + recvq' <= MaxUnread
    <3>1. recvq' = 0 /\ in' \in 0..avail
      BY <2>1, <2>3 DEF Counts
    <3>2. 0 \in 0..MaxUnread - avail
      OBVIOUS
    <3> QED BY <3>1, <3>2, BytesFit
  <2>5. events' \subseteq {"IN", "OUT"} /\ stat' \in {stat, "DISCONNECTING"}
    BY <2>1 DEF MsgCbLeaves, UpdatedTo, TypeOK
  <2> QED
    BY <1>0, <1>9, <2>2, <2>3, <2>4, <2>5 DEF HandleRead, Counts, TypeOK, timerVars
<1>10. CASE HandleRest
  <2>1. tasks' \in Seq(Task)
    BY <1>0, <1>10, HandleRestCases, PushEffect DEF HandleRest, MsgCbLeaves, SendLeaves, TypeOK
  <2>2. ASSUME UNCHANGED <<in, out, submitted, owed>> PROVE Counts(in)
    BY <2>2 DEF Counts, TypeOK
  <2>3. Counts(in)
    BY <1>10, <2>2, HandleRestCases DEF MsgCbLeaves, SendLeaves
  <2>4. events' \subseteq {"IN", "OUT"} /\ stat' \in {stat, "DISCONNECTING"}
    BY <1>10, HandleRestCases DEF MsgCbLeaves, SendLeaves, UpdatedTo, TypeOK
  <2> QED
    BY <1>0, <1>10, <2>1, <2>3, <2>4 DEF HandleRest, Counts, TypeOK, timerVars
<1>11. CASE Ontime
  <2>1. tasks' \in Seq(Task)
    BY <1>0, <1>11, PushTaskEffect DEF Ontime, Task, TypeOK
  <2> QED
    BY <1>0, <1>11, <2>1 DEF Ontime, TypeOK, peerVars
<1>12. CASE SwapTasks
  BY <1>0, <1>12, SwapEffect DEF SwapTasks, TypeOK, connVars, timerVars, peerVars, histVars
<1>13. CASE EndOfBatch
  BY <1>0, <1>13 DEF EndOfBatch, BatchDone, TypeOK, connVars, timerVars, peerVars, histVars
<1>14. CASE RegisterInactiveReleaseInLoop
  BY <1>0, <1>14, RunTaskOnly
  DEF RegisterInactiveReleaseInLoop, RunTask, TypeOK, peerVars, histVars
<1>15. CASE CancelInactiveReleaseInLoop
  BY <1>0, <1>15, RunTaskOnly
  DEF CancelInactiveReleaseInLoop, CancelTimer, RunTask, TypeOK, peerVars, histVars
<1>16. CASE EstablishInLoop
  <2>1. tasks' \in Seq(Task) /\ local' \in Seq(Task)
    BY <1>16, EstablishCases, RunTaskOnly, RunTaskEffect DEF EstablishInLoop, EstablishLeaves
  <2>2. ASSUME UNCHANGED <<in, out, submitted, owed>> PROVE Counts(in)
    BY <2>2 DEF Counts, TypeOK
  <2>3. Counts(in)
    BY <1>16, <2>2, EstablishCases DEF EstablishLeaves, connVars
  <2>4. events' \subseteq {"IN", "OUT"} /\ stat' \in {stat, "CONNECTED", "DISCONNECTING"}
    BY <1>16, EstablishCases DEF EstablishLeaves, TypeOK, connVars
  <2>5. UNCHANGED <<in, timer>> /\ pc' \in {pc, "aborted"}
    BY <1>16, EstablishCases DEF connVars, timerVars
  <2> QED
    BY <1>0, <1>16, <2>1, <2>3, <2>4, <2>5
    DEF EstablishInLoop, RunTask, Counts, TypeOK, peerVars
<1>17. CASE ReleaseInLoop
  BY <1>0, <1>17, RunTaskOnly
  DEF ReleaseInLoop, RemoveAndClose, CancelTimer, RunTask, TypeOK, peerVars
<1>18. CASE SendInLoop
  <2>1. tasks' \in Seq(Task) /\ local' \in Seq(Task)
    BY <1>18, RunTaskOnly DEF SendInLoop
  <2>2. Counts(in)
    <3>1. in' = in
      BY <1>18 DEF SendInLoop
    <3>2. \/ UNCHANGED <<out, submitted, owed>>
          \/ /\ submitted # MaxSend
             /\ out' = out + 1 /\ submitted' = submitted + 1 /\ owed' \in {owed, owed + 1}
      BY <1>18 DEF SendInLoop
    <3> QED BY <3>1, <3>2 DEF Counts, TypeOK
  <2>3. events' \subseteq {"IN", "OUT"}
    BY <1>18 DEF SendInLoop, EnableWriteIf, UpdateEvent, TypeOK
  <2> QED
    BY <1>0, <1>18, <2>1, <2>2, <2>3
    DEF SendInLoop, RunTask, Counts, TypeOK, timerVars, peerVars
<1>19. CASE ShutDownTask
  <2>1. PICK n \in Nat : MsgCbLeaves(n, in, 1, 0)
    BY <1>0, <1>19, MsgCbEffect DEF ShutDownTask, ShutDownInLoop, TypeOK
  <2>2. tasks' \in Seq(Task) /\ local' \in Seq(Task)
    BY <1>19, <2>1, RunTaskEffect DEF ShutDownTask, MsgCbLeaves
  <2>3. Counts(in)
    BY <2>1 DEF MsgCbLeaves
  <2>4. events' \subseteq {"IN", "OUT"} /\ stat' \in {stat, "DISCONNECTING"}
    BY <2>1 DEF MsgCbLeaves, UpdatedTo, TypeOK
  <2>5. in' \in 0..MaxUnread /\ recvq' \in 0..MaxUnread /\ in' + recvq' <= MaxUnread
    <3>1. recvq' = recvq /\ in' \in 0..in
      BY <1>19, <2>3 DEF ShutDownTask, RunTask, peerVars, Counts
    <3>2. in \in 0..MaxUnread /\ recvq \in 0..MaxUnread - in
      BY DEF TypeOK
    <3> QED BY <3>1, <3>2, BytesFit
  <2> QED
    BY <1>0, <1>19, <2>2, <2>3, <2>4, <2>5
    DEF ShutDownTask, RunTask, Counts, TypeOK, timerVars, peerVars
<1>20. CASE UNCHANGED vars
  BY <1>0, <1>20 DEF TypeOK, vars, connVars, timerVars, loopVars, peerVars, histVars
<1> QED
  BY <1>0, <1>1, <1>2, <1>3, <1>4, <1>5, <1>6, <1>7, <1>8, <1>9, <1>10, <1>11, <1>12, <1>13,
     <1>14, <1>15, <1>16, <1>17, <1>18, <1>19, <1>20
  DEF Next, Start

\* Counters, buffers, flags and queues keep their types; output that is owed
\* is output that is there.
THEOREM TypeInvariant == Spec => []TypeOK
BY InitTypeOK, NextTypeOK, PTL DEF Spec

-----------------------------------------------------------------------------
(***************************************************************************)
(* OutputWatched. A step that leaves output on a watched socket either     *)
(* subscribed to EPOLLOUT or changed neither the subscription nor, except  *)
(* by sending some of it, the output.                                      *)
(***************************************************************************)
OutputStep ==
    \/ out' = 0
    \/ "OUT" \in events'
    \/ epoll' = FALSE
    \/ UNCHANGED <<events, epoll>> /\ (out > 0 \/ out' = out)

\* Of the callbacks, only by Send does output grow, and Send subscribes.
LEMMA MsgCbOutput ==
    ASSUME TypeOK, NEW n \in Nat, NEW avail, NEW downs, NEW releases,
           MsgCbLeaves(n, avail, downs, releases)
    PROVE  OutputStep
<1>1. out \in Nat /\ out' \in Nat /\ out <= out'
  BY DEF MsgCbLeaves, Counts, TypeOK
<1>2. CASE out < out'
  BY <1>2 DEF MsgCbLeaves, OutputStep
<1>3. CASE out = out'
  BY <1>3 DEF MsgCbLeaves, UpdatedTo, OutputStep
<1> QED BY <1>1, <1>2, <1>3

\* Every step is such a step.
LEMMA NextOutput ==
    ASSUME TypeOK, [Next]_vars
    PROVE  OutputStep
<1>1. CASE HandleRead
  BY <1>1, HandleReadCases, MsgCbOutput
<1>2. CASE HandleRest
  <2>1. ASSUME NEW n \in Nat, SendLeaves(n) PROVE OutputStep
    <3>1. out \in Nat /\ out' \in Nat /\ out' <= out
      BY <2>1 DEF SendLeaves, Counts, TypeOK
    <3>2. CASE out' > 0
      <4>1. UNCHANGED <<events, epoll>>
        BY <2>1, <3>2 DEF SendLeaves
      <4>2. out > 0
        BY <3>1, <3>2
      <4> QED BY <4>1, <4>2 DEF OutputStep
    <3>3. CASE out' = 0
      BY <3>3 DEF OutputStep
    <3> QED BY <3>1, <3>2, <3>3
  <2>2. ASSUME UNCHANGED <<events, epoll, out>> PROVE OutputStep
    BY <2>2 DEF OutputStep
  <2> QED BY <1>2, <2>1, <2>2, HandleRestCases, MsgCbOutput
<1>3. CASE EstablishInLoop
  <2>1. ASSUME NEW n \in Nat, EstablishLeaves(n) PROVE OutputStep
    BY <2>1 DEF EstablishLeaves, Counts, OutputStep
  <2>2. ASSUME UNCHANGED connVars PROVE OutputStep
    BY <2>2 DEF OutputStep, connVars
  <2> QED BY <1>3, <2>1, <2>2, EstablishCases
<1>4. CASE ReleaseInLoop
  BY <1>4 DEF ReleaseInLoop, RemoveAndClose, OutputStep
<1>5. CASE SendInLoop
  BY <1>5 DEF SendInLoop, EnableWriteIf, UpdateEvent, OutputStep
<1>6. CASE ShutDownTask
  <2>1. PICK n \in Nat : MsgCbLeaves(n, in, 1, 0)
    BY <1>6, MsgCbEffect DEF ShutDownTask, ShutDownInLoop, TypeOK
  <2> QED BY <2>1, MsgCbOutput
<1>7. ASSUME \/ NewConnection \/ \E t \in AppTasks : AppCall(t)
             \/ PeerSends \/ PeerCloses \/ PeerResets \/ PeerReads
             \/ Poll \/ HandleEvent \/ Ontime \/ SwapTasks \/ EndOfBatch
             \/ RegisterInactiveReleaseInLoop \/ CancelInactiveReleaseInLoop
             \/ UNCHANGED vars
      PROVE UNCHANGED <<events, epoll, out>>
  BY <1>7
  DEF NewConnection, AppCall, PeerSends, PeerCloses, PeerResets, PeerReads, Poll,
      HandleEvent, Ontime, SwapTasks, EndOfBatch, RegisterInactiveReleaseInLoop,
      CancelInactiveReleaseInLoop, vars, connVars
<1>8. ASSUME UNCHANGED <<events, epoll, out>> PROVE OutputStep
  BY <1>8 DEF OutputStep
<1> QED
  BY <1>1, <1>2, <1>3, <1>4, <1>5, <1>6, <1>7, <1>8 DEF Next, Start

\* While the socket is watched, output waits only for EPOLLOUT.
THEOREM OutputAlwaysWatched == Spec => []OutputWatched
<1>1. Init => OutputWatched
  BY DEF Init, OutputWatched
<1>2. TypeOK /\ OutputWatched /\ [Next]_vars => OutputWatched'
  <2> SUFFICES ASSUME TypeOK, OutputWatched, [Next]_vars, epoll', out' > 0
               PROVE  "OUT" \in events'
    BY DEF OutputWatched
  <2>1. CASE UNCHANGED <<events, epoll>> /\ (out > 0 \/ out' = out)
    <3>1. out > 0
      BY <2>1
    <3> QED BY <2>1, <3>1 DEF OutputWatched
  <2>2. out' # 0
    BY NextTypeOK DEF TypeOK
  <2>3. epoll' # FALSE
    BY Zenon
  <2> QED BY <2>1, <2>2, <2>3, NextOutput DEF OutputStep
<1> QED BY <1>1, <1>2, TypeInvariant, PTL DEF Spec

-----------------------------------------------------------------------------
(***************************************************************************)
(* EnabledIsTimed is inductive: the task of the timer going off is the     *)
(* Release it queues, and only running that one takes it away again.       *)
(***************************************************************************)
\* Steps that touch neither the timer nor the socket only add tasks.
LEMMA TimerUntouched ==
    ASSUME EnabledIsTimed, UNCHANGED <<timer, enabled, lapsed, open>>,
           Pending("Release") => Pending("Release")'
    PROVE  EnabledIsTimed'
BY Zenon DEF EnabledIsTimed

\* By the handlers and tasks that do touch the timer.
LEMMA NextEnabledIsTimed ==
    ASSUME TypeOK, EnabledIsTimed, [Next]_vars
    PROVE  EnabledIsTimed'
<1>1. CASE NewConnection
  <2>1. PICK t \in Task : tasks' = Append(tasks, t)
    BY <1>1 DEF NewConnection, Task
  <2> QED
    BY <1>1, <2>1, PushTaskEffect, TimerUntouched
    DEF NewConnection, connVars, timerVars
<1>2. ASSUME NEW t \in AppTasks, AppCall(t) PROVE EnabledIsTimed'
  BY <1>2, PushTaskEffect, TimerUntouched DEF AppCall, connVars, timerVars, Task
<1>3. CASE HandleRead
  <2>1. PICK n \in Nat : tasks' = tasks \o Releases(n)
    BY <1>3, HandleReadCases DEF MsgCbLeaves
  <2> QED BY <1>3, <2>1, PushEffect, TimerUntouched DEF HandleRead, timerVars
<1>4. CASE HandleRest
  <2>1. \/ tasks' = tasks
        \/ \E n \in Nat : tasks' = tasks \o Releases(n)
    BY <1>4, HandleRestCases DEF MsgCbLeaves, SendLeaves
  <2>2. UNCHANGED <<timer, enabled, lapsed, open, local>>
    BY <1>4 DEF HandleRest, timerVars
  <2>3. Pending("Release") => Pending("Release")'
    BY <2>1, <2>2, PushEffect DEF Pending
  <2> QED BY <2>2, <2>3, TimerUntouched
<1>5. CASE Ontime
  <2>1. CASE UNCHANGED <<timer, tasks>>
    BY <1>5, <2>1, TimerUntouched DEF Ontime, Pending
  <2>2. CASE timer' = "none" /\ tasks' = Append(tasks, "Release")
    <3>1. Pending("Release")'
      BY <1>5, <2>2, PushTaskEffect DEF Ontime, Task
    <3> QED BY <2>2, <3>1 DEF EnabledIsTimed
  <2>3. CASE timer = "canceled" /\ timer' = "none" /\ tasks' = tasks
    <3>1. UNCHANGED <<enabled, lapsed, open, local>>
      BY <1>5 DEF Ontime
    <3> QED BY <2>3, <3>1 DEF EnabledIsTimed, Pending
  <2> QED BY <1>5, <2>1, <2>2, <2>3 DEF Ontime
<1>6. CASE SwapTasks
  BY <1>6, SwapEffect, TimerUntouched DEF SwapTasks, connVars, timerVars
<1>7. CASE RegisterInactiveReleaseInLoop
  <2>1. timer' \in {"armed", "canceled"} /\ (timer' = "canceled" => lapsed') /\ enabled'
    BY <1>7 DEF RegisterInactiveReleaseInLoop, TypeOK
  <2> QED BY <2>1 DEF EnabledIsTimed
<1>8. CASE CancelInactiveReleaseInLoop
  <2>1. timer' # "armed" /\ ~enabled'
    BY <1>8 DEF CancelInactiveReleaseInLoop, CancelTimer
  <2> QED BY <2>1 DEF EnabledIsTimed
<1>9. CASE EstablishInLoop
  <2>1. \/ tasks' = tasks
        \/ \E n \in Nat : tasks' = tasks \o Releases(n)
    BY <1>9, EstablishCases DEF EstablishLeaves
  <2>2. UNCHANGED <<timer, enabled, lapsed, open>>
    BY <1>9, EstablishCases DEF connVars, timerVars
  <2>3. Pending("Release") => Pending("Release")'
    BY <1>9, <2>1, RunTaskOnly, RunTaskEffect DEF EstablishInLoop
  <2> QED BY <2>2, <2>3, TimerUntouched
<1>10. CASE ReleaseInLoop
  <2>1. open' = FALSE /\ timer' # "armed"
    BY <1>10 DEF ReleaseInLoop, RemoveAndClose, CancelTimer
  <2> QED BY Zenon, <2>1 DEF EnabledIsTimed
<1>11. CASE SendInLoop
  BY <1>11, RunTaskOnly, TimerUntouched DEF SendInLoop, timerVars
<1>12. CASE ShutDownTask
  <2>1. PICK n \in Nat : MsgCbLeaves(n, in, 1, 0)
    BY <1>12, MsgCbEffect DEF ShutDownTask, ShutDownInLoop, TypeOK
  <2>2. Pending("Release") => Pending("Release")'
    BY <1>12, <2>1, RunTaskEffect DEF ShutDownTask, MsgCbLeaves
  <2> QED BY <1>12, <2>2, TimerUntouched DEF ShutDownTask, timerVars
<1>13. ASSUME \/ PeerSends \/ PeerCloses \/ PeerResets \/ PeerReads
              \/ Poll \/ HandleEvent \/ EndOfBatch \/ UNCHANGED vars
       PROVE  UNCHANGED <<timer, enabled, lapsed, open, tasks, local>>
  BY <1>13
  DEF PeerSends, PeerCloses, PeerResets, PeerReads, Poll, HandleEvent, EndOfBatch,
      vars, connVars, timerVars, loopVars
<1>14. ASSUME UNCHANGED <<timer, enabled, lapsed, open, tasks, local>>
       PROVE  EnabledIsTimed'
  BY <1>14, TimerUntouched DEF Pending
<1> QED
  BY <1>1, <1>2, <1>3, <1>4, <1>5, <1>6, <1>7, <1>8, <1>9, <1>10, <1>11, <1>12, <1>13, <1>14
  DEF Next, Start

\* A live timer belongs to an enabled inactive release, and while the socket is
\* open an enabled one has a live timer or the Release it queued, unless its
\* registration met a cancelled timer task that was still in its slot (lapsed):
\* that case is left open here and closed below when nobody cancels.
THEOREM EnabledIsAlwaysTimed == Spec => []EnabledIsTimed
<1>1. Init => EnabledIsTimed
  BY DEF Init, EnabledIsTimed
<1>2. TypeOK /\ EnabledIsTimed /\ [Next]_vars => EnabledIsTimed'
  BY NextEnabledIsTimed
<1> QED BY <1>1, <1>2, TypeInvariant, PTL DEF Spec

-----------------------------------------------------------------------------
(***************************************************************************)
(* The excuse of EnabledIsTimed needs a call of CancelInactiveRelease: by  *)
(* itself a loop cancels a timer only when it closes the socket.           *)
(***************************************************************************)
NothingLapsed == open => timer # "canceled" /\ ~lapsed

NextNothingLapsed ==
    open' =>
        /\ open
        /\ timer # "canceled" /\ ~lapsed => timer' # "canceled" /\ ~lapsed'

\* Only ReleaseInLoop, which closes the socket, and CancelInactiveReleaseInLoop
\* mark a timer task as cancelled.
LEMMA NextTimer ==
    ASSUME TypeOK, [Next]_vars, "Cancel" \notin AppTasks
    PROVE  NextNothingLapsed
<1>1. CASE HandleRead
  BY <1>1 DEF HandleRead, timerVars, NextNothingLapsed
<1>2. CASE HandleRest
  BY <1>2 DEF HandleRest, timerVars, NextNothingLapsed
<1>3. CASE Ontime
  BY <1>3 DEF Ontime, NextNothingLapsed
<1>4. CASE RegisterInactiveReleaseInLoop
  BY <1>4 DEF RegisterInactiveReleaseInLoop, NextNothingLapsed
<1>5. CASE CancelInactiveReleaseInLoop
  <2>1. local \in Seq(Task) /\ local # <<>> /\ Head(local) = "Cancel"
    BY <1>5 DEF CancelInactiveReleaseInLoop, RunTask, TypeOK
  <2>2. Head(local) \in Task
    BY <2>1
  <2> QED BY <2>1, <2>2 DEF Task
<1>6. CASE EstablishInLoop
  BY <1>6, EstablishCases DEF connVars, timerVars, NextNothingLapsed
<1>7. CASE ReleaseInLoop
  <2>1. open' = FALSE
    BY <1>7 DEF ReleaseInLoop, RemoveAndClose
  <2> QED BY Zenon, <2>1 DEF NextNothingLapsed
<1>8. CASE SendInLoop \/ ShutDownTask
  BY <1>8 DEF SendInLoop, ShutDownTask, timerVars, NextNothingLapsed
<1>9. CASE \/ NewConnection \/ \E t \in AppTasks : AppCall(t)
           \/ PeerSends \/ PeerCloses \/ PeerResets \/ PeerReads
           \/ Poll \/ HandleEvent \/ SwapTasks \/ EndOfBatch \/ UNCHANGED vars
  <2>1. UNCHANGED <<timer, lapsed, open>>
    BY <1>9
    DEF NewConnection, AppCall, PeerSends, PeerCloses, PeerResets, PeerReads, Poll,
        HandleEvent, SwapTasks, EndOfBatch, vars, connVars, timerVars
  <2> QED BY <2>1 DEF NextNothingLapsed
<1> QED
  BY <1>1, <1>2, <1>3, <1>4, <1>5, <1>6, <1>7, <1>8, <1>9 DEF Next, Start

\* EnabledIsTimed without its excuse.
NeverUntimed == enabled /\ open => timer = "armed" \/ Pending("Release")

\* When nobody calls CancelInactiveRelease, an open connection whose inactive
\* release is enabled always has a live timer, or its Release is queued.
THEOREM UncancelledIsAlwaysTimed ==
    ASSUME "Cancel" \notin AppTasks
    PROVE  Spec => []NeverUntimed
<1>1. Init => NothingLapsed
  BY DEF Init, NothingLapsed
<1>2. TypeOK /\ NothingLapsed /\ [Next]_vars => NothingLapsed'
  <2> SUFFICES ASSUME TypeOK, NothingLapsed, [Next]_vars PROVE NothingLapsed'
    OBVIOUS
  <2> QED BY Zenon, NextTimer DEF NothingLapsed, NextNothingLapsed
<1>3. EnabledIsTimed /\ NothingLapsed => NeverUntimed
  BY Zenon DEF EnabledIsTimed, NothingLapsed, NeverUntimed
<1> QED BY <1>1, <1>2, <1>3, EnabledIsAlwaysTimed, TypeInvariant, PTL DEF Spec

-----------------------------------------------------------------------------
(***************************************************************************)
(* The socket and the status. Until the first Release the socket is open   *)
(* and watched as soon as the channel was updated, afterwards it is closed *)
(* and nothing watches it again; no handler of a released connection runs. *)
(***************************************************************************)
WatchOK ==
    /\ closed = 0 => open /\ (inMap <=> epoll) /\ ("OUT" \in events => epoll)
    /\ closed # 0 => ~open /\ ~epoll

ReleasedOK ==
    /\ closed # 0 => stat \notin {"CONNECTING", "CONNECTED"}
    /\ stat = "DISCONNECTED" => closed # 0
    /\ pc \in {"read", "write"} \/ "conn" \in actives => closed = 0

SocketOK == WatchOK /\ ReleasedOK

\* A step other than ReleaseInLoop updates the channel at most.
LEMMA NextChannel ==
    ASSUME TypeOK, [Next]_vars, ~ReleaseInLoop
    PROVE  UNCHANGED <<open, closed>> /\ \E evs : UpdatedTo(evs)
<1>1. CASE HandleRead
  BY <1>1, HandleReadCases DEF HandleRead, MsgCbLeaves
<1>2. CASE HandleRest
  <2>1. ASSUME UNCHANGED <<events, inMap, epoll>> PROVE UpdatedTo({})
    BY <2>1 DEF UpdatedTo
  <2> QED BY <1>2, <2>1, HandleRestCases DEF HandleRest, MsgCbLeaves, SendLeaves
<1>3. CASE EstablishInLoop
  <2>1. ASSUME UNCHANGED <<events, inMap, epoll>> PROVE UpdatedTo({})
    BY <2>1 DEF UpdatedTo
  <2>2. UNCHANGED <<open, closed>>
    BY <1>3, EstablishCases DEF EstablishInLoop, connVars
  <2>3. ASSUME NEW n \in Nat, EstablishLeaves(n) PROVE UpdatedTo(events')
    BY <2>3 DEF EstablishLeaves, UpdatedTo
  <2> QED BY <1>3, <2>1, <2>2, <2>3, EstablishCases DEF connVars
<1>4. CASE SendInLoop
  BY <1>4 DEF SendInLoop, EnableWriteIf, UpdateEvent, UpdatedTo
<1>5. CASE ShutDownTask
  <2>1. PICK n \in Nat : MsgCbLeaves(n, in, 1, 0)
    BY <1>5, MsgCbEffect DEF ShutDownTask, ShutDownInLoop, TypeOK
  <2> QED BY <1>5, <2>1 DEF ShutDownTask, MsgCbLeaves
<1>6. ASSUME \/ NewConnection \/ \E t \in AppTasks : AppCall(t)
             \/ PeerSends \/ PeerCloses \/ PeerResets \/ PeerReads
             \/ Poll \/ HandleEvent \/ Ontime \/ SwapTasks \/ EndOfBatch
             \/ RegisterInactiveReleaseInLoop \/ CancelInactiveReleaseInLoop
             \/ UNCHANGED vars
      PROVE UNCHANGED <<events, inMap, epoll, open, closed>>
  BY <1>6
  DEF NewConnection, AppCall, PeerSends, PeerCloses, PeerResets, PeerReads, Poll,
      HandleEvent, Ontime, SwapTasks, EndOfBatch, RegisterInactiveReleaseInLoop,
      CancelInactiveReleaseInLoop, vars, connVars, histVars
<1>7. ASSUME UNCHANGED <<events, inMap, epoll, open, closed>>
      PROVE  UNCHANGED <<open, closed>> /\ \E evs : UpdatedTo(evs)
  BY <1>7 DEF UpdatedTo
<1> QED
  BY <1>1, <1>2, <1>3, <1>4, <1>5, <1>6, <1>7 DEF Next, Start

\* ReleaseInLoop leaves a closed socket that nothing watches.
LEMMA ReleaseCloses ==
    ASSUME TypeOK, ReleaseInLoop
    PROVE  /\ closed' # 0 /\ open' = FALSE /\ epoll' = FALSE
           /\ stat' = "DISCONNECTED" /\ pc' = "run" /\ actives' = {}
<1>1. pc = "run" /\ actives = {}
  BY DEF ReleaseInLoop, RunTask, TypeOK
<1> QED
  BY <1>1 DEF ReleaseInLoop, RunTask, RemoveAndClose

\* EPOLL_CTL_ADD fails on a closed descriptor, EPOLL_CTL_MOD on one removed.
LEMMA NextWatchOK ==
    ASSUME TypeOK, WatchOK, [Next]_vars
    PROVE  WatchOK'
<1>1. CASE ReleaseInLoop
  BY Zenon, <1>1, ReleaseCloses DEF WatchOK
<1>2. CASE ~ReleaseInLoop
  <2>1. PICK evs : UNCHANGED <<open, closed>> /\ UpdatedTo(evs)
    BY <1>2, NextChannel
  <2>2. CASE UNCHANGED <<events, inMap, epoll>>
    BY Zenon, <2>1, <2>2 DEF WatchOK
  <2>3. CASE inMap' = TRUE /\ epoll' = IF inMap THEN epoll ELSE open
    BY Zenon, <2>1, <2>3 DEF WatchOK
  <2> QED BY <2>1, <2>2, <2>3 DEF UpdatedTo
<1> QED BY <1>1, <1>2

\* Who changes _stat, and to what.
LEMMA NextStat ==
    ASSUME TypeOK, [Next]_vars
    PROVE  \/ stat' = stat
           \/ pc \in {"read", "write"} /\ stat' = "DISCONNECTING"
           \/ stat = "CONNECTING" /\ stat' \in {"CONNECTED", "DISCONNECTING"}
           \/ ReleaseInLoop /\ stat' = "DISCONNECTED"
           \/ pc = "run" /\ Head(local) = "ShutDown" /\ stat' = "DISCONNECTING"
<1>1. CASE HandleRead
  BY <1>1, HandleReadCases DEF HandleRead, MsgCbLeaves
<1>2. CASE HandleRest
  BY <1>2, HandleRestCases DEF HandleRest, MsgCbLeaves, SendLeaves
<1>3. CASE EstablishInLoop
  BY <1>3, EstablishCases DEF EstablishLeaves, connVars
<1>4. CASE ReleaseInLoop
  BY <1>4, ReleaseCloses
<1>5. CASE ShutDownTask
  <2>1. PICK n \in Nat : MsgCbLeaves(n, in, 1, 0)
    BY <1>5, MsgCbEffect DEF ShutDownTask, ShutDownInLoop, TypeOK
  <2> QED BY <1>5, <2>1 DEF ShutDownTask, RunTask, MsgCbLeaves
<1>6. ASSUME \/ NewConnection \/ \E t \in AppTasks : AppCall(t)
             \/ PeerSends \/ PeerCloses \/ PeerResets \/ PeerReads
             \/ Poll \/ HandleEvent \/ Ontime \/ SwapTasks \/ EndOfBatch
             \/ RegisterInactiveReleaseInLoop \/ CancelInactiveReleaseInLoop
             \/ SendInLoop \/ UNCHANGED vars
      PROVE stat' = stat
  BY <1>6
  DEF NewConnection, AppCall, PeerSends, PeerCloses, PeerResets, PeerReads, Poll,
      HandleEvent, Ontime, SwapTasks, EndOfBatch, RegisterInactiveReleaseInLoop,
      CancelInactiveReleaseInLoop, SendInLoop, vars, connVars
<1> QED
  BY <1>1, <1>2, <1>3, <1>4, <1>5, <1>6 DEF Next, Start

\* Only Poll dispatches a channel, and only HandleEvent goes into its handlers.
LEMMA NextDispatch ==
    ASSUME TypeOK, [Next]_vars
    PROVE  /\ pc' \in {"read", "write"} =>
                 pc \in {"read", "write"} \/ "conn" \in actives
           /\ "conn" \in actives' =>
                 "conn" \in actives \/ epoll
           /\ closed' # closed => ReleaseInLoop
<1>1. \/ UNCHANGED <<pc, actives>>
      \/ Poll \/ HandleEvent
      \/ pc \in {"read", "write"} /\ actives' = actives
      \/ Ontime \/ SwapTasks \/ EndOfBatch
      \/ pc' \in {pc, "aborted"} /\ actives' = actives
  BY DEF Next, Start, vars, loopVars, NewConnection, AppCall, PeerSends, PeerCloses,
         PeerResets, PeerReads, HandleRead, HandleRest, RunTask, EstablishInLoop,
         RegisterInactiveReleaseInLoop, CancelInactiveReleaseInLoop, ReleaseInLoop,
         SendInLoop, ShutDownTask
<1>2. closed' # closed => ReleaseInLoop
  BY NextChannel
<1>3. CASE Poll
  BY <1>2, <1>3 DEF Poll
<1>4. CASE HandleEvent \/ Ontime \/ SwapTasks \/ EndOfBatch
  BY <1>2, <1>4 DEF HandleEvent, Ontime, SwapTasks, EndOfBatch
<1> QED BY <1>1, <1>2, <1>3, <1>4

\* No handler is under way when ReleaseInLoop runs, and none starts later.
LEMMA NextReleasedOK ==
    ASSUME TypeOK, SocketOK, [Next]_vars
    PROVE  ReleasedOK'
<1>1. CASE ReleaseInLoop
  BY <1>1, ReleaseCloses DEF ReleasedOK
<1>2. CASE ~ReleaseInLoop
  <2>1. closed' = closed
    BY <1>2, NextDispatch
  <2>2. epoll => closed = 0
    BY DEF SocketOK, WatchOK
  <2>3. pc' \in {"read", "write"} \/ "conn" \in actives' => closed' = 0
    BY <2>1, <2>2, NextDispatch DEF SocketOK, ReleasedOK
  <2>4. closed' # 0 => stat' \notin {"CONNECTING", "CONNECTED"}
    BY <1>2, <2>1, NextStat DEF SocketOK, ReleasedOK
  <2>5. stat' = "DISCONNECTED" => closed' # 0
    BY <1>2, <2>1, NextStat DEF SocketOK, ReleasedOK
  <2> QED BY <2>3, <2>4, <2>5 DEF ReleasedOK
<1> QED BY <1>1, <1>2

\* The invariant of socket and status.
LEMMA SocketInvariant == Spec => [](TypeOK /\ SocketOK)
<1>1. Init => SocketOK
  BY Zenon DEF Init, SocketOK, WatchOK, ReleasedOK
<1>2. TypeOK /\ SocketOK /\ [Next]_vars => SocketOK'
  BY NextWatchOK, NextReleasedOK DEF SocketOK
<1> QED BY <1>1, <1>2, TypeInvariant, PTL DEF Spec

\* Once Release has run the socket is never open again, and no step takes the
\* status away from DISCONNECTED, except that the ShutDown task of another thread,
\* which runs late, makes it DISCONNECTING.
THEOREM AlwaysStaysDisconnected == Spec => StaysDisconnected
<1> DEFINE Stays ==
              closed > 0 =>
                /\ ~open'
                /\ \/ stat' \in {stat, "DISCONNECTED"}
                   \/ stat' = "DISCONNECTING" /\ pc = "run" /\ Head(local) = "ShutDown"
<1>1. TypeOK /\ SocketOK /\ TypeOK' /\ SocketOK' /\ [Next]_vars => [Stays]_vars
  <2> SUFFICES ASSUME TypeOK, SocketOK, TypeOK', SocketOK', [Next]_vars, closed > 0
               PROVE  /\ ~open'
                      /\ \/ stat' \in {stat, "DISCONNECTED"}
                         \/ stat' = "DISCONNECTING" /\ pc = "run" /\ Head(local) = "ShutDown"
    OBVIOUS
  <2>1. closed # 0 /\ pc \notin {"read", "write"} /\ stat # "CONNECTING"
    BY DEF SocketOK, ReleasedOK
  <2>2. closed' # 0
    <3>1. CASE ReleaseInLoop
      BY <3>1, ReleaseCloses
    <3>2. CASE ~ReleaseInLoop
      BY <2>1, <3>2, NextChannel
    <3> QED BY <3>1, <3>2
  <2>3. ~open'
    BY Zenon, <2>2 DEF SocketOK, WatchOK
  <2> QED BY <2>1, <2>3, NextStat
<1> QED BY <1>1, SocketInvariant, PTL DEF Spec, StaysDisconnected

-----------------------------------------------------------------------------
(***************************************************************************)
(* ShutDownUnderWay. Nothing but running it takes a Release off the queue, *)
(* and a step after which the connection is DISCONNECTING queues one,      *)
(* unless output is left that EPOLLOUT will be reported for.               *)
(***************************************************************************)
\* A queued Release stays queued until it is run.
LEMMA PendingStays ==
    ASSUME TypeOK, [Next]_vars, ~ReleaseInLoop, Pending("Release")
    PROVE  Pending("Release")'
<1>1. CASE NewConnection
  <2>1. PICK t \in Task : tasks' = Append(tasks, t)
    BY <1>1 DEF NewConnection, Task
  <2> QED BY <1>1, <2>1, PushTaskEffect DEF NewConnection
<1>2. ASSUME NEW t \in AppTasks, AppCall(t) PROVE Pending("Release")'
  BY <1>2, PushTaskEffect DEF AppCall, Task
<1>3. CASE HandleRead
  BY <1>3, HandleReadCases, PushEffect DEF HandleRead, MsgCbLeaves
<1>4. CASE HandleRest
  <2>1. \/ tasks' = tasks
        \/ \E n \in Nat : tasks' = tasks \o Releases(n)
    BY <1>4, HandleRestCases DEF MsgCbLeaves, SendLeaves
  <2> QED BY <1>4, <2>1, PushEffect DEF HandleRest, Pending
<1>5. CASE Ontime
  <2>1. tasks' = tasks \/ tasks' = Append(tasks, "Release")
    BY <1>5 DEF Ontime
  <2> QED BY <1>5, <2>1, PushTaskEffect DEF Ontime, Pending, Task
<1>6. CASE SwapTasks
  BY <1>6, SwapEffect
<1>7. CASE RegisterInactiveReleaseInLoop \/ CancelInactiveReleaseInLoop \/ SendInLoop
  <2>1. PICK t \in {"Register", "Cancel", "Send"} : RunTask(t) /\ tasks' = tasks
    BY <1>7 DEF RegisterInactiveReleaseInLoop, CancelInactiveReleaseInLoop, SendInLoop
  <2> QED BY <2>1, RunTaskOnly
<1>8. CASE EstablishInLoop
  <2>1. \/ tasks' = tasks
        \/ \E n \in Nat : tasks' = tasks \o Releases(n)
    BY <1>8, EstablishCases DEF EstablishLeaves
  <2> QED BY <1>8, <2>1, RunTaskOnly, RunTaskEffect DEF EstablishInLoop
<1>9. CASE ShutDownTask
  <2>1. PICK n \in Nat : MsgCbLeaves(n, in, 1, 0)
    BY <1>9, MsgCbEffect DEF ShutDownTask, ShutDownInLoop, TypeOK
  <2> QED BY <1>9, <2>1, RunTaskEffect DEF ShutDownTask, MsgCbLeaves
<1>10. CASE \/ PeerSends \/ PeerCloses \/ PeerResets \/ PeerReads
            \/ Poll \/ HandleEvent \/ EndOfBatch \/ UNCHANGED vars
  BY <1>10
  DEF PeerSends, PeerCloses, PeerResets, PeerReads, Poll, HandleEvent, EndOfBatch,
      vars, loopVars, Pending
<1> QED
  BY <1>1, <1>2, <1>3, <1>4, <1>5, <1>6, <1>7, <1>8, <1>9, <1>10 DEF Next, Start

\* Output that EPOLLOUT will be reported for.
Draining == out > 0 /\ "OUT" \in events

UnderWay == Pending("Release") \/ Draining

\* By the callbacks and the ShutDowns among them,
LEMMA MsgCbUnderWay ==
    ASSUME TypeOK, NEW n \in Nat, NEW avail, NEW downs, NEW releases,
           MsgCbLeaves(n, avail, downs, releases),
           stat = "DISCONNECTING" => UnderWay,
           stat' = "DISCONNECTING",
           Pending("Release") => Pending("Release")',
           n > 0 => Pending("Release")'
    PROVE  UnderWay'
<1>1. out \in Nat /\ out' \in Nat /\ out <= out'
  BY DEF MsgCbLeaves, Counts, TypeOK
<1>2. CASE stat = "DISCONNECTING" /\ ~Pending("Release")
  <2>1. out > 0 /\ "OUT" \in events
    BY <1>2 DEF UnderWay, Draining
  <2>2. out' > 0
    BY <1>1, <2>1
  <2>3. "OUT" \in events'
    BY <2>1 DEF MsgCbLeaves, UpdatedTo
  <2> QED BY <2>2, <2>3 DEF UnderWay, Draining
<1>3. CASE stat # "DISCONNECTING"
  <2>1. CASE out' = 0
    BY <1>3, <2>1 DEF MsgCbLeaves, UnderWay
  <2>2. CASE out' > 0
    BY <1>3, <2>2 DEF MsgCbLeaves, UnderWay, Draining
  <2> QED BY <1>1, <2>1, <2>2
<1> QED BY <1>2, <1>3 DEF UnderWay

\* and by every other step.
LEMMA NextUnderWay ==
    ASSUME TypeOK, [Next]_vars, ~ReleaseInLoop,
           stat = "DISCONNECTING" => UnderWay,
           stat' = "DISCONNECTING"
    PROVE  UnderWay'
<1>0. Pending("Release") => Pending("Release")'
  BY PendingStays
<1>1. CASE HandleRead
  <2>1. PICK n \in Nat : \E avail, downs, releases : MsgCbLeaves(n, avail, downs, releases)
    BY <1>1, HandleReadCases
  <2>2. n > 0 => Pending("Release")'
    BY <1>1, <2>1, PushEffect DEF HandleRead, MsgCbLeaves
  <2> QED BY <1>0, <2>1, <2>2, MsgCbUnderWay
<1>2. CASE HandleRest
  <2>0. local' = local
    BY <1>2 DEF HandleRest
  <2>1. ASSUME NEW n \in Nat, MsgCbLeaves(n, in, 0, 1) PROVE UnderWay'
    <3>1. n > 0 => Pending("Release")'
      BY <2>0, <2>1, PushEffect DEF MsgCbLeaves
    <3> QED BY <1>0, <2>1, <3>1, MsgCbUnderWay
  <2>2. ASSUME NEW n \in Nat, SendLeaves(n) PROVE UnderWay'
    <3>1. stat = "DISCONNECTING" /\ out' \in Nat
      BY <2>2 DEF SendLeaves, Counts
    <3>2. CASE out' = 0
      <4>1. n > 0
        BY <2>2, <3>1, <3>2 DEF SendLeaves
      <4>2. Pending("Release")'
        BY <2>0, <2>2, <4>1, PushEffect DEF SendLeaves
      <4> QED BY <4>2 DEF UnderWay
    <3>3. CASE out' > 0
      <4>1. out > 0
        BY <2>2, <3>1, <3>3 DEF SendLeaves, Counts, TypeOK
      <4>2. events' = events
        BY <2>2, <3>3 DEF SendLeaves
      <4> QED BY <1>0, <3>1, <3>3, <4>2 DEF UnderWay, Draining
    <3> QED BY <3>1, <3>2, <3>3
  <2>3. ASSUME UNCHANGED <<stat, events, out>> PROVE UnderWay'
    BY <1>0, <2>3 DEF UnderWay, Draining
  <2> QED BY <1>2, <2>1, <2>2, <2>3, HandleRestCases
<1>3. CASE EstablishInLoop
  <2>1. ASSUME NEW n \in Nat, EstablishLeaves(n) PROVE UnderWay'
    <3>1. n > 0 => Pending("Release")'
      BY <1>3, <2>1, RunTaskEffect DEF EstablishInLoop, EstablishLeaves
    <3>2. out' \in Nat
      BY <2>1 DEF EstablishLeaves, Counts
    <3>3. CASE out' = 0
      BY <2>1, <3>1, <3>3 DEF EstablishLeaves, UnderWay
    <3>4. CASE out' > 0
      BY <2>1, <3>4 DEF EstablishLeaves, UnderWay, Draining
    <3> QED BY <3>2, <3>3, <3>4
  <2>2. ASSUME UNCHANGED connVars PROVE UnderWay'
    BY <1>0, <2>2 DEF UnderWay, Draining, connVars
  <2> QED BY <1>3, <2>1, <2>2, EstablishCases
<1>4. CASE SendInLoop
  <2>1. stat = "DISCONNECTING"
    BY <1>4 DEF SendInLoop
  <2>2. Draining => Draining'
    <3>1. "OUT" \in events => "OUT" \in events'
      BY <1>4 DEF SendInLoop, EnableWriteIf, UpdateEvent
    <3>2. out' = out \/ out' = out + 1
      BY <1>4 DEF SendInLoop
    <3> QED BY <3>1, <3>2 DEF Draining, TypeOK
  <2> QED BY <1>0, <2>1, <2>2 DEF UnderWay
<1>5. CASE ShutDownTask
  <2>1. PICK n \in Nat : MsgCbLeaves(n, in, 1, 0)
    BY <1>5, MsgCbEffect DEF ShutDownTask, ShutDownInLoop, TypeOK
  <2>2. n > 0 => Pending("Release")'
    BY <1>5, <2>1, RunTaskEffect DEF ShutDownTask, MsgCbLeaves
  <2> QED BY <1>0, <2>1, <2>2, MsgCbUnderWay
<1>6. CASE \/ NewConnection \/ \E t \in AppTasks : AppCall(t)
           \/ PeerSends \/ PeerCloses \/ PeerResets \/ PeerReads
           \/ Poll \/ HandleEvent \/ Ontime \/ SwapTasks \/ EndOfBatch
           \/ RegisterInactiveReleaseInLoop \/ CancelInactiveReleaseInLoop
           \/ UNCHANGED vars
  <2>1. UNCHANGED <<stat, events, out>>
    BY <1>6
    DEF NewConnection, AppCall, PeerSends, PeerCloses, PeerResets, PeerReads, Poll,
        HandleEvent, Ontime, SwapTasks, EndOfBatch, RegisterInactiveReleaseInLoop,
        CancelInactiveReleaseInLoop, vars, connVars
  <2> QED BY <1>0, <2>1 DEF UnderWay, Draining
<1> QED
  BY <1>1, <1>2, <1>3, <1>4, <1>5, <1>6 DEF Next, Start

\* A connection that was shut down is on its way out.
THEOREM ShutDownAlwaysUnderWay == Spec => []ShutDownUnderWay
<1> DEFINE Inv == stat = "DISCONNECTING" /\ closed = 0 => UnderWay
<1>1. Init => Inv
  BY DEF Init
<1>2. TypeOK /\ SocketOK /\ Inv /\ [Next]_vars => Inv'
  <2> SUFFICES ASSUME TypeOK, SocketOK, Inv, [Next]_vars,
                      stat' = "DISCONNECTING", closed' = 0
               PROVE  UnderWay'
    OBVIOUS
  <2>1. ~ReleaseInLoop
    BY ReleaseCloses
  <2>2. closed = 0
    BY <2>1, NextDispatch
  <2> QED BY <2>1, <2>2, NextUnderWay
<1>3. TypeOK /\ SocketOK /\ Inv => ShutDownUnderWay
  BY DEF ShutDownUnderWay, SocketOK, WatchOK, UnderWay, Draining
<1> HIDE DEF Inv
<1> QED BY <1>1, <1>2, <1>3, SocketInvariant, PTL DEF Spec

-----------------------------------------------------------------------------
(***************************************************************************)
(* DrainedBeforeRelease. Where events and errors come from, and why a      *)
(* Release is queued: nothing is owed any more, or the peer is gone, or    *)
(* the timer went off.                                                     *)
(***************************************************************************)
Excused == PeerGone \/ timedOut

EventsOK ==
    /\ soerr => rst
    /\ revents \cap {"ERR", "HUP"} # {} => rst
    /\ pc \in {"read", "write"} => "conn" \notin actives
    /\ pc = "read" \/ ("conn" \in actives /\ "IN" \in revents) => recvq # 0 \/ PeerGone

ReleaseOK ==
    /\ Pending("Release") /\ stat \in {"CONNECTING", "CONNECTED"} => Excused
    /\ Pending("Release") \/ closed # 0 => owed = 0 \/ Excused

\* The peer does not come back, an error comes with a reset, and only
\* HandleRead takes the peer's bytes.
LEMMA NextPeer ==
    ASSUME TypeOK, [Next]_vars
    PROVE  /\ fin => fin'
           /\ rst => rst'
           /\ timedOut => timedOut'
           /\ soerr' => soerr \/ rst'
           /\ recvq' = 0 => recvq = 0 \/ HandleRead
<1>1. CASE HandleRead
  <2>1. UNCHANGED <<fin, rst, timedOut>>
    BY <1>1 DEF HandleRead
  <2>2. soerr' = soerr \/ soerr' = FALSE
    BY <1>1, HandleReadCases
  <2>3. soerr' => soerr
    BY Zenon, <2>2
  <2> QED BY <1>1, <2>1, <2>3
<1>2. CASE HandleRest
  <2>1. UNCHANGED <<fin, rst, timedOut, recvq>>
    BY <1>2 DEF HandleRest
  <2>2. soerr' = soerr \/ soerr' = FALSE
    BY <1>2, HandleRestCases DEF SendLeaves
  <2>3. soerr' => soerr
    BY <2>2
  <2> QED BY <2>1, <2>3
<1>3. CASE PeerSends
  <2>1. recvq' # 0
    BY <1>3 DEF PeerSends, TypeOK
  <2>2. UNCHANGED <<fin, rst, soerr, timedOut>>
    BY <1>3 DEF PeerSends, histVars
  <2> QED BY Zenon, <2>1, <2>2
<1>4. CASE PeerCloses \/ PeerResets
  <2>1. /\ fin' = fin \/ fin' = TRUE
        /\ rst' = rst \/ rst' = TRUE
        /\ UNCHANGED <<timedOut, recvq>>
    BY <1>4 DEF PeerCloses, PeerResets, histVars
  <2>2. soerr' = soerr \/ rst' = TRUE
    BY <1>4 DEF PeerCloses, PeerResets
  <2>3. /\ fin => fin'
        /\ rst => rst'
        /\ soerr' => soerr \/ rst'
    BY <2>1, <2>2
  <2> QED BY <2>1, <2>3
<1>5. CASE Ontime
  <2>1. UNCHANGED <<recvq, fin, rst, soerr>>
    BY <1>5 DEF Ontime, peerVars
  <2>2. timedOut' = timedOut \/ timedOut' = TRUE
    BY <1>5 DEF Ontime
  <2>3. timedOut => timedOut'
    BY <2>2
  <2> QED BY <2>1, <2>3
<1>6. ASSUME \/ RegisterInactiveReleaseInLoop \/ CancelInactiveReleaseInLoop
             \/ EstablishInLoop \/ ReleaseInLoop \/ SendInLoop \/ ShutDownTask
             \/ NewConnection \/ \E t \in AppTasks : AppCall(t)
             \/ PeerReads \/ Poll \/ HandleEvent \/ SwapTasks \/ EndOfBatch \/ UNCHANGED vars
      PROVE  UNCHANGED <<recvq, fin, rst, soerr, timedOut>>
  BY <1>6
  DEF RegisterInactiveReleaseInLoop, CancelInactiveReleaseInLoop, EstablishInLoop,
      ReleaseInLoop, SendInLoop, ShutDownTask, RunTask, NewConnection, AppCall, PeerReads,
      Poll, HandleEvent, SwapTasks, EndOfBatch, vars, peerVars, histVars
<1>7. CASE UNCHANGED <<recvq, fin, rst, soerr, timedOut>>
  BY <1>7
<1> QED
  BY <1>1, <1>2, <1>3, <1>4, <1>5, <1>6, <1>7 DEF Next, Start

\* So an excuse stays one.
LEMMA ExcusedStays ==
    ASSUME TypeOK, [Next]_vars
    PROVE  (PeerGone => PeerGone') /\ (Excused => Excused')
BY NextPeer DEF Excused, PeerGone

\* Events are those Poll found, of a peer that has not come back since.
LEMMA NextEventsOK ==
    ASSUME TypeOK, EventsOK, [Next]_vars
    PROVE  EventsOK'
<1>1. soerr' => rst'
  BY NextPeer DEF EventsOK
<1>2. CASE Poll
  <2>1. revents' = revents \/ revents' = Reported
    BY <1>2 DEF Poll
  <2>2. Reported \cap {"ERR", "HUP"} # {} => rst
    BY <1>2 DEF Reported, EventsOK
  <2>3. rst' = rst /\ pc' = "dispatch" /\ UNCHANGED <<fin, recvq>>
    BY <1>2 DEF Poll, peerVars
  <2>4. "conn" \in actives' => revents' = Reported
    BY <1>2 DEF Poll
  <2>5. "IN" \in Reported => recvq # 0 \/ fin \/ rst
    BY DEF Reported, TypeOK
  <2> QED BY <1>1, <2>1, <2>2, <2>3, <2>4, <2>5 DEF EventsOK, PeerGone
<1>3. CASE HandleEvent
  <2>1. /\ UNCHANGED <<revents, fin, rst, recvq>>
        /\ "conn" \in actives /\ "conn" \notin actives'
        /\ pc' = IF "IN" \in revents THEN "read" ELSE "write"
    BY <1>3 DEF HandleEvent, peerVars
  <2> QED BY <1>1, <2>1 DEF EventsOK, PeerGone
<1>4. CASE HandleRead
  <2>1. /\ UNCHANGED <<revents, fin, rst, actives>>
        /\ pc = "read" /\ pc' = "write"
    BY <1>4 DEF HandleRead
  <2> QED BY <1>1, <2>1 DEF EventsOK
<1>5. CASE HandleRest
  <2>1. revents' = {} /\ pc' = "dispatch" /\ pc = "write" /\ actives' = actives
    BY <1>5 DEF HandleRest
  <2> QED BY <1>1, <2>1 DEF EventsOK
<1>6. CASE ~(Poll \/ HandleEvent \/ HandleRead \/ HandleRest)
  <2>1. /\ revents' = revents /\ actives' \subseteq actives
        /\ \/ pc' = pc /\ actives' = actives
           \/ pc' \notin {"read", "write"} /\ actives' \subseteq actives
    BY <1>6
    DEF Next, Start, vars, loopVars, NewConnection, AppCall, PeerSends, PeerCloses,
        PeerResets, PeerReads, Ontime, SwapTasks, EndOfBatch, RunTask, EstablishInLoop,
        RegisterInactiveReleaseInLoop, CancelInactiveReleaseInLoop, ReleaseInLoop,
        SendInLoop, ShutDownTask, BatchDone, connVars
  <2>2. recvq # 0 => recvq' # 0
    BY <1>6, NextPeer
  <2> QED BY <1>1, <2>1, <2>2, NextPeer, ExcusedStays DEF EventsOK
<1> QED BY <1>2, <1>3, <1>4, <1>5, <1>6

\* While the excuse is missing: what the application is owed only shrinks, once
\* a Release is queued or has run.
LEMMA MsgCbRelease ==
    ASSUME TypeOK, ReleaseOK, NEW n \in Nat, NEW avail, NEW downs, NEW releases,
           MsgCbLeaves(n, avail, downs, releases),
           releases = 1 => PeerGone,
           Pending("Release")' => Pending("Release") \/ n > 0,
           Excused => Excused', PeerGone => PeerGone',
           closed # 0 => stat \notin {"CONNECTING", "CONNECTED"},
           closed' = closed
    PROVE  ReleaseOK'
<1>1. CASE Excused'
  BY <1>1 DEF ReleaseOK
<1>2. CASE ~Excused'
  <2>1. ~Excused /\ releases # 1
    BY <1>2 DEF Excused
  <2>2. CASE n > 0
    <3>1. stat' = "DISCONNECTING" /\ out' = 0
      BY <2>1, <2>2 DEF MsgCbLeaves
    <3>2. owed' = 0
      BY <3>1 DEF MsgCbLeaves, Counts
    <3> QED BY <3>1, <3>2 DEF ReleaseOK
  <2>3. CASE ~(n > 0)
    <3>1. Pending("Release")' => Pending("Release")
      BY <2>3
    <3>2. stat' = stat \/ stat' = "DISCONNECTING"
      BY DEF MsgCbLeaves
    <3>3. stat = "CONNECTED" \/ owed' = owed
      BY DEF MsgCbLeaves
    <3> QED BY <2>1, <3>1, <3>2, <3>3 DEF ReleaseOK
  <2> QED BY <2>2, <2>3
<1> QED BY <1>1, <1>2

\* Steps that queue no Release and send nothing.
LEMMA ReleaseUntouched ==
    ASSUME ReleaseOK, UNCHANGED <<stat, owed, closed>>,
           Pending("Release")' => Pending("Release"),
           Excused => Excused'
    PROVE  ReleaseOK'
BY DEF ReleaseOK

\* By every handler, task and submission.
LEMMA NextReleaseOK ==
    ASSUME TypeOK, SocketOK, EventsOK, ReleaseOK, [Next]_vars
    PROVE  ReleaseOK'
<1>0. /\ Excused => Excused'
      /\ PeerGone => PeerGone'
      /\ closed # 0 => stat \notin {"CONNECTING", "CONNECTED"}
  BY ExcusedStays DEF SocketOK, ReleasedOK
<1>1. CASE NewConnection
  <2>1. PICK t \in {"Register", "Established"} : tasks' = Append(tasks, t)
    BY <1>1 DEF NewConnection
  <2>2. t \in Task /\ t # "Release"
    BY DEF Task
  <2> QED
    BY <1>0, <1>1, <2>1, <2>2, PushTaskEffect, ReleaseUntouched
    DEF NewConnection, connVars, histVars
<1>2. ASSUME NEW t \in AppTasks, AppCall(t) PROVE ReleaseOK'
  <2>1. t \in Task /\ t # "Release"
    BY ConnectionAssumption DEF Task
  <2> QED
    BY <1>0, <1>2, <2>1, PushTaskEffect, ReleaseUntouched DEF AppCall, connVars, histVars
<1>3. CASE HandleRead
  <2>1. local' = local /\ closed' = closed /\ pc = "read"
    BY <1>3 DEF HandleRead
  <2>2. recvq = 0 /\ ~soerr => PeerGone
    BY <2>1 DEF EventsOK
  <2>3. ASSUME NEW n \in Nat, NEW avail, NEW downs, NEW releases,
               MsgCbLeaves(n, avail, downs, releases),
               releases # 1 \/ (recvq = 0 /\ ~soerr)
        PROVE  ReleaseOK'
    <3>1. Pending("Release")' <=> Pending("Release") \/ n > 0
      BY <2>1, <2>3, PushEffect DEF MsgCbLeaves
    <3> QED BY <1>0, <2>1, <2>2, <2>3, <3>1, MsgCbRelease
  <2>4. 0 # 1
    OBVIOUS
  <2> QED BY <1>3, <2>3, <2>4, HandleReadCases
<1>4. CASE HandleRest
  <2>1. local' = local /\ closed' = closed
    BY <1>4 DEF HandleRest
  <2>2. ASSUME NEW n \in Nat, MsgCbLeaves(n, in, 0, 1), rst PROVE ReleaseOK'
    <3>1. Pending("Release")' <=> Pending("Release") \/ n > 0
      BY <2>1, <2>2, PushEffect DEF MsgCbLeaves
    <3> QED BY <1>0, <2>1, <2>2, <3>1, MsgCbRelease DEF PeerGone
  <2>3. ASSUME NEW n \in Nat, SendLeaves(n) PROVE ReleaseOK'
    <3>1. Pending("Release")' <=> Pending("Release") \/ n > 0
      BY <2>1, <2>3, PushEffect DEF SendLeaves
    <3>2. CASE n > 0
      <4>1. stat' = "DISCONNECTING" /\ out' = 0
        BY <2>3, <3>2 DEF SendLeaves
      <4>2. owed' = 0
        BY <2>3, <4>1 DEF SendLeaves, Counts
      <4> QED BY <4>1, <4>2 DEF ReleaseOK
    <3>3. CASE ~(n > 0)
      <4>1. owed = 0 => owed' = 0
        BY <2>3 DEF SendLeaves, Counts
      <4>2. stat' = stat
        BY <2>3 DEF SendLeaves
      <4> QED BY <1>0, <2>1, <3>1, <3>3, <4>1, <4>2 DEF ReleaseOK
    <3> QED BY <3>2, <3>3
  <2>4. ASSUME UNCHANGED <<stat, tasks, owed>> PROVE ReleaseOK'
    BY <1>0, <2>1, <2>4, ReleaseUntouched DEF Pending
  <2> QED BY <1>4, <2>2, <2>3, <2>4, HandleRestCases DEF EventsOK
<1>5. CASE Ontime
  <2>1. UNCHANGED <<stat, owed, closed, local>>
    BY <1>5 DEF Ontime
  <2>2. tasks' = tasks \/ timedOut' = TRUE
    BY <1>5 DEF Ontime
  <2>3. CASE tasks' = tasks
    BY <1>0, <2>1, <2>3, ReleaseUntouched DEF Pending
  <2>4. CASE timedOut' = TRUE
    <3>1. Excused'
      BY Zenon, <2>4 DEF Excused
    <3> QED BY <3>1 DEF ReleaseOK
  <2> QED BY <2>2, <2>3, <2>4
<1>6. CASE SwapTasks
  BY <1>0, <1>6, SwapEffect, ReleaseUntouched DEF SwapTasks, connVars, histVars
<1>7. CASE RegisterInactiveReleaseInLoop \/ CancelInactiveReleaseInLoop
  <2>1. PICK t \in {"Register", "Cancel"} : RunTask(t) /\ tasks' = tasks
    BY <1>7 DEF RegisterInactiveReleaseInLoop, CancelInactiveReleaseInLoop
  <2>2. UNCHANGED <<stat, owed, closed>>
    BY <1>7
    DEF RegisterInactiveReleaseInLoop, CancelInactiveReleaseInLoop, histVars
  <2> QED BY <1>0, <2>1, <2>2, RunTaskOnly, ReleaseUntouched
<1>8. CASE EstablishInLoop
  <2>1. closed' = closed /\ RunTask("Established")
    BY <1>8 DEF EstablishInLoop
  <2>2. ASSUME NEW n \in Nat, EstablishLeaves(n), stat = "CONNECTING" PROVE ReleaseOK'
    <3>1. closed' = 0
      BY <1>0, <2>1, <2>2
    <3>2. Pending("Release")' => Pending("Release") \/ n > 0
      BY <2>1, <2>2, RunTaskEffect DEF EstablishLeaves
    <3>3. Pending("Release") => Excused'
      BY <1>0, <2>2 DEF ReleaseOK
    <3>4. n > 0 => stat' = "DISCONNECTING" /\ owed' = 0
      BY <2>2 DEF EstablishLeaves
    <3> QED BY <3>1, <3>2, <3>3, <3>4 DEF ReleaseOK
  <2>3. ASSUME UNCHANGED <<stat, tasks, owed>> PROVE ReleaseOK'
    BY <1>0, <2>1, <2>3, RunTaskOnly, ReleaseUntouched
  <2> QED BY <1>8, <2>2, <2>3, EstablishCases DEF connVars
<1>9. CASE ReleaseInLoop
  <2>1. Pending("Release")
    <3>1. local \in Seq(Task) /\ tasks \in Seq(Task) /\ local # <<>> /\ Head(local) = "Release"
      BY <1>9 DEF ReleaseInLoop, RunTask, TypeOK
    <3> QED BY <3>1, PopTask, RangeConcat DEF Pending
  <2>2. owed' = owed /\ stat' = "DISCONNECTED"
    BY <1>9 DEF ReleaseInLoop
  <2> QED BY <1>0, <2>1, <2>2 DEF ReleaseOK
<1>10. CASE SendInLoop
  <2>1. UNCHANGED <<stat, closed>> /\ (stat = "CONNECTED" \/ owed' = owed)
    BY <1>10 DEF SendInLoop
  <2>2. Pending("Release")' => Pending("Release")
    BY <1>10, RunTaskOnly DEF SendInLoop
  <2> QED BY <1>0, <2>1, <2>2 DEF ReleaseOK
<1>11. CASE ShutDownTask
  <2>1. closed' = closed
    BY <1>11 DEF ShutDownTask
  <2>2. PICK n \in Nat : MsgCbLeaves(n, in, 1, 0)
    BY <1>11, MsgCbEffect DEF ShutDownTask, ShutDownInLoop, TypeOK
  <2>3. Pending("Release")' => Pending("Release") \/ n > 0
    BY <1>11, <2>2, RunTaskEffect DEF ShutDownTask, MsgCbLeaves
  <2> QED BY <1>0, <2>1, <2>2, <2>3, MsgCbRelease
<1>12. CASE \/ PeerSends \/ PeerCloses \/ PeerResets \/ PeerReads
            \/ Poll \/ HandleEvent \/ EndOfBatch \/ UNCHANGED vars
  <2>1. UNCHANGED <<stat, owed, closed, local, tasks>>
    BY <1>12
    DEF PeerSends, PeerCloses, PeerResets, PeerReads, Poll, HandleEvent, EndOfBatch,
        vars, connVars, loopVars, histVars
  <2> QED BY <1>0, <2>1, ReleaseUntouched DEF Pending
<1> QED
  BY <1>1, <1>2, <1>3, <1>4, <1>5, <1>6, <1>7, <1>8, <1>9, <1>10, <1>11, <1>12
  DEF Next, Start

\* The queue of a new connection is empty.
LEMMA NothingPending == Init => ~Pending("Release")
BY ConcatEmptySeq, EmptyRange DEF Init, Pending, Task

\* What was sent while the connection was CONNECTED is in the kernel's hands
\* before the socket is closed, unless the peer is gone or the timer went off.
THEOREM DrainedAlwaysBeforeRelease == Spec => []DrainedBeforeRelease
<1> DEFINE Inv == EventsOK /\ ReleaseOK
<1>1. Init => Inv
  BY NothingPending DEF Init, EventsOK, ReleaseOK
<1>2. TypeOK /\ SocketOK /\ Inv /\ [Next]_vars => Inv'
  BY NextEventsOK, NextReleaseOK
<1>3. TypeOK /\ SocketOK /\ Inv => DrainedBeforeRelease
  <2> SUFFICES ASSUME TypeOK, SocketOK, ReleaseOK, stat = "DISCONNECTED", owed > 0
               PROVE  PeerGone \/ timedOut
    BY DEF DrainedBeforeRelease
  <2>1. closed # 0
    BY DEF SocketOK, ReleasedOK
  <2> QED BY <2>1 DEF ReleaseOK, Excused
<1> HIDE DEF Inv
<1> QED BY <1>1, <1>2, <1>3, SocketInvariant, PTL DEF Spec
=============================================================================
