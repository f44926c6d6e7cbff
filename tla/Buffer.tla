------------------------------- MODULE Buffer -------------------------------
(***************************************************************************)
(* The Buffer of src/server.hpp: a vector with a read and a write offset,  *)
(* compacted or grown when a write does not fit behind the write offset.   *)
(* Sequences count from 1: the byte at offset i is buffer[i + 1].          *)
(***************************************************************************)
EXTENDS Naturals, SequencesExt

CONSTANTS
    Byte,           \* bytes, LF and Zero among them
    LF, Zero,
    DefaultSize,    \* DEFAULT_SIZE
    MaxWrite,       \* bound: bytes of one write
    MaxSize         \* bound: size of the vector

ASSUME BufferAssumption ==
    /\ {LF, Zero} \subseteq Byte
    /\ DefaultSize \in Nat /\ MaxWrite \in Nat /\ MaxSize \in Nat

VARIABLES
    buffer,     \* _buffer
    ridx,       \* _ridx
    widx,       \* _widx
    call,       \* history: the last call
    moved       \* history: the bytes it wrote or returned

vars == <<buffer, ridx, widx, call, moved>>

Init ==
    /\ buffer = [i \in 1..DefaultSize |-> Zero]
    /\ ridx = 0 /\ widx = 0
    /\ call = "none" /\ moved = <<>>

HeadIdleSize == ridx
TailIdleSize == Len(buffer) - widx
ReadableSize == widx - ridx

\* What ReadPos sees.
Readable == SubSeq(buffer, ridx + 1, widx)

\* v with s copied to offset `at`: std::copy.
Copied(v, at, s) ==
    [i \in 1..Len(v) |-> IF i \in at + 1..at + Len(s) THEN s[i - at] ELSE v[i]]

MutantEnsureWriteSpace_KeepsWidx(len) ==
    CASE len <= TailIdleSize ->
            [v |-> buffer, r |-> ridx, w |-> widx]
      [] len > TailIdleSize /\ len <= HeadIdleSize + TailIdleSize ->
            [v |-> Copied(buffer, 0, Readable), r |-> 0, w |-> widx]
      [] OTHER ->
            [v |-> buffer \o [i \in 1..len - TailIdleSize |-> Zero],
             r |-> ridx, w |-> widx]

MutantEnsureWriteSpace_CopiesNothing(len) ==
    CASE len <= TailIdleSize ->
            [v |-> buffer, r |-> ridx, w |-> widx]
      [] len > TailIdleSize /\ len <= HeadIdleSize + TailIdleSize ->
            [v |-> buffer, r |-> 0, w |-> ReadableSize]
      [] OTHER ->
            [v |-> buffer \o [i \in 1..len - TailIdleSize |-> Zero],
             r |-> ridx, w |-> widx]

\* The vector and offsets with room for len more bytes: as they are, moved to
\* the front, or resized.
EnsureWriteSpace(len) ==
    CASE len <= TailIdleSize ->
            [v |-> buffer, r |-> ridx, w |-> widx]
      [] len > TailIdleSize /\ len <= HeadIdleSize + TailIdleSize ->
            [v |-> Copied(buffer, 0, Readable), r |-> 0, w |-> ReadableSize]
      [] OTHER ->
            [v |-> buffer \o [i \in 1..len - TailIdleSize |-> Zero],
             r |-> ridx, w |-> widx]

\* WriteAndMove, WriteAndMoveString, WriteAndMoveBuffer: EnsureWriteSpace, the
\* copy, MoveWrite.
WriteAndMove(data) ==
    LET room == EnsureWriteSpace(Len(data))
    IN  /\ Len(room.v) <= MaxSize
        /\ buffer' = Copied(room.v, room.w, data)
        /\ ridx' = room.r
        /\ widx' = room.w + Len(data)
        /\ call' = "write" /\ moved' = data

\* MoveRead of bytes that were read: GetLineAndMove, ReadAndMove,
\* ReadAsStringAndMove, and whoever uses ReadPos.
Take(len) ==
    /\ moved' = SubSeq(buffer, ridx + 1, ridx + len)
    /\ ridx' = ridx + len
    /\ UNCHANGED <<buffer, widx>>

ReadAndMove(len) ==
    /\ len <= ReadableSize
    /\ call' = "read"
    /\ Take(len)

\* GetLine finds the first LF and returns what is there up to it, or nothing.
LineSize == SelectInSeq(Readable, LAMBDA b : b = LF)

GetLineAndMove ==
    /\ call' = "line"
    /\ Take(LineSize)

Clear ==
    /\ ridx' = 0 /\ widx' = 0
    /\ call' = "clear" /\ moved' = <<>>
    /\ UNCHANGED buffer

Next ==
    \/ \E data \in BoundedSeq(Byte, MaxWrite) : WriteAndMove(data)
    \/ \E len \in 1..ReadableSize : ReadAndMove(len)
    \/ GetLineAndMove
    \/ Clear

Spec == Init /\ [][Next]_vars

-----------------------------------------------------------------------------
TypeOK ==
    /\ buffer \in Seq(Byte)
    /\ widx \in 0..Len(buffer)
    /\ ridx \in 0..widx
    /\ moved \in Seq(Byte)

Queue == INSTANCE ByteQueue WITH
            LF <- LF, queue <- Readable, call <- call, moved <- moved

(***************************************************************************)
(* Through every mixture of compaction, growth, reads and writes the bytes *)
(* come out as they went in.                                               *)
(***************************************************************************)
ImplementsQueue == Queue!Spec
=============================================================================
