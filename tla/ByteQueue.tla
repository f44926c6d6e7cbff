----------------------------- MODULE ByteQueue -----------------------------
(***************************************************************************)
(* What a Buffer is for its users: bytes come out in the order they were   *)
(* put in, each once, whatever is put and taken in between; a line is what *)
(* is there up to the first LF.                                            *)
(***************************************************************************)
EXTENDS Naturals, Sequences

CONSTANT LF

VARIABLES
    queue,      \* bytes put in and not taken out
    call,       \* the last call
    moved       \* the bytes it moved in or out

vars == <<queue, call, moved>>

Init == queue = <<>> /\ call = "none" /\ moved = <<>>

Write ==
    /\ call' = "write"
    /\ queue' = queue \o moved'

Read ==
    /\ call' = "read"
    /\ queue = moved' \o queue'

GetLine ==
    /\ call' = "line"
    /\ queue = moved' \o queue'
    /\ \A i \in DOMAIN queue : queue[i] = LF => moved' # <<>>
    /\ \A i \in DOMAIN moved' : moved'[i] = LF <=> i = Len(moved')

Clear ==
    /\ call' = "clear"
    /\ queue' = <<>> /\ moved' = <<>>

Next == Write \/ Read \/ GetLine \/ Clear

Spec == Init /\ [][Next]_vars
=============================================================================
