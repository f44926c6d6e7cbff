--------------------------- MODULE ConnectionLife ---------------------------
(***************************************************************************)
(* What TcpServer promises of its connections, without loops, descriptors  *)
(* and reference counts: each is accepted, served, released and destroyed, *)
(* in this order, and none twice.                                          *)
(***************************************************************************)
CONSTANT Conn       \* the connections there may be

VARIABLE stage      \* connection -> how far it got

Stages == {"none", "accepted", "served", "released", "destroyed"}

Init == stage = [c \in Conn |-> "none"]

Advance(S, from, to) ==
    /\ \A c \in S : stage[c] = from
    /\ stage' = [c \in Conn |-> IF c \in S THEN to ELSE stage[c]]

Next ==
    \/ \E c \in Conn :
          \/ Advance({c}, "none", "accepted")
          \/ Advance({c}, "accepted", "served")
          \/ Advance({c}, "served", "released")
    \* A batch of tasks drops the references of several connections at once.
    \/ \E S \in SUBSET Conn : Advance(S, "released", "destroyed")

Spec == Init /\ [][Next]_stage
=============================================================================
