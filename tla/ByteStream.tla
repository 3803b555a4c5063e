----------------------------- MODULE ByteStream -----------------------------
(***************************************************************************)
(* What the sending side of a session promises, with no buffers, events or *)
(* system calls: the bytes given to SendData reach the socket in order and *)
(* at most once, and a session that closes because SetSentClose asked it   *)
(* to has sent them all.  Bytes are numbered from 1 in the order given.    *)
(***************************************************************************)
EXTENDS Integers, Sequences

CONSTANT Amounts   \* how many bytes one step may move

VARIABLES given,   \* how many bytes the application has given
          wire,    \* the bytes the socket has taken, in order
          phase    \* "open", "flushed" (closed when all was sent), "cut"

vars == <<given, wire, phase>>

Init == given = 0 /\ wire = <<>> /\ phase = "open"

Give(n) ==
    /\ phase = "open"
    /\ given' = given + n
    /\ UNCHANGED <<wire, phase>>

Carry(n) ==
    /\ phase = "open"
    /\ Len(wire) + n <= given
    /\ wire' = wire \o [i \in 1 .. n |-> Len(wire) + i]
    /\ UNCHANGED given
    /\ phase' \in IF Len(wire) + n = given THEN {"open", "flushed"} ELSE {"open"}

\* Nothing is left to carry, and SetSentClose asked for the close.
CloseFlushed ==
    /\ phase = "open"
    /\ Len(wire) = given
    /\ phase' = "flushed"
    /\ UNCHANGED <<given, wire>>

\* Close, ForceClose, the peer, or a socket error: what is pending is lost.
Cut ==
    /\ phase = "open"
    /\ phase' = "cut"
    /\ UNCHANGED <<given, wire>>

Next == CloseFlushed \/ Cut \/ \E n \in Amounts : Give(n) \/ Carry(n)

Spec == Init /\ [][Next]_vars
=============================================================================
