------------------------------ MODULE ByteFifo ------------------------------
(* What the circular queue promises: the bytes come out in the order they went in, and    *)
(* there are never more of them than the queue holds.                                     *)
EXTENDS Naturals, Sequences

CONSTANTS Bytes, Capacity

VARIABLE waiting

Init == waiting = <<>>

Put == Len(waiting) < Capacity /\ \E b \in Bytes : waiting' = Append(waiting, b)
Get == waiting # <<>> /\ waiting' = Tail(waiting)

Spec == Init /\ [][Put \/ Get]_waiting
=============================================================================
