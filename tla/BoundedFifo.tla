----------------------------- MODULE BoundedFifo -----------------------------
(***************************************************************************)
(* What the circular buffer promises its two halves, whatever its memory   *)
(* layout: a bounded first-in first-out queue.  Items are numbered in the  *)
(* order in which they are put.  A put or a get concerns a whole batch, the *)
(* part of a borrowed segment its holder used.                             *)
(***************************************************************************)
EXTENDS Integers, Sequences

CONSTANT Capacity

VARIABLES q,        \* the items in the queue, oldest first
          count     \* how many items were ever put

Init == q = << >> /\ count = 0

Put(n) ==
    /\ n <= Capacity - Len(q)
    /\ q' = q \o [i \in 1 .. n |-> count + i]
    /\ count' = count + n

Get(n) ==
    /\ n <= Len(q)
    /\ q' = SubSeq(q, n + 1, Len(q))
    /\ UNCHANGED count

Next == \E n \in 1 .. Capacity : Put(n) \/ Get(n)

Spec == Init /\ [][Next]_<<q, count>>

=============================================================================
