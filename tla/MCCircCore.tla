----------------------------- MODULE MCCircCore -----------------------------
(* Instances of CircCore for TLC. *)
EXTENDS CircCore

(* between(1, 2) and at_least(2): one is lent less than there is, the other
   waits for more than one unit. *)
SmallDemands == {[min |-> 1, max |-> 2], [min |-> 2, max |-> 3]}

=============================================================================
