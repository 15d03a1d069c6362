---------------------------- MODULE MCRingBuffer ----------------------------
(* Instances of RingBuffer for TLC. *)
EXTENDS RingBuffer

(* at_most(1), and a demand that waits for two units. *)
SmallDemands == {[min |-> 0, max |-> 1], [min |-> 2, max |-> 3]}

(* write_at_most and read_at_most with any length. *)
AnyAmount == {[min |-> 0, max |-> 3]}

(* A ring between two user halves; a ring the runtime both receives into and
   sends from, beside one user half. *)
TwoHalves == {{"txUser", "rxUser"}}
ThreeActors == {{"rxUser", "txRt", "rxRt"}, {"txUser", "txRt", "rxRt"}}

=============================================================================
