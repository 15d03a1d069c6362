------------------------------- MODULE IoPos -------------------------------
(***************************************************************************)
(* Positions of the circular buffer (struct IoPos of                       *)
(* crates/buffex/src/circular_buff/core_.rs).                              *)
(*                                                                         *)
(* A position is a record [rv, rp, wp]: the physical read and write        *)
(* indices, both in 0..Capacity-1, and the REVERSION bit that tells a full *)
(* ring from an empty one when they coincide.  The code packs the three    *)
(* into one machine word (unpack / pack); pack leaves every other bit of   *)
(* the word alone, so here they are one record beside the other flags.     *)
(***************************************************************************)
EXTENDS Integers

CONSTANT Capacity            \* number of cells, all of them usable

(* The builder refuses a buffer shorter than MIN_CAPACITY = 2. *)
ASSUME CapacityAssumption == Capacity \in Nat /\ Capacity >= 2

Cells == 0 .. Capacity - 1

Positions == [rv : BOOLEAN, rp : Cells, wp : Cells]

StartPos == [rv |-> FALSE, rp |-> 0, wp |-> 0]

(* A slip: the full ring taken for an empty one. *)
DataSizeWithoutRv(p) == (p.wp + Capacity - p.rp) % Capacity

DataSize(p) ==
    IF p.rv /\ p.wp = p.rp
    THEN Capacity
    ELSE (p.wp + Capacity - p.rp) % Capacity

FreeSize(p) == Capacity - DataSize(p)

(* A slip: the write index not wrapped. *)
AdvanceWpUnwrapped(p, n) ==
    [rv |-> p.rv \/ p.wp + n >= Capacity, rp |-> p.rp, wp |-> p.wp + n]

AdvanceWp(p, n) ==
    [rv |-> p.rv \/ p.wp + n >= Capacity,
     rp |-> p.rp,
     wp |-> (p.wp + n) % Capacity]

(* A slip: the bit not cleared when the reader crosses the end. *)
AdvanceRpKeepsRv(p, n) ==
    [rv |-> p.rv, rp |-> (p.rp + n) % Capacity, wp |-> p.wp]

AdvanceRp(p, n) ==
    [rv |-> p.rv /\ ~(p.rp + n >= Capacity),
     rp |-> (p.rp + n) % Capacity,
     wp |-> p.wp]

(* The cell that lies i units after index `start`, around the physical end:
   create_write_segm and create_read_segm split a segment there. *)
CellAt(start, i) == (start + i) % Capacity

(* Cells of the logical segment [start, start + n). *)
Region(start, n) == {CellAt(start, i) : i \in 0 .. n - 1}

(* What the position convention promises: the writer is at or after the
   reader, "after" being read around the physical end once rv is set. *)
WellPlaced(p) == IF p.rv THEN p.wp <= p.rp ELSE p.rp <= p.wp

=============================================================================
