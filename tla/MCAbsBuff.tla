----------------------------- MODULE MCAbsBuff -----------------------------
(***************************************************************************)
(* abs_buff for TLC: the segments of a ring, a slice and an array of three *)
(* cells, and, on its own, a chain of compromises between demands.  A      *)
(* behaviour is of one of the two.                                         *)
(***************************************************************************)
EXTENDS Demand, Segments

VARIABLE suite

MCWants == {AtLeast(1), Exactly(1)}

MCInit == /\ SegmInit
          /\ \/ suite = "segments" /\ agreement = NoDemand /\ meet = {}
             \/ suite = "demands" /\ Init /\ store = "array"
MCNext == /\ \/ suite = "segments" /\ SegmNext /\ UNCHANGED vars
             \/ suite = "demands" /\ Next /\ UNCHANGED segmVars
          /\ UNCHANGED suite
MCSpec == MCInit /\ [][MCNext]_<<vars, segmVars, suite>>

=============================================================================
