------------------------------- MODULE Demand -------------------------------
(***************************************************************************)
(* A demand, as a caller can construct it, narrowed again and again.  A    *)
(* buffer narrows what its caller asks by what it has, possibly through    *)
(* several layers of segments; the state machine below is such a chain of  *)
(* compromises.                                                            *)
(***************************************************************************)
EXTENDS DemandRange

VARIABLES agreement,    \* what the layers have agreed on so far
          meet          \* history: the amounts every layer accepts

vars == <<agreement, meet>>

Init ==
    \/ \E l \in Amounts : agreement = AtLeast(l) /\ meet = l .. MaxVal
    \/ \E u \in Amounts : agreement = LessThan(u) /\ meet = 0 .. u - 1
    \/ \E v \in Amounts \ {0} : agreement = Exactly(v) /\ meet = {v}
    \/ \E a, b \in Amounts : /\ a # b
                             /\ agreement = Between(a, b)
                             /\ meet = Smaller(a, b) .. Larger(a, b) - 1

(* One more layer states its demand. *)
Narrow(d) ==
    /\ IsDemand(agreement)
    /\ agreement' = Compromise(agreement, d)
    /\ meet' = meet \cap Accepts(d)

(* A layer states its demand as a Rust range. *)
NarrowByRange(s, e) ==
    /\ IsDemand(agreement)
    /\ IsDemand(TryFromRange(s, e))
    /\ agreement' = Compromise(agreement, TryFromRange(s, e))
    /\ meet' = meet \cap {n \in Amounts :
                            /\ s.how = "Included" => n >= s.at
                            /\ s.how = "Excluded" => n > s.at
                            /\ e.how = "Included" => n <= e.at
                            /\ e.how = "Excluded" => n < e.at
                            /\ e.how = "Unbounded" => n < MaxVal}

Next ==
    \/ \E d \in Demands : WellFormed(d) /\ Narrow(d)
    \/ \E s, e \in Bounds : NarrowByRange(s, e)

Spec == Init /\ [][Next]_vars

-----------------------------------------------------------------------------
(* Type invariant. *)
TypeOK ==
    /\ WellFormed(agreement) \/ agreement \in {NoDemand, Panic}
    /\ meet \in SUBSET Amounts

(* After any number of layers, the agreement accepts exactly the amounts all
   of them accept, and there is no agreement only if there is no such amount
   (T::MAX itself is outside every range that ends Unbounded). *)
AgreementIsMeet == Accepts(agreement) = meet

-----------------------------------------------------------------------------
(* Claims of the repository's comments that the code does not keep. *)

(* "no lower bound + no upper bound: a <= b is enough for an interval": the
   arm is total when a <= b. *)
NeverPanics == agreement # Panic

=============================================================================
