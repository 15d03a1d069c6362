----------------------------- MODULE DemandRange -----------------------------
(***************************************************************************)
(* The demand a caller of a buffer states, Demand<T> of                    *)
(* crates/abs_buff/src/demand_.rs: a half-open interval of amounts, its    *)
(* constructors, and the narrowing of one demand by another (compromise).  *)
(***************************************************************************)
EXTENDS Integers

CONSTANT MaxVal         \* T::MAX, the largest amount

ASSUME MaxValAssumption == MaxVal \in Nat \ {0}

Amounts == 0 .. MaxVal

(* The three shapes of DemandRange, and the two other outcomes. *)
AtLeast(l)  == [kind |-> "AtLeast", lo |-> l, hi |-> 0]
LessThan(u) == [kind |-> "LessThan", lo |-> 0, hi |-> u]
Range(l, u) == [kind |-> "Range", lo |-> l, hi |-> u]
NoDemand    == [kind |-> "None", lo |-> 0, hi |-> 0]
Panic       == [kind |-> "Panic", lo |-> 0, hi |-> 0]

IsDemand(d) == d.kind \in {"AtLeast", "LessThan", "Range"}

(* RangeBounds: the amounts a demand accepts. *)
Accepts(d) ==
    {n \in Amounts : /\ d.kind \in {"AtLeast", "Range"} => n >= d.lo
                     /\ d.kind \in {"LessThan", "Range"} => n < d.hi
                     /\ IsDemand(d)}

-----------------------------------------------------------------------------
(* Constructors.  Amounts are machine integers: v + 1 has no value at MaxVal. *)

Between(a, b) == IF a < b THEN Range(a, b)
                 ELSE IF a > b THEN Range(b, a) ELSE Panic

Exactly(v) == IF v = 0 THEN Panic
              ELSE IF v < MaxVal THEN Range(v, v + 1) ELSE AtLeast(v)

(* try_from_usize_range on bounds [how, at] with how in Bound's constructors. *)
Bounds == [how : {"Included", "Excluded"}, at : Amounts]
            \cup {[how |-> "Unbounded", at |-> 0]}

(* checked_add(1), -1 standing for its None. *)
CheckedSucc(v) == IF v = MaxVal THEN -1 ELSE v + 1

(* A slip: an inclusive end taken as it is. *)
TryFromRangeExclusive(s, e) ==
    LET start == IF s.how = "Excluded" THEN CheckedSucc(s.at) ELSE s.at
        end   == IF e.how = "Unbounded" THEN MaxVal ELSE e.at
    IN IF start = -1 \/ ~(start < end) THEN NoDemand ELSE Between(start, end)

TryFromRange(s, e) ==
    LET start == IF s.how = "Excluded" THEN CheckedSucc(s.at) ELSE s.at
        end   == CASE e.how = "Included" -> CheckedSucc(e.at)
                   [] e.how = "Excluded" -> e.at
                   [] e.how = "Unbounded" -> MaxVal
    IN IF start = -1 \/ end = -1 \/ ~(start < end)
       THEN NoDemand
       ELSE Between(start, end)

-----------------------------------------------------------------------------
Larger(a, b)  == IF a >= b THEN a ELSE b
Smaller(a, b) == IF a <= b THEN a ELSE b

(* The match of compromise; the arms it writes twice, once for each order of
   the two operands, are one arm here. *)
Compromise(x, y) ==
    LET Kinds(a, b) == x.kind = a /\ y.kind = b IN
    CASE Kinds("AtLeast", "AtLeast") -> AtLeast(Larger(x.lo, y.lo))
      [] Kinds("LessThan", "LessThan") -> LessThan(Smaller(x.hi, y.hi))
      [] Kinds("AtLeast", "LessThan") ->
           IF x.lo <= y.hi THEN Between(x.lo, y.hi) ELSE NoDemand
      [] Kinds("LessThan", "AtLeast") ->
           IF y.lo <= x.hi THEN Between(y.lo, x.hi) ELSE NoDemand
      [] Kinds("AtLeast", "Range") ->
           IF x.lo <= y.hi THEN Between(Larger(x.lo, y.lo), y.hi) ELSE NoDemand
      [] Kinds("Range", "AtLeast") ->
           IF y.lo <= x.hi THEN Between(Larger(y.lo, x.lo), x.hi) ELSE NoDemand
      [] Kinds("LessThan", "Range") ->
           IF y.lo <= x.hi THEN Between(y.lo, Smaller(x.hi, y.hi)) ELSE NoDemand
      [] Kinds("Range", "LessThan") ->
           IF x.lo <= y.hi THEN Between(x.lo, Smaller(y.hi, x.hi)) ELSE NoDemand
      [] Kinds("Range", "Range") ->
           IF x.hi <= y.lo \/ y.hi <= x.lo THEN NoDemand
           ELSE Between(Larger(x.lo, y.lo), Smaller(x.hi, y.hi))
      [] OTHER -> NoDemand

-----------------------------------------------------------------------------
(* The demands a caller can hold. *)

Demands ==
    {AtLeast(l) : l \in Amounts} \cup {LessThan(u) : u \in Amounts}
        \cup {Range(l, u) : l \in Amounts, u \in Amounts}

WellFormed(d) == d \in Demands /\ (d.kind = "Range" => d.lo < d.hi)

=============================================================================
