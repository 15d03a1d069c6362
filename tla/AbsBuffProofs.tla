---------------------------- MODULE AbsBuffProofs ----------------------------
(***************************************************************************)
(* abs_buff: narrowing a demand is intersection, for every width of the    *)
(* amounts, and segments move every item once and in order, for every      *)
(* buffer, every set of demands and any depth of children.                 *)
(***************************************************************************)
EXTENDS Demand, Segments, WellFoundedInduction, TLAPS

-----------------------------------------------------------------------------
(* Demands.                                                                *)

(* Two demands agree on exactly the amounts both accept, and the agreement is
   again a demand, unless it is refused or panics. *)
LEMMA CompromiseMeets ==
    ASSUME NEW x, NEW y, WellFormed(x), WellFormed(y)
    PROVE  /\ WellFormed(Compromise(x, y))
                 \/ Compromise(x, y) \in {NoDemand, Panic}
           /\ Accepts(Compromise(x, y)) = Accepts(x) \cap Accepts(y)
<1>1. /\ x \in [kind : {"AtLeast", "LessThan", "Range"}, lo : Amounts, hi : Amounts]
      /\ y \in [kind : {"AtLeast", "LessThan", "Range"}, lo : Amounts, hi : Amounts]
      /\ x.kind = "AtLeast" => x.hi = 0
      /\ y.kind = "AtLeast" => y.hi = 0
      /\ x.kind = "LessThan" => x.lo = 0
      /\ y.kind = "LessThan" => y.lo = 0
      /\ x.kind = "Range" => x.lo < x.hi
      /\ y.kind = "Range" => y.lo < y.hi
  BY MaxValAssumption
     DEF WellFormed, Demands, AtLeast, LessThan, Range, Amounts
<1>2. CASE x.kind = "AtLeast" /\ y.kind = "AtLeast"
  BY <1>1, <1>2, MaxValAssumption
     DEF Compromise, Between, Larger, Smaller, WellFormed, Demands, AtLeast,
         LessThan, Range, Amounts, Accepts, IsDemand, NoDemand, Panic
<1>3. CASE x.kind = "AtLeast" /\ y.kind = "LessThan"
  BY <1>1, <1>3, MaxValAssumption
     DEF Compromise, Between, Larger, Smaller, WellFormed, Demands, AtLeast,
         LessThan, Range, Amounts, Accepts, IsDemand, NoDemand, Panic
<1>4. CASE x.kind = "AtLeast" /\ y.kind = "Range"
  BY <1>1, <1>4, MaxValAssumption
     DEF Compromise, Between, Larger, Smaller, WellFormed, Demands, AtLeast,
         LessThan, Range, Amounts, Accepts, IsDemand, NoDemand, Panic
<1>5. CASE x.kind = "LessThan" /\ y.kind = "AtLeast"
  BY <1>1, <1>5, MaxValAssumption
     DEF Compromise, Between, Larger, Smaller, WellFormed, Demands, AtLeast,
         LessThan, Range, Amounts, Accepts, IsDemand, NoDemand, Panic
<1>6. CASE x.kind = "LessThan" /\ y.kind = "LessThan"
  BY <1>1, <1>6, MaxValAssumption
     DEF Compromise, Between, Larger, Smaller, WellFormed, Demands, AtLeast,
         LessThan, Range, Amounts, Accepts, IsDemand, NoDemand, Panic
<1>7. CASE x.kind = "LessThan" /\ y.kind = "Range"
  BY <1>1, <1>7, MaxValAssumption
     DEF Compromise, Between, Larger, Smaller, WellFormed, Demands, AtLeast,
         LessThan, Range, Amounts, Accepts, IsDemand, NoDemand, Panic
<1>8. CASE x.kind = "Range" /\ y.kind = "AtLeast"
  BY <1>1, <1>8, MaxValAssumption
     DEF Compromise, Between, Larger, Smaller, WellFormed, Demands, AtLeast,
         LessThan, Range, Amounts, Accepts, IsDemand, NoDemand, Panic
<1>9. CASE x.kind = "Range" /\ y.kind = "LessThan"
  BY <1>1, <1>9, MaxValAssumption
     DEF Compromise, Between, Larger, Smaller, WellFormed, Demands, AtLeast,
         LessThan, Range, Amounts, Accepts, IsDemand, NoDemand, Panic
<1>10. CASE x.kind = "Range" /\ y.kind = "Range"
  BY <1>1, <1>10, MaxValAssumption
     DEF Compromise, Between, Larger, Smaller, WellFormed, Demands, AtLeast,
         LessThan, Range, Amounts, Accepts, IsDemand, NoDemand, Panic
<1> QED BY <1>1, <1>2, <1>3, <1>4, <1>5, <1>6, <1>7, <1>8, <1>9, <1>10

(* A demand accepts the amounts its constructor names. *)
LEMMA ConstructorsAccept ==
    ASSUME NEW a \in Amounts, NEW b \in Amounts
    PROVE  /\ WellFormed(AtLeast(a)) /\ Accepts(AtLeast(a)) = a .. MaxVal
           /\ WellFormed(LessThan(a)) /\ Accepts(LessThan(a)) = 0 .. a - 1
           /\ a # 0 => WellFormed(Exactly(a)) /\ Accepts(Exactly(a)) = {a}
           /\ a # b => /\ WellFormed(Between(a, b))
                       /\ Accepts(Between(a, b))
                            = Smaller(a, b) .. Larger(a, b) - 1
<1>1. WellFormed(AtLeast(a)) /\ Accepts(AtLeast(a)) = a .. MaxVal
  BY MaxValAssumption DEF WellFormed, Demands, AtLeast, LessThan, Range,
     Amounts, Accepts, IsDemand
<1>2. WellFormed(LessThan(a)) /\ Accepts(LessThan(a)) = 0 .. a - 1
  BY MaxValAssumption DEF WellFormed, Demands, AtLeast, LessThan, Range,
     Amounts, Accepts, IsDemand
<1>3. ASSUME NEW l \in Amounts, NEW u \in Amounts, l < u
      PROVE  WellFormed(Range(l, u)) /\ Accepts(Range(l, u)) = l .. u - 1
  BY <1>3, MaxValAssumption DEF WellFormed, Demands, AtLeast, LessThan, Range,
     Amounts, Accepts, IsDemand
<1>4. ASSUME a # 0
      PROVE  WellFormed(Exactly(a)) /\ Accepts(Exactly(a)) = {a}
  <2>1. CASE a < MaxVal
    <3>1. a + 1 \in Amounts /\ a < a + 1 /\ a .. (a + 1) - 1 = {a}
      BY <2>1, MaxValAssumption DEF Amounts
    <3> QED BY <1>4, <2>1, <1>3, <3>1 DEF Exactly
  <2>2. CASE a = MaxVal
    <3>1. a .. MaxVal = {a} /\ ~(a < MaxVal)
      BY <2>2, MaxValAssumption DEF Amounts
    <3> QED BY <1>1, <1>4, <3>1 DEF Exactly
  <2> QED BY <2>1, <2>2, MaxValAssumption DEF Amounts
<1>5. ASSUME a # b
      PROVE  /\ WellFormed(Between(a, b))
             /\ Accepts(Between(a, b)) = Smaller(a, b) .. Larger(a, b) - 1
  <2>1. CASE a < b
    BY <1>3, <2>1 DEF Between, Smaller, Larger, Amounts
  <2>2. CASE b < a
    BY <1>3, <2>2 DEF Between, Smaller, Larger, Amounts
  <2> QED BY <1>5, <2>1, <2>2 DEF Amounts
<1> QED BY <1>1, <1>2, <1>4, <1>5

(* A range that is accepted means what Rust means by it. *)
LEMMA RangeAccepts ==
    ASSUME NEW s \in Bounds, NEW e \in Bounds, IsDemand(TryFromRange(s, e))
    PROVE  /\ WellFormed(TryFromRange(s, e))
           /\ Accepts(TryFromRange(s, e)) =
                {n \in Amounts : /\ s.how = "Included" => n >= s.at
                                 /\ s.how = "Excluded" => n > s.at
                                 /\ e.how = "Included" => n <= e.at
                                 /\ e.how = "Excluded" => n < e.at
                                 /\ e.how = "Unbounded" => n < MaxVal}
<1> DEFINE low  == IF s.how = "Excluded" THEN CheckedSucc(s.at) ELSE s.at
           high == CASE e.how = "Included" -> CheckedSucc(e.at)
                      [] e.how = "Excluded" -> e.at
                      [] e.how = "Unbounded" -> MaxVal
<1>1. /\ s.at \in Amounts /\ e.at \in Amounts
      /\ s.how \in {"Included", "Excluded", "Unbounded"}
      /\ e.how \in {"Included", "Excluded", "Unbounded"}
      /\ s.how = "Unbounded" => s.at = 0
  BY MaxValAssumption DEF Bounds, Amounts
<1>2. low \in Amounts \cup {-1} /\ high \in Amounts \cup {-1}
  BY <1>1, MaxValAssumption DEF CheckedSucc, Amounts
<1>3. low # -1 /\ high # -1 /\ low < high
  BY DEF TryFromRange, IsDemand, NoDemand
<1>4. TryFromRange(s, e) = Between(low, high)
  BY <1>3 DEF TryFromRange
<1>5. ASSUME NEW n \in Amounts
      PROVE  n \in low .. high - 1 <=>
                /\ s.how = "Included" => n >= s.at
                /\ s.how = "Excluded" => n > s.at
                /\ e.how = "Included" => n <= e.at
                /\ e.how = "Excluded" => n < e.at
                /\ e.how = "Unbounded" => n < MaxVal
  BY <1>1, <1>3, MaxValAssumption DEF CheckedSucc, Amounts
<1> HIDE DEF low, high
<1>6. /\ WellFormed(TryFromRange(s, e))
      /\ Accepts(TryFromRange(s, e)) = low .. high - 1
  <2>1. low \in Amounts /\ high \in Amounts /\ low # high
    BY <1>2, <1>3 DEF Amounts
  <2>2. Smaller(low, high) = low /\ Larger(low, high) = high
    BY <1>3, <2>1 DEF Smaller, Larger, Amounts
  <2> QED BY <1>4, <2>1, <2>2, ConstructorsAccept
<1>7. low .. high - 1 \subseteq Amounts
  BY <1>2, <1>3, MaxValAssumption DEF Amounts
<1> QED BY <1>5, <1>6, <1>7

-----------------------------------------------------------------------------
(* However many layers narrow a demand, what is agreed on is what all of them
   accept. *)
THEOREM NarrowingIsMeet == Spec => [](TypeOK /\ AgreementIsMeet)
<1>1. Init => TypeOK /\ AgreementIsMeet
  <2> SUFFICES ASSUME Init PROVE TypeOK /\ AgreementIsMeet
    OBVIOUS
  <2>1. WellFormed(agreement) /\ Accepts(agreement) = meet
    BY ConstructorsAccept DEF Init
  <2> QED BY <2>1 DEF TypeOK, AgreementIsMeet, Accepts
<1>2. TypeOK /\ AgreementIsMeet /\ [Next]_vars => (TypeOK /\ AgreementIsMeet)'
  <2> SUFFICES ASSUME TypeOK, AgreementIsMeet, [Next]_vars
               PROVE  (TypeOK /\ AgreementIsMeet)'
    OBVIOUS
  <2>1. ASSUME NEW d, WellFormed(d), IsDemand(agreement),
               agreement' = Compromise(agreement, d),
               meet' = meet \cap Accepts(d)
        PROVE  (TypeOK /\ AgreementIsMeet)'
    <3>1. WellFormed(agreement)
      BY <2>1 DEF TypeOK, IsDemand, NoDemand, Panic
    <3> QED BY <2>1, <3>1, CompromiseMeets DEF TypeOK, AgreementIsMeet
  <2>2. ASSUME NEW d \in Demands, WellFormed(d), Narrow(d)
        PROVE  (TypeOK /\ AgreementIsMeet)'
    BY <2>1, <2>2 DEF Narrow
  <2>3. ASSUME NEW s \in Bounds, NEW e \in Bounds, NarrowByRange(s, e)
        PROVE  (TypeOK /\ AgreementIsMeet)'
    <3>1. IsDemand(TryFromRange(s, e))
      BY <2>3 DEF NarrowByRange
    <3>2. /\ WellFormed(TryFromRange(s, e))
          /\ meet' = meet \cap Accepts(TryFromRange(s, e))
      BY <2>3, <3>1, RangeAccepts DEF NarrowByRange
    <3> QED BY <2>1, <2>3, <3>2 DEF NarrowByRange
  <2>4. CASE UNCHANGED vars
    BY <2>4 DEF vars, TypeOK, AgreementIsMeet
  <2> QED BY <2>2, <2>3, <2>4 DEF Next
<1> QED BY <1>1, <1>2, PTL DEF Spec

-----------------------------------------------------------------------------
(* Sequences.                                                              *)

(* One sequence after another. *)
LEMMA Concat ==
    ASSUME NEW S, NEW x \in Seq(S), NEW y \in Seq(S)
    PROVE  /\ x \o y \in Seq(S) /\ Len(x \o y) = Len(x) + Len(y)
           /\ \A i \in 1 .. Len(x) + Len(y) : (x \o y)[i] = IF i <= Len(x) THEN x[i] ELSE y[i - Len(x)]
OBVIOUS

(* One element more. *)
LEMMA OneMore ==
    ASSUME NEW S, NEW x \in Seq(S), NEW e \in S
    PROVE  /\ Append(x, e) \in Seq(S) /\ Len(Append(x, e)) = Len(x) + 1
           /\ Append(x, e)[Len(x) + 1] = e
           /\ \A i \in 1 .. Len(x) : Append(x, e)[i] = x[i]
OBVIOUS

-----------------------------------------------------------------------------
(* Induction over the naturals, on sets.                                   *)

(* A set of naturals has a least element. *)
LEMMA LeastNatural ==
    ASSUME NEW S \in SUBSET Nat, S # {}
    PROVE  \E m \in S : \A k \in S : m <= k
<1>1. PICK x \in S : \A y \in S : ~(<<y, x>> \in OpToRel(<, Nat))
  BY WFMin, NatLessThanWellFounded
<1>2. \A y \in S : ~(y < x)
  BY <1>1 DEF OpToRel
<1>3. x \in Nat /\ \A y \in S : y \in Nat
  OBVIOUS
<1> QED BY <1>2, <1>3

(* Induction, on sets. *)
LEMMA Induction ==
    ASSUME NEW S, 0 \in S, \A n \in Nat : n \in S => n + 1 \in S
    PROVE  \A n \in Nat : n \in S
<1> SUFFICES ASSUME Nat \ S # {} PROVE FALSE
  OBVIOUS
<1>1. PICK m \in Nat \ S : \A k \in Nat \ S : m <= k
  BY LeastNatural
<1>2. m # 0 /\ m - 1 \in Nat /\ m - 1 \notin Nat \ S
  BY <1>1
<1> QED BY <1>1, <1>2

-----------------------------------------------------------------------------
(* Segments: the windows of an open chain.                                 *)

Pieces == [from : Nat, len : Nat]
Segms == [a : Pieces, b : Pieces, off : Nat, commits : BOOLEAN]
Size(s) == s.a.len + s.b.len

(* The cell of a window q cells after its first. *)
CellOf(s, q) == IF q < s.a.len THEN s.a.from + q ELSE s.b.from + (q - s.a.len)

(* The cell of a buffer that begins at st, p cells after its first. *)
Cell(st, p) == (st + p) % Cap

(* The window is the cells of such a buffer from o on, and is not used beyond
   its end. *)
Covers(s, o, st) ==
    /\ o + Size(s) <= Cap /\ s.off <= Size(s)
    /\ \A q \in Nat : q < Size(s) => CellOf(s, q) = Cell(st, o + q)

(* The segments of a chain begin where the offset of their parent is, the
   first one at p, and end before it does.  o has these places, and as its
   last the place the innermost segment has got to. *)
Chained(chain, p, o, st) ==
    /\ o \in [1 .. Len(chain) + 1 -> Nat] /\ o[1] = p
    /\ \A i \in 1 .. Len(chain) : o[i + 1] = o[i] + chain[i].off /\ Covers(chain[i], o[i], st)
    /\ \A i \in 2 .. Len(chain) : o[i] + Size(chain[i]) <= o[i - 1] + Size(chain[i - 1])

(* Cells count round the end of the buffer, and no cell twice. *)
LEMMA Cells ==
    ASSUME NEW st \in 0 .. Cap - 1
    PROVE  /\ Cap \in Nat /\ Cap > 0
           /\ \A x \in Nat : x < Cap =>
                /\ Cell(st, x) \in 0 .. Cap - 1
                /\ Cell(st, x) = (IF st + x < Cap THEN st + x ELSE st + x - Cap)
                /\ (Cell(st, x) - st + Cap) % Cap = x
           /\ \A p \in 0 .. Cap - 1 : /\ (p - st + Cap) % Cap \in 0 .. Cap - 1
                                      /\ Cell(st, (p - st + Cap) % Cap) = p
<1>1. Cap \in Nat /\ Cap > 0
  BY SegmentsAssumption
<1>2. \A x \in Nat : /\ x < Cap => x % Cap = x
                     /\ Cap <= x /\ x < 2 * Cap => x % Cap = x - Cap
  BY <1>1, Z3
<1>3. ASSUME NEW x \in Nat, x < Cap
      PROVE  /\ Cell(st, x) \in 0 .. Cap - 1
             /\ Cell(st, x) = IF st + x < Cap THEN st + x ELSE st + x - Cap
             /\ (Cell(st, x) - st + Cap) % Cap = x
  <2>1. Cell(st, x) = IF st + x < Cap THEN st + x ELSE st + x - Cap
    BY <1>1, <1>2, <1>3 DEF Cell
  <2>2. CASE st + x < Cap
    <3>1. Cell(st, x) - st + Cap = x + Cap
      BY <1>1, <2>1, <2>2
    <3>2. (x + Cap) % Cap = x
      BY <1>1, <1>2, <1>3
    <3> QED BY <1>1, <2>1, <2>2, <3>1, <3>2
  <2>3. CASE ~(st + x < Cap)
    <3>1. Cell(st, x) - st + Cap = x
      BY <1>1, <2>1, <2>3
    <3>2. x % Cap = x
      BY <1>2, <1>3
    <3> QED BY <1>1, <1>3, <2>1, <2>3, <3>1, <3>2
  <2> QED BY <2>2, <2>3
<1>4. ASSUME NEW p \in 0 .. Cap - 1
      PROVE  /\ (p - st + Cap) % Cap \in 0 .. Cap - 1
             /\ Cell(st, (p - st + Cap) % Cap) = p
  <2>1. CASE p < st
    <3>1. p - st + Cap \in Nat /\ p - st + Cap < Cap
      BY <1>1, <2>1
    <3>2. (p - st + Cap) % Cap = p - st + Cap
      BY <1>2, <3>1
    <3>3. Cell(st, p - st + Cap) = p
      BY <1>1, <1>3, <2>1, <3>1
    <3> QED BY <1>1, <3>1, <3>2, <3>3
  <2>2. CASE ~(p < st)
    <3>1. p - st \in Nat /\ p - st < Cap /\ p - st + Cap \in Nat /\ Cap <= p - st + Cap /\ p - st + Cap < 2 * Cap
      BY <1>1, <2>2
    <3>2. (p - st + Cap) % Cap = p - st
      BY <1>1, <1>2, <3>1
    <3>3. Cell(st, p - st) = p
      BY <1>1, <1>3, <2>2, <3>1
    <3> QED BY <1>1, <3>1, <3>2, <3>3
  <2> QED BY <2>1, <2>2
<1> QED BY <1>1, <1>3, <1>4

(* One piece of a window. *)
LEMMA PieceCells ==
    ASSUME NEW p \in Pieces, NEW k \in Nat, k <= p.len
    PROVE  /\ CellsFrom(p, k) \in Seq(Nat) /\ Len(CellsFrom(p, k)) = p.len - k
           /\ \A j \in 1 .. p.len - k : CellsFrom(p, k)[j] = p.from + k + j - 1
<1>1. p.len \in Nat /\ p.from \in Nat /\ p.len - k \in Nat
  BY DEF Pieces
<1>2. CellsFrom(p, k) = [i \in 1 .. (p.len - k) |-> p.from + k + i - 1]
  BY DEF CellsFrom
<1>3. \A i \in 1 .. (p.len - k) : p.from + k + i - 1 \in Nat
  BY <1>1
<1>4. CellsFrom(p, k) \in [1 .. (p.len - k) -> Nat]
  BY <1>2, <1>3
<1>5. CellsFrom(p, k) \in Seq(Nat)
  BY <1>1, <1>4
<1>6. Len(CellsFrom(p, k)) = p.len - k
  BY <1>1, <1>4, <1>5
<1> QED BY <1>2, <1>5, <1>6

(* remaining_ref: the cells of a window from the offset on, in order. *)
LEMMA RemainingCells ==
    ASSUME NEW s \in Segms, NEW o \in Nat, NEW st \in 0 .. Cap - 1, Covers(s, o, st)
    PROVE  /\ LeastCount(s) \in Nat /\ LeastCount(s) = Size(s) - s.off
           /\ Remaining(s) \in Seq(Nat) /\ Len(Remaining(s)) = LeastCount(s)
           /\ \A j \in 1 .. LeastCount(s) : Remaining(s)[j] = Cell(st, o + s.off + j - 1)
<1>1. /\ s.a.from \in Nat /\ s.a.len \in Nat /\ s.b.from \in Nat /\ s.b.len \in Nat /\ s.off \in Nat
      /\ s.off <= s.a.len + s.b.len
      /\ \A q \in Nat : q < s.a.len + s.b.len => CellOf(s, q) = Cell(st, o + q)
  BY DEF Segms, Pieces, Covers, Size
<1>2. LeastCount(s) \in Nat /\ LeastCount(s) = Size(s) - s.off
  BY <1>1 DEF LeastCount, Size
<1>4. s.a \in Pieces /\ s.b \in Pieces
  BY DEF Segms
<1>5. CASE s.off < s.a.len
  <2> DEFINE x == CellsFrom(s.a, s.off)
             y == CellsFrom(s.b, 0)
  <2>1. /\ x \in Seq(Nat) /\ Len(x) = s.a.len - s.off
        /\ \A j \in 1 .. s.a.len - s.off : x[j] = s.a.from + s.off + j - 1
    <3>1. PICK a \in Pieces, k \in Nat : a = s.a /\ k = s.off
      BY <1>1, <1>4
    <3>2. k <= a.len
      BY <1>1, <1>5, <3>1
    <3>3. /\ CellsFrom(a, k) \in Seq(Nat) /\ Len(CellsFrom(a, k)) = a.len - k
          /\ \A j \in 1 .. a.len - k : CellsFrom(a, k)[j] = a.from + k + j - 1
      BY <3>2, PieceCells
    <3> QED BY <3>1, <3>3
  <2>2. /\ y \in Seq(Nat) /\ Len(y) = s.b.len
        /\ \A j \in 1 .. s.b.len : y[j] = s.b.from + j - 1
    <3>1. PICK k \in Nat : k = 0
      OBVIOUS
    <3>2. k <= s.b.len /\ s.b.len - k = s.b.len /\ s.b.from + k = s.b.from
      BY <1>1, <3>1
    <3>3. /\ CellsFrom(s.b, k) \in Seq(Nat) /\ Len(CellsFrom(s.b, k)) = s.b.len - k
          /\ \A j \in 1 .. s.b.len - k : CellsFrom(s.b, k)[j] = s.b.from + k + j - 1
      BY ONLY <1>4, <3>2, PieceCells
    <3> QED BY <3>1, <3>2, <3>3
  <2>3. Remaining(s) = x \o y
    BY <1>5 DEF Remaining
  <2> HIDE DEF x, y
  <2>4. /\ x \o y \in Seq(Nat) /\ Len(x \o y) = Len(x) + Len(y)
        /\ \A i \in 1 .. Len(x) + Len(y) : (x \o y)[i] = IF i <= Len(x) THEN x[i] ELSE y[i - Len(x)]
    BY <2>1, <2>2, Concat
  <2>5. Len(x \o y) = LeastCount(s)
    BY <1>1, <1>2, <2>1, <2>2, <2>4 DEF Size
  <2>6. ASSUME NEW j \in 1 .. LeastCount(s) PROVE (x \o y)[j] = Cell(st, o + s.off + j - 1)
    <3>1. s.off + j - 1 \in Nat /\ s.off + j - 1 < s.a.len + s.b.len
      BY <1>1, <1>2 DEF Size
    <3>2. CellOf(s, s.off + j - 1) = Cell(st, o + (s.off + j - 1))
      BY <1>1, <3>1
    <3>3. o + (s.off + j - 1) = o + s.off + j - 1
      BY <1>1, <3>1
    <3>4. (x \o y)[j] = CellOf(s, s.off + j - 1)
      <4>1. CASE j <= s.a.len - s.off
        <5>1. j \in 1 .. s.a.len - s.off /\ j \in 1 .. Len(x) + Len(y) /\ j <= Len(x)
          BY <1>1, <2>1, <2>4, <2>5, <4>1
        <5>2. (x \o y)[j] = x[j]
          BY <2>4, <5>1
        <5>3. x[j] = s.a.from + s.off + j - 1
          BY <2>1, <5>1
        <5>4. s.off + j - 1 < s.a.len
          BY <1>1, <5>1
        <5>5. CellOf(s, s.off + j - 1) = s.a.from + (s.off + j - 1)
          BY <5>4 DEF CellOf
        <5> QED BY <1>1, <5>2, <5>3, <5>5
      <4>2. CASE ~(j <= s.a.len - s.off)
        <5>1. j - (s.a.len - s.off) \in 1 .. s.b.len
          BY <1>1, <1>5, <3>1, <4>2
        <5>2. (x \o y)[j] = y[j - (s.a.len - s.off)]
          BY <1>1, <2>1, <2>4, <2>5, <4>2
        <5>3. (x \o y)[j] = s.b.from + (j - (s.a.len - s.off)) - 1
          BY <2>2, <5>1, <5>2
        <5>4. ~(s.off + j - 1 < s.a.len)
          BY <1>1, <4>2
        <5>5. CellOf(s, s.off + j - 1) = s.b.from + (s.off + j - 1 - s.a.len)
          BY <1>1, <5>4 DEF CellOf
        <5> QED BY <1>1, <5>3, <5>5
      <4> QED BY <4>1, <4>2
    <3> QED BY <3>2, <3>3, <3>4
  <2> QED BY <1>2, <2>3, <2>4, <2>5, <2>6
<1>6. CASE ~(s.off < s.a.len)
  <2> DEFINE y == CellsFrom(s.b, s.off - s.a.len)
  <2>1. s.off - s.a.len \in Nat /\ s.off - s.a.len <= s.b.len
    BY <1>1, <1>6
  <2>2. /\ y \in Seq(Nat) /\ Len(y) = s.b.len - (s.off - s.a.len)
        /\ \A j \in 1 .. s.b.len - (s.off - s.a.len) : y[j] = s.b.from + (s.off - s.a.len) + j - 1
    <3>1. PICK b \in Pieces, k \in Nat : b = s.b /\ k = s.off - s.a.len
      BY <1>4, <2>1
    <3>2. k <= b.len
      BY <2>1, <3>1
    <3>3. /\ CellsFrom(b, k) \in Seq(Nat) /\ Len(CellsFrom(b, k)) = b.len - k
          /\ \A j \in 1 .. b.len - k : CellsFrom(b, k)[j] = b.from + k + j - 1
      BY <3>2, PieceCells
    <3> QED BY <3>1, <3>3
  <2>3. Remaining(s) = y
    BY <1>6 DEF Remaining
  <2> HIDE DEF y
  <2>4. Len(y) = LeastCount(s)
    BY <1>1, <1>2, <2>2 DEF Size
  <2>5. ASSUME NEW j \in 1 .. LeastCount(s) PROVE y[j] = Cell(st, o + s.off + j - 1)
    <3>1. s.off + j - 1 \in Nat /\ s.off + j - 1 < s.a.len + s.b.len /\ ~(s.off + j - 1 < s.a.len)
      BY <1>1, <1>2, <1>6 DEF Size
    <3>2. CellOf(s, s.off + j - 1) = Cell(st, o + (s.off + j - 1))
      BY <1>1, <3>1
    <3>3. o + (s.off + j - 1) = o + s.off + j - 1
      BY <1>1, <3>1
    <3>4. y[j] = s.b.from + (s.off - s.a.len) + j - 1
      BY <2>2, <2>4
    <3>5. CellOf(s, s.off + j - 1) = s.b.from + (s.off + j - 1 - s.a.len)
      BY <1>1, <3>1 DEF CellOf
    <3> QED BY <1>1, <3>2, <3>3, <3>4, <3>5
  <2> QED BY <1>2, <2>2, <2>3, <2>4, <2>5
<1> QED BY <1>5, <1>6

(* The fields of a segment. *)
LEMMA SegmFields ==
    ASSUME NEW s \in Segms
    PROVE  /\ s.a \in Pieces /\ s.b \in Pieces /\ s.off \in Nat /\ s.commits \in BOOLEAN
           /\ s.a.from \in Nat /\ s.a.len \in Nat /\ s.b.from \in Nat /\ s.b.len \in Nat
           /\ Size(s) \in Nat /\ Size(s) = s.a.len + s.b.len
<1>1. s.a \in Pieces /\ s.b \in Pieces /\ s.off \in Nat /\ s.commits \in BOOLEAN
  BY DEF Segms
<1>2. s.a.from \in Nat /\ s.a.len \in Nat /\ s.b.from \in Nat /\ s.b.len \in Nat
  BY <1>1 DEF Pieces
<1> QED BY <1>1, <1>2 DEF Size

(* The fields of a segment made of two pieces. *)
Made(w, af, al, bf, bl, cm) ==
    /\ w = Segm(Piece(af, al), Piece(bf, bl), cm) /\ w \in Segms /\ w.off = 0 /\ w.commits = cm
    /\ w.a.from = af /\ w.a.len = al /\ w.b.from = bf /\ w.b.len = bl

(* A segment made of two pieces is one. *)
LEMMA SegmMade ==
    ASSUME NEW af \in Nat, NEW al \in Nat, NEW bf \in Nat, NEW bl \in Nat, NEW cm \in BOOLEAN
    PROVE  \E w : Made(w, af, al, bf, bl, cm)
<1>0. ASSUME NEW f \in Nat, NEW l \in Nat
      PROVE  Piece(f, l) \in Pieces /\ Piece(f, l).from = f /\ Piece(f, l).len = l
  BY ONLY f \in Nat, l \in Nat DEF Piece, Pieces
<1>1. PICK x : x = Piece(af, al) /\ x \in Pieces /\ x.from = af /\ x.len = al
  BY <1>0
<1>2. PICK y : y = Piece(bf, bl) /\ y \in Pieces /\ y.from = bf /\ y.len = bl
  BY <1>0
<1>3. PICK w : w = [a |-> x, b |-> y, off |-> 0, commits |-> cm]
  OBVIOUS
<1>4. w = Segm(Piece(af, al), Piece(bf, bl), cm)
  BY <1>1, <1>2, <1>3 DEF Segm
<1>5. w \in Segms /\ w.off = 0 /\ w.commits = cm /\ w.a = x /\ w.b = y
  BY <1>1, <1>2, <1>3 DEF Segms
<1>6. w.a.from = af /\ w.a.len = al /\ w.b.from = bf /\ w.b.len = bl
  BY ONLY <1>1, <1>2, <1>5
<1> QED BY <1>4, <1>5, <1>6, Zenon DEF Made

(* as_segm_ref and take_segm_ref: a child cut from what is left of the current
   piece covers the cells from the parent's offset on, and ends in it. *)
LEMMA ChildCovers ==
    ASSUME NEW s \in Segms, NEW o \in Nat, NEW st \in 0 .. Cap - 1, Covers(s, o, st),
           NEW m \in Nat, m <= Current(s).len,
           NEW c \in Segms, c.off = 0, c.a.from = Current(s).from, c.a.len = m, c.b.len = 0
    PROVE  /\ Covers(c, o + s.off, st)
           /\ o + s.off + Size(c) <= o + Size(s)
<1>1. /\ s.a.from \in Nat /\ s.a.len \in Nat /\ s.b.from \in Nat /\ s.b.len \in Nat /\ s.off \in Nat
      /\ s.off <= s.a.len + s.b.len /\ o + (s.a.len + s.b.len) <= Cap
      /\ \A q \in Nat : q < s.a.len + s.b.len => CellOf(s, q) = Cell(st, o + q)
  BY SegmFields DEF Covers
<1>2. /\ Current(s).from \in Nat /\ s.off + m <= s.a.len + s.b.len
      /\ \A q \in Nat : q < m => Current(s).from + q = CellOf(s, s.off + q)
  <2>1. CASE s.off < s.a.len
    <3>1. Current(s).from = s.a.from + s.off /\ Current(s).len = s.a.len - s.off
      BY <2>1 DEF Current, Piece
    <3>2. ASSUME NEW q \in Nat, q < m PROVE Current(s).from + q = CellOf(s, s.off + q)
      <4>1. s.off + q < s.a.len
        BY <1>1, <3>1, <3>2
      <4>2. CellOf(s, s.off + q) = s.a.from + (s.off + q)
        BY <4>1 DEF CellOf
      <4> QED BY <1>1, <3>1, <4>2
    <3> QED BY <1>1, <3>1, <3>2
  <2>2. CASE ~(s.off < s.a.len)
    <3>1. /\ Current(s).from = s.b.from + s.off - s.a.len
          /\ Current(s).len = s.a.len + s.b.len - s.off
      BY <2>2 DEF Current, Piece
    <3>2. ASSUME NEW q \in Nat, q < m PROVE Current(s).from + q = CellOf(s, s.off + q)
      <4>1. ~(s.off + q < s.a.len)
        BY <1>1, <2>2
      <4>2. CellOf(s, s.off + q) = s.b.from + (s.off + q - s.a.len)
        BY <1>1, <4>1 DEF CellOf
      <4> QED BY <1>1, <3>1, <4>2
    <3> QED BY <1>1, <2>2, <3>1, <3>2
  <2> QED BY <2>1, <2>2
<1>3. PICK f \in Nat : f = Current(s).from
  BY <1>2
<1>4. Size(c) = m /\ c.off = 0 /\ \A q \in Nat : q < m => CellOf(c, q) = f + q
  BY <1>3 DEF Size, CellOf
<1>5. ASSUME NEW q \in Nat, q < m PROVE CellOf(c, q) = Cell(st, o + s.off + q)
  <2>1. CellOf(c, q) = Current(s).from + q
    BY <1>3, <1>4, <1>5
  <2>2. s.off + q \in Nat /\ s.off + q < s.a.len + s.b.len /\ o + (s.off + q) = o + s.off + q
    BY <1>1, <1>2, <1>5
  <2>3. CellOf(s, s.off + q) = Cell(st, o + (s.off + q))
    BY <1>1, <2>2
  <2> QED BY <1>2, <1>5, <2>1, <2>2, <2>3
<1>6. Cap \in Nat
  BY SegmentsAssumption
<1>7. o + s.off + m <= o + (s.a.len + s.b.len) /\ o + s.off + m <= Cap
  BY <1>1, <1>2, <1>6
<1>8. Covers(c, o + s.off, st)
  BY ONLY <1>4, <1>5, <1>7, m \in Nat DEF Covers
<1>9. Size(s) = s.a.len + s.b.len
  BY DEF Size
<1> QED BY <1>4, <1>7, <1>8, <1>9

(* create_read_segm, create_write_segm: the cells from pos on, round the end. *)
LEMMA WindowCovers ==
    ASSUME start \in 0 .. Cap - 1, NEW pos \in Nat, pos < Cap, NEW n \in Nat, pos + n <= Cap,
           NEW commits \in BOOLEAN, NEW w, w = Window(pos, n, commits)
    PROVE  /\ w \in Segms /\ w.off = 0 /\ w.commits = commits /\ Covers(w, pos, start)
<1>1. Cap \in Nat /\ Cap > 0
  BY SegmentsAssumption
<1>2. PICK at : at = Cell(start, pos)
  OBVIOUS
<1>3. /\ at \in 0 .. Cap - 1
      /\ at = (IF start + pos < Cap THEN start + pos ELSE start + pos - Cap)
  BY <1>2, Cells
<1>4. ASSUME NEW q \in Nat, q < n
      PROVE  Cell(start, pos + q) = (IF at + q < Cap THEN at + q ELSE at + q - Cap)
  <2>1. pos + q \in Nat /\ pos + q < Cap
    BY <1>1, <1>4
  <2>2. Cell(start, pos + q) = (IF start + (pos + q) < Cap THEN start + (pos + q) ELSE start + (pos + q) - Cap)
    BY <2>1, Cells
  <2> QED BY <1>1, <1>3, <1>4, <2>2
<1>5. CASE at + n <= Cap
  <2>0. PICK z \in Nat : z = 0
    OBVIOUS
  <2>1. w = Segm(Piece(at, n), Piece(z, z), commits) /\ at \in Nat
    BY <1>2, <1>3, <1>5, <2>0 DEF Window, Cell, NoPiece
  <2>2. /\ w \in Segms /\ w.off = 0 /\ w.commits = commits
        /\ w.a.from = at /\ w.a.len = n /\ w.b.from = z /\ w.b.len = z
    <3>1. PICK v : Made(v, at, n, z, z, commits)
      BY <2>1, SegmMade, Zenon
    <3> QED BY <2>1, <3>1, Zenon DEF Made
  <2>3. ASSUME NEW q \in Nat, q < n PROVE CellOf(w, q) = Cell(start, pos + q)
    <3>1. CellOf(w, q) = at + q
      BY <2>2, <2>3 DEF CellOf
    <3>2. at + q < Cap
      BY <1>1, <1>3, <1>5, <2>3
    <3> QED BY <1>4, <2>3, <3>1, <3>2
  <2>4. Size(w) = n
    BY <2>0, <2>2 DEF Size
  <2> QED BY <2>2, <2>3, <2>4 DEF Covers
<1>6. CASE ~(at + n <= Cap)
  <2>1. Cap - at \in Nat /\ n - (Cap - at) \in Nat /\ at \in Nat
    BY <1>1, <1>3, <1>6
  <2>6. PICK z \in Nat : z = 0
    OBVIOUS
  <2>7. PICK al \in Nat, bl \in Nat : al = Cap - at /\ bl = n - (Cap - at)
    BY <2>1
  <2>2. w = Segm(Piece(at, al), Piece(z, bl), commits)
    BY <1>2, <1>6, <2>6, <2>7 DEF Window, Cell
  <2>3. /\ w \in Segms /\ w.off = 0 /\ w.commits = commits
        /\ w.a.from = at /\ w.a.len = al /\ w.b.from = z /\ w.b.len = bl
    <3>1. PICK v : Made(v, at, al, z, bl, commits)
      BY <2>1, SegmMade, ZenonT(60)
    <3> QED BY <2>2, <3>1, Zenon DEF Made
  <2>4. ASSUME NEW q \in Nat, q < n PROVE CellOf(w, q) = Cell(start, pos + q)
    <3>1. CellOf(w, q) = (IF q < al THEN at + q ELSE z + (q - al))
      BY <2>3 DEF CellOf
    <3>2. Cell(start, pos + q) = (IF at + q < Cap THEN at + q ELSE at + q - Cap)
      BY <1>4, <2>4
    <3>3. CASE q < al
      BY <1>1, <2>1, <2>7, <3>1, <3>2, <3>3
    <3>4. CASE ~(q < al)
      BY <1>1, <2>1, <2>6, <2>7, <3>1, <3>2, <3>4
    <3> QED BY <3>3, <3>4
  <2>5. Size(w) = n
    BY <1>1, <1>3, <2>3, <2>7 DEF Size
  <2> QED BY <2>3, <2>4, <2>5 DEF Covers
<1> QED BY <1>5, <1>6

(* The chain begins at p, and its innermost segment has got to x. *)
ReachesBy(chain, p, x, st, o) == Chained(chain, p, o, st) /\ o[Len(chain) + 1] = x
Reaches(chain, p, x, st) == \E o : ReachesBy(chain, p, x, st, o)

(* Without open segments. *)
LEMMA ChainEmpty ==
    ASSUME NEW p \in Nat, NEW st
    PROVE  /\ Reaches(<< >>, p, p, st)
           /\ \A x : Reaches(<< >>, p, x, st) => x = p
<1>1. ReachesBy(<< >>, p, p, st, [i \in 1 .. 1 |-> p])
  <2>1. Len(<< >>) = 0
    OBVIOUS
  <2> QED BY <2>1 DEF ReachesBy, Chained
<1>2. ASSUME NEW x, Reaches(<< >>, p, x, st) PROVE x = p
  <2>1. PICK o : ReachesBy(<< >>, p, x, st, o)
    BY <1>2 DEF Reaches
  <2>2. Len(<< >>) + 1 = 1
    OBVIOUS
  <2> QED BY <2>1, <2>2 DEF ReachesBy, Chained
<1>3. Reaches(<< >>, p, p, st)
  BY <1>1 DEF Reaches
<1> QED BY <1>2, <1>3

(* A root segment has just been lent. *)
LEMMA ChainRoot ==
    ASSUME NEW p \in Nat, NEW st, NEW w \in Segms, w.off = 0, Covers(w, p, st)
    PROVE  <<w>> \in Seq(Segms) /\ Len(<<w>>) = 1 /\ <<w>>[1] = w /\ Reaches(<<w>>, p, p, st)
<1>1. <<w>> \in Seq(Segms) /\ Len(<<w>>) = 1 /\ <<w>>[1] = w
  OBVIOUS
<1>2. PICK o : o = [i \in 1 .. 2 |-> p]
  OBVIOUS
<1>3. o \in [1 .. Len(<<w>>) + 1 -> Nat] /\ o[1] = p /\ o[2] = p
  BY <1>1, <1>2
<1>4. ReachesBy(<<w>>, p, p, st, o)
  BY <1>1, <1>3 DEF ReachesBy, Chained
<1> QED BY <1>1, <1>4 DEF Reaches

(* What is left of the innermost segment is the cells from x on. *)
LEMMA ReachedCells ==
    ASSUME NEW chain \in Seq(Segms), chain # << >>, NEW p, NEW x, NEW st \in 0 .. Cap - 1,
           Reaches(chain, p, x, st)
    PROVE  /\ x \in Nat /\ Last(chain) \in Segms
           /\ LeastCount(Last(chain)) \in Nat /\ x + LeastCount(Last(chain)) <= Cap
           /\ Remaining(Last(chain)) \in Seq(Nat)
           /\ Len(Remaining(Last(chain))) = LeastCount(Last(chain))
           /\ \A j \in 1 .. LeastCount(Last(chain)) : Remaining(Last(chain))[j] = Cell(st, x + j - 1)
<1>1. PICK o : ReachesBy(chain, p, x, st, o)
  BY DEF Reaches
<1>2. PICK s \in Segms : s = Last(chain) /\ s = chain[Len(chain)] /\ Len(chain) \in 1 .. Len(chain)
  BY DEF Last
<1>3. PICK y \in Nat : y = o[Len(chain)]
  BY <1>1, <1>2 DEF ReachesBy, Chained
<1>4. Covers(s, y, st) /\ x = y + s.off /\ s.off \in Nat
  BY <1>1, <1>2, <1>3 DEF ReachesBy, Chained, Segms
<1>5. /\ LeastCount(s) \in Nat /\ LeastCount(s) = Size(s) - s.off
      /\ Remaining(s) \in Seq(Nat) /\ Len(Remaining(s)) = LeastCount(s)
      /\ \A j \in 1 .. LeastCount(s) : Remaining(s)[j] = Cell(st, y + s.off + j - 1)
  BY <1>4, RemainingCells
<1>6. y + Size(s) <= Cap /\ Size(s) \in Nat /\ Cap \in Nat
  BY <1>4, SegmFields, SegmentsAssumption DEF Covers
<1>7. x \in Nat /\ x + LeastCount(s) <= Cap
  BY <1>4, <1>5, <1>6, SMTT(60)
<1> QED BY <1>2, <1>4, <1>5, <1>7

(* A child opened where the innermost segment has got to. *)
LEMMA ChainChild ==
    ASSUME NEW chain \in Seq(Segms), chain # << >>, NEW p, NEW x, NEW st \in 0 .. Cap - 1,
           Reaches(chain, p, x, st),
           NEW m \in Nat, m <= Current(Last(chain)).len,
           NEW c \in Segms, c.off = 0, c.a.from = Current(Last(chain)).from, c.a.len = m, c.b.len = 0
    PROVE  /\ Append(chain, c) \in Seq(Segms) /\ Append(chain, c) # << >>
           /\ Append(chain, c)[1] = chain[1]
           /\ Reaches(Append(chain, c), p, x, st)
<1>1. PICK o : ReachesBy(chain, p, x, st, o)
  BY DEF Reaches
<1>2. PICK n \in Nat : n = Len(chain) /\ n >= 1
  OBVIOUS
<1>3. PICK s \in Segms : s = Last(chain) /\ s = chain[n]
  BY <1>2 DEF Last
<1>4. /\ o \in [1 .. n + 1 -> Nat] /\ o[1] = p /\ o[n + 1] = x /\ x \in Nat
      /\ \A i \in 1 .. n : o[i + 1] = o[i] + chain[i].off /\ Covers(chain[i], o[i], st)
      /\ \A i \in 2 .. n : o[i] + Size(chain[i]) <= o[i - 1] + Size(chain[i - 1])
  BY <1>1, <1>2 DEF ReachesBy, Chained
<1>5. PICK y \in Nat : y = o[n] /\ x = y + s.off /\ Covers(s, y, st)
  BY <1>2, <1>3, <1>4
<1>6. c \in Segms /\ c.off = 0 /\ Covers(c, x, st) /\ x + Size(c) <= y + Size(s)
  <2>1. m <= Current(s).len /\ c.a.from = Current(s).from
    BY <1>3
  <2>2. /\ Covers(c, y + s.off, st)
        /\ y + s.off + Size(c) <= y + Size(s)
    BY <1>5, <2>1, ChildCovers
  <2> QED BY <1>5, <2>2
<1>7. PICK d : d = Append(chain, c)
  OBVIOUS
<1>8. /\ d \in Seq(Segms) /\ Len(d) = n + 1 /\ d[n + 1] = c
      /\ \A i \in 1 .. n : d[i] = chain[i]
  BY ONLY <1>2, <1>6, <1>7, OneMore, chain \in Seq(Segms)
<1>9. PICK q : q = [i \in 1 .. n + 2 |-> IF i = n + 2 THEN x ELSE o[i]]
  OBVIOUS
<1>10. /\ q \in [1 .. (n + 1) + 1 -> Nat] /\ q[1] = p /\ q[(n + 1) + 1] = x /\ q[n + 1] = x
       /\ \A i \in 1 .. n + 1 : q[i] = o[i]
  BY <1>2, <1>4, <1>9
<1>11. \A i \in 1 .. n + 1 : q[i + 1] = q[i] + d[i].off /\ Covers(d[i], q[i], st)
  <2> TAKE i \in 1 .. n + 1
  <2>1. CASE i = n + 1
    <3>1. q[i + 1] = x /\ q[i] = x /\ d[i] = c
      BY <1>8, <1>10, <2>1
    <3>2. x + c.off = x
      <4>1. c.off = 0 /\ x \in Nat
        BY <1>4, <1>6
      <4> QED BY ONLY <4>1
    <3> QED BY <1>6, <3>1, <3>2
  <2>2. CASE i # n + 1
    <3>1. i \in 1 .. n /\ i + 1 \in 1 .. n + 1
      BY <1>2, <2>2
    <3> QED BY <1>4, <1>8, <1>10, <3>1
  <2> QED BY <2>1, <2>2
<1>12. \A i \in 2 .. n + 1 : q[i] + Size(d[i]) <= q[i - 1] + Size(d[i - 1])
  <2> TAKE i \in 2 .. n + 1
  <2>1. CASE i = n + 1
    <3>1. n \in 1 .. n + 1 /\ n \in 1 .. n /\ i - 1 = n
      BY <1>2, <2>1
    <3> QED BY <1>3, <1>5, <1>6, <1>8, <1>10, <2>1, <3>1
  <2>2. CASE i # n + 1
    <3>1. i \in 1 .. n /\ i - 1 \in 1 .. n /\ i \in 2 .. n /\ i \in 1 .. n + 1 /\ i - 1 \in 1 .. n + 1
      BY <1>2, <2>2
    <3> QED BY <1>4, <1>8, <1>10, <3>1
  <2> QED BY <2>1, <2>2
<1>13. ReachesBy(d, p, x, st, q)
  BY <1>8, <1>10, <1>11, <1>12 DEF ReachesBy, Chained
<1>14. d # << >> /\ d[1] = chain[1]
  BY <1>2, <1>8
<1> QED BY <1>7, <1>8, <1>13, <1>14 DEF Reaches

(* The innermost segment is used for n cells more. *)
LEMMA ChainAdvance ==
    ASSUME NEW chain \in Seq(Segms), chain # << >>, NEW p, NEW x, NEW st \in 0 .. Cap - 1,
           Reaches(chain, p, x, st), NEW n \in Nat, n <= LeastCount(Last(chain))
    PROVE  /\ Advanced(chain, n) \in Seq(Segms) /\ Len(Advanced(chain, n)) = Len(chain)
           /\ Advanced(chain, n)[1].commits = chain[1].commits
           /\ LeastCount(Last(Advanced(chain, n))) = LeastCount(Last(chain)) - n
           /\ Reaches(Advanced(chain, n), p, x + n, st)
<1>1. PICK o : ReachesBy(chain, p, x, st, o)
  BY DEF Reaches
<1>2. PICK k \in Nat : k = Len(chain) /\ k >= 1
  OBVIOUS
<1>3. PICK s \in Segms : s = Last(chain) /\ s = chain[k]
  BY <1>2 DEF Last
<1>4. /\ o \in [1 .. k + 1 -> Nat] /\ o[1] = p /\ o[k + 1] = x /\ x \in Nat
      /\ \A i \in 1 .. k : o[i + 1] = o[i] + chain[i].off /\ Covers(chain[i], o[i], st)
      /\ \A i \in 2 .. k : o[i] + Size(chain[i]) <= o[i - 1] + Size(chain[i - 1])
  BY <1>1, <1>2 DEF ReachesBy, Chained
<1>5. PICK y \in Nat : y = o[k] /\ x = y + s.off /\ Covers(s, y, st)
  BY <1>2, <1>3, <1>4
<1>6. PICK t : t = [s EXCEPT !.off = s.off + n]
  OBVIOUS
<1>7. s.off + n \in Nat /\ s.off + n <= Size(s) /\ LeastCount(s) = Size(s) - s.off
  <2>1. LeastCount(s) = Size(s) - s.off /\ LeastCount(s) \in Nat
    BY <1>5, RemainingCells
  <2> QED BY <1>3, <2>1, SegmFields
<1>8. t \in Segms /\ t.off = s.off + n /\ t.a = s.a /\ t.b = s.b /\ t.commits = s.commits
  BY ONLY <1>6, <1>7, s \in Segms DEF Segms
<1>9. Size(t) = Size(s) /\ \A q : CellOf(t, q) = CellOf(s, q)
  BY ONLY <1>8 DEF Size, CellOf
<1>10. Covers(t, y, st)
  BY <1>5, <1>7, <1>8, <1>9 DEF Covers
<1>11. LeastCount(t) = LeastCount(s) - n
  BY <1>7, <1>8, <1>9, <1>10, RemainingCells, SegmFields, SMTT(60)
<1>12. PICK d : d = [chain EXCEPT ![k] = t]
  OBVIOUS
<1>13. d = Advanced(chain, n)
  BY ONLY <1>2, <1>3, <1>6, <1>12 DEF Advanced
<1>14. /\ d \in Seq(Segms) /\ Len(d) = k /\ d[k] = t
       /\ \A i \in 1 .. k : i # k => d[i] = chain[i]
  BY ONLY <1>2, <1>8, <1>12, chain \in Seq(Segms)
<1>15. \A i \in 1 .. k : Size(d[i]) = Size(chain[i]) /\ d[i].commits = chain[i].commits
  BY <1>3, <1>8, <1>9, <1>14
<1>16. PICK q : q = [o EXCEPT ![k + 1] = x + n]
  OBVIOUS
<1>17. /\ q \in [1 .. k + 1 -> Nat] /\ q[1] = p /\ q[k + 1] = x + n
       /\ \A i \in 1 .. k : q[i] = o[i]
  BY <1>2, <1>4, <1>16
<1>18. \A i \in 1 .. k : q[i + 1] = q[i] + d[i].off /\ Covers(d[i], q[i], st)
  <2> TAKE i \in 1 .. k
  <2>1. CASE i = k
    <3>1. q[i + 1] = x + n /\ q[i] = y /\ d[i] = t
      BY <1>2, <1>5, <1>14, <1>17, <2>1
    <3>2. x + n = y + (s.off + n)
      BY <1>5, SegmFields
    <3> QED BY <1>8, <1>10, <3>1, <3>2
  <2>2. CASE i # k
    <3>1. i \in 1 .. k /\ i + 1 \in 1 .. k
      BY <1>2, <2>2
    <3> QED BY <1>4, <1>14, <1>17, <2>2, <3>1
  <2> QED BY <2>1, <2>2
<1>19. \A i \in 2 .. k : q[i] + Size(d[i]) <= q[i - 1] + Size(d[i - 1])
  <2> TAKE i \in 2 .. k
  <2>1. i \in 1 .. k /\ i - 1 \in 1 .. k /\ i \in 2 .. k
    BY <1>2
  <2> QED BY <1>4, <1>15, <1>17, <2>1
<1>20. ReachesBy(d, p, x + n, st, q)
  BY <1>14, <1>17, <1>18, <1>19 DEF ReachesBy, Chained
<1>21. Last(d) = t /\ d[1].commits = chain[1].commits
  BY <1>2, <1>14, <1>15 DEF Last
<1> QED BY <1>2, <1>3, <1>11, <1>13, <1>14, <1>20, <1>21 DEF Reaches

(* Drop of a child: the chain has got as far as before. *)
LEMMA ChainDrop ==
    ASSUME NEW chain \in Seq(Segms), Len(chain) > 1, NEW p, NEW x, NEW st \in 0 .. Cap - 1,
           Reaches(chain, p, x, st)
    PROVE  /\ Popped(chain) \in Seq(Segms) /\ Popped(chain) # << >>
           /\ Popped(chain)[1].commits = chain[1].commits
           /\ Reaches(Popped(chain), p, x, st)
<1>1. PICK o : ReachesBy(chain, p, x, st, o)
  BY DEF Reaches
<1>2. PICK k \in Nat : k + 1 = Len(chain) /\ k >= 1
  <2>1. Len(chain) - 1 \in Nat /\ Len(chain) - 1 >= 1 /\ (Len(chain) - 1) + 1 = Len(chain)
    OBVIOUS
  <2> QED BY <2>1
<1>3. PICK s \in Segms : s = Last(chain) /\ s = chain[k + 1]
  BY <1>2 DEF Last
<1>4. PICK r \in Segms : r = chain[k]
  BY <1>2
<1>5. /\ o \in [1 .. (k + 1) + 1 -> Nat] /\ o[1] = p /\ o[(k + 1) + 1] = x /\ x \in Nat
      /\ \A i \in 1 .. k + 1 : o[i + 1] = o[i] + chain[i].off /\ Covers(chain[i], o[i], st)
      /\ \A i \in 2 .. k + 1 : o[i] + Size(chain[i]) <= o[i - 1] + Size(chain[i - 1])
  <2>1. /\ o \in [1 .. Len(chain) + 1 -> Nat] /\ o[1] = p /\ o[Len(chain) + 1] = x
        /\ \A i \in 1 .. Len(chain) : o[i + 1] = o[i] + chain[i].off /\ Covers(chain[i], o[i], st)
        /\ \A i \in 2 .. Len(chain) : o[i] + Size(chain[i]) <= o[i - 1] + Size(chain[i - 1])
    BY <1>1 DEF ReachesBy, Chained
  <2>2. PICK j : j = k + 1 /\ j = Len(chain)
    BY <1>2
  <2>3. x \in Nat
    BY <2>1
  <2> QED BY <2>1, <2>2, <2>3, Zenon
<1>6. PICK y \in Nat, z \in Nat : y = o[k + 1] /\ z = o[k]
  BY <1>2, <1>5
<1>7. x = y + s.off /\ Covers(s, y, st) /\ y = z + r.off /\ Covers(r, z, st)
  BY <1>2, <1>3, <1>4, <1>5, <1>6, SMTT(60)
<1>8. y + Size(s) <= z + Size(r)
  <2>1. k + 1 \in 2 .. k + 1 /\ (k + 1) - 1 = k
    BY <1>2
  <2> QED BY <1>3, <1>4, <1>5, <1>6, <2>1
<1>9. PICK f : f = FrontOf(chain)
  OBVIOUS
<1>10. f \in Seq(Segms) /\ Len(f) = k /\ \A i \in 1 .. k : f[i] = chain[i]
  <2>1. f = SubSeq(chain, 1, k) /\ k <= Len(chain)
    BY <1>2, <1>9 DEF FrontOf
  <2>2. f \in Seq(Segms)
    BY <1>2, <2>1
  <2>3. Len(f) = k
    BY <1>2, <2>1
  <2> QED BY <1>2, <2>1, <2>2, <2>3
<1>11. PICK q : q = [i \in 1 .. k + 1 |-> o[i]]
  OBVIOUS
<1>12. /\ q \in [1 .. k + 1 -> Nat] /\ q[1] = p /\ q[k + 1] = y
       /\ \A i \in 1 .. k + 1 : q[i] = o[i]
  BY <1>2, <1>5, <1>6, <1>11
<1>13. \A i \in 1 .. k : q[i + 1] = q[i] + f[i].off /\ Covers(f[i], q[i], st)
  <2> TAKE i \in 1 .. k
  <2>1. i \in 1 .. k + 1 /\ i + 1 \in 1 .. k + 1
    BY <1>2
  <2> QED BY <1>5, <1>10, <1>12, <2>1
<1>14. \A i \in 2 .. k : q[i] + Size(f[i]) <= q[i - 1] + Size(f[i - 1])
  <2> TAKE i \in 2 .. k
  <2>1. i \in 1 .. k + 1 /\ i - 1 \in 1 .. k + 1 /\ i \in 1 .. k /\ i - 1 \in 1 .. k /\ i \in 2 .. k + 1
    BY <1>2
  <2> QED BY <1>5, <1>10, <1>12, <2>1
<1>15. Reaches(f, p, y, st)
  <2>1. ReachesBy(f, p, y, st, q)
    BY <1>10, <1>12, <1>13, <1>14 DEF ReachesBy, Chained
  <2> QED BY <2>1 DEF Reaches
<1>16. PICK n \in Nat : n = s.off
  BY SegmFields
<1>17. f # << >> /\ Last(f) = r /\ f[1] = chain[1]
  BY <1>2, <1>4, <1>10 DEF Last
<1>18. n <= LeastCount(Last(f))
  <2>1. LeastCount(r) = Size(r) - r.off
    BY <1>7, RemainingCells
  <2>2. n <= Size(s)
    BY <1>7, <1>16 DEF Covers
  <2>3. Size(s) \in Nat /\ Size(r) \in Nat /\ r.off \in Nat
    BY SegmFields
  <2>4. n <= Size(r) - r.off
    <3>1. PICK a \in Nat, b \in Nat, c \in Nat : a = Size(s) /\ b = Size(r) /\ c = r.off
      BY <2>3
    <3>2. y + a <= z + b /\ y = z + c /\ n <= a
      BY <1>7, <1>8, <2>2, <3>1
    <3>3. n <= b - c
      BY ONLY <3>2, y \in Nat, z \in Nat, a \in Nat, b \in Nat, c \in Nat, n \in Nat
    <3> QED BY <3>1, <3>3
  <2> QED BY <1>17, <2>1, <2>4
<1>19. /\ Advanced(f, n) \in Seq(Segms) /\ Len(Advanced(f, n)) = Len(f)
       /\ Advanced(f, n)[1].commits = f[1].commits
       /\ Reaches(Advanced(f, n), p, y + n, st)
  BY <1>10, <1>15, <1>17, <1>18, ChainAdvance
<1>20. Popped(chain) = Advanced(f, n)
  <2>1. Len(chain) # 1
    BY <1>2
  <2>2. Last(chain).off = n
    BY ONLY <1>3, <1>16
  <2> QED BY ONLY <1>9, <2>1, <2>2 DEF Popped
<1>21. y + n = x
  BY <1>7, <1>16
<1>22. Advanced(f, n) # << >>
  BY <1>2, <1>10, <1>19
<1> QED BY <1>17, <1>19, <1>20, <1>21, <1>22

(* Drop of the root: the buffer's position is where the chain has got to. *)
LEMMA RootOffset ==
    ASSUME NEW chain \in Seq(Segms), Len(chain) = 1, NEW p, NEW x, NEW st,
           Reaches(chain, p, x, st)
    PROVE  p \in Nat /\ x \in Nat /\ x = p + chain[1].off
<1>1. PICK o : ReachesBy(chain, p, x, st, o)
  BY DEF Reaches
<1>2. o \in [1 .. 2 -> Nat] /\ o[1] = p /\ o[2] = x /\ o[1 + 1] = o[1] + chain[1].off
  BY <1>1 DEF ReachesBy, Chained
<1> QED BY <1>2

(* The offsets of a chain add up to how far it has got. *)
LEMMA FlightIsReached ==
    ASSUME NEW chain \in Seq(Segms), chain # << >>, chain[1].commits, NEW p, NEW x, NEW st,
           Reaches(chain, p, x, st)
    PROVE  InFlight(chain) = x - p /\ p \in Nat /\ x \in Nat
<1>1. PICK o : ReachesBy(chain, p, x, st, o)
  BY DEF Reaches
<1>2. PICK k \in Nat : k = Len(chain) /\ k >= 1
  OBVIOUS
<1>3. /\ o \in [1 .. k + 1 -> Nat] /\ o[1] = p /\ o[k + 1] = x /\ x \in Nat /\ p \in Nat
      /\ \A i \in 1 .. k : o[i + 1] = o[i] + chain[i].off
  BY <1>1, <1>2 DEF ReachesBy, Chained
<1> DEFINE Rec(f) == f = [i \in 0 .. k |-> IF i = 0 THEN 0 ELSE f[i - 1] + chain[i].off]
           F == CHOOSE f : Rec(f)
<1>4. PICK g : g = [i \in 0 .. k |-> o[i + 1] - p]
  OBVIOUS
<1>5. ASSUME NEW i \in 1 .. k
      PROVE  g[i] = g[i - 1] + chain[i].off /\ g[i] \in Int /\ chain[i].off \in Nat
  <2>1. i - 1 \in 0 .. k /\ i \in 0 .. k /\ (i - 1) + 1 = i
    BY <1>2
  <2>2. g[i] = o[i + 1] - p /\ g[i - 1] = o[i] - p
    BY <1>4, <2>1
  <2>3. chain[i].off \in Nat /\ o[i] \in Nat
    BY <1>2, <1>3, SegmFields
  <2>4. o[i + 1] = o[i] + chain[i].off
    BY <1>3
  <2>5. PICK a \in Nat, b \in Nat : a = o[i] /\ b = chain[i].off
    BY <2>3
  <2>6. g[i] = (a + b) - p /\ g[i - 1] = a - p
    BY <2>2, <2>4, <2>5
  <2>7. (a + b) - p = (a - p) + b /\ (a + b) - p \in Int
    BY <1>3
  <2> QED BY ONLY <2>5, <2>6, <2>7
<1>6. g[0] = 0
  BY <1>2, <1>3, <1>4
<1>7. Rec(g)
  <2>1. \A i \in 0 .. k : g[i] = IF i = 0 THEN 0 ELSE g[i - 1] + chain[i].off
    BY <1>2, <1>5, <1>6
  <2>2. g = [i \in 0 .. k |-> g[i]]
    BY <1>4
  <2> QED BY <2>1, <2>2
<1>8. Rec(F)
  BY <1>7
<1>9. InFlight(chain) = F[k]
  BY <1>2 DEF InFlight
<1> HIDE DEF F
<1>10. F[0] = 0 /\ \A i \in 1 .. k : F[i] = F[i - 1] + chain[i].off
  <2>1. \A i \in 0 .. k : F[i] = IF i = 0 THEN 0 ELSE F[i - 1] + chain[i].off
    BY <1>8
  <2> QED BY <1>2, <2>1
<1> DEFINE S == {i \in Nat : i <= k => F[i] = g[i]}
<1>11. 0 \in S
  BY <1>6, <1>10
<1>12. ASSUME NEW i \in Nat, i \in S PROVE i + 1 \in S
  <2>1. CASE i + 1 <= k
    <3>1. i + 1 \in 1 .. k /\ (i + 1) - 1 = i /\ F[i] = g[i]
      BY <1>2, <1>12, <2>1
    <3>2. F[i + 1] = F[i] + chain[i + 1].off
      BY <1>10, <3>1
    <3>3. g[i + 1] = g[i] + chain[i + 1].off
      BY <1>5, <3>1
    <3> QED BY <3>1, <3>2, <3>3
  <2>2. CASE ~(i + 1 <= k)
    BY <2>2
  <2> QED BY <2>1, <2>2
<1> HIDE DEF S
<1>13. \A i \in Nat : i \in S
  BY <1>11, <1>12, Induction
<1>14. F[k] = g[k]
  BY <1>2, <1>13 DEF S
<1>15. g[k] = x - p
  BY <1>2, <1>3, <1>4
<1> QED BY <1>3, <1>9, <1>14, <1>15

(* A child cut from what is left of the current piece. *)
IsChild(s, c, m) == /\ c \in Segms /\ c.off = 0 /\ m \in Nat /\ m <= Current(s).len
                    /\ c.a.from = Current(s).from /\ c.a.len = m /\ c.b.len = 0

(* The current piece. *)
LEMMA CurrentPiece ==
    ASSUME NEW s \in Segms, s.off <= Size(s)
    PROVE  \E f \in Nat, l \in Nat : Current(s) = Piece(f, l) /\ Piece(f, l).from = f /\ Piece(f, l).len = l
<1>1. /\ s.a.from \in Nat /\ s.a.len \in Nat /\ s.b.from \in Nat /\ s.b.len \in Nat /\ s.off \in Nat
      /\ s.off <= s.a.len + s.b.len
  BY SegmFields
<1>2. \A f, l : Piece(f, l).from = f /\ Piece(f, l).len = l
  BY DEF Piece
<1>3. CASE s.off < s.a.len
  <2>1. PICK f \in Nat, l \in Nat : f = s.a.from + s.off /\ l = s.a.len - s.off
    BY <1>1, <1>3
  <2>2. Current(s) = Piece(f, l)
    BY <1>3, <2>1 DEF Current
  <2> QED BY <1>2, <2>2
<1>4. CASE ~(s.off < s.a.len)
  <2>1. PICK f \in Nat, l \in Nat : f = s.b.from + s.off - s.a.len /\ l = s.a.len + s.b.len - s.off
    <3>1. s.b.from + s.off - s.a.len \in Nat /\ s.a.len + s.b.len - s.off \in Nat
      BY <1>1, <1>4
    <3> QED BY <3>1
  <2>2. Current(s) = Piece(f, l)
    BY <1>4, <2>1 DEF Current
  <2> QED BY <1>2, <2>2
<1> QED BY <1>3, <1>4

(* A child of m cells. *)
LEMMA ChildMade ==
    ASSUME NEW s \in Segms, s.off <= Size(s), NEW m \in Nat, m <= Current(s).len
    PROVE  \E c : c = Segm(Piece(Current(s).from, m), NoPiece, TRUE) /\ IsChild(s, c, m)
<1>1. PICK f \in Nat, l \in Nat : Current(s) = Piece(f, l) /\ Piece(f, l).from = f
  BY CurrentPiece
<1>2. Current(s).from = f
  BY <1>1
<1>3. PICK z \in Nat : z = 0
  OBVIOUS
<1>4. TRUE \in BOOLEAN
  OBVIOUS
<1>5. PICK c : Made(c, f, m, z, z, TRUE)
  BY <1>4, SegmMade, Zenon
<1>6. c = Segm(Piece(Current(s).from, m), NoPiece, TRUE)
  BY <1>2, <1>3, <1>5, Zenon DEF Made, NoPiece
<1>7. c \in Segms /\ c.off = 0 /\ c.a.from = f /\ c.a.len = m /\ c.b.len = z
  BY <1>5, Zenon DEF Made
<1>8. IsChild(s, c, m)
  BY ONLY <1>2, <1>3, <1>7, m \in Nat, m <= Current(s).len DEF IsChild
<1> QED BY <1>6, <1>8, Zenon

(* The maximum of what a demand and a count agree on. *)
LEMMA AgreedMax ==
    ASSUME NEW d, WellFormed(d), NEW n \in Nat, IsDemand(Compromise(d, LessThan(n)))
    PROVE  Compromise(d, LessThan(n)).hi \in Nat
<1>1. /\ d.kind \in {"AtLeast", "LessThan", "Range"} /\ d.lo \in Nat /\ d.hi \in Nat
  BY MaxValAssumption DEF WellFormed, Demands, AtLeast, LessThan, Range, Amounts
<1>2. LessThan(n).kind = "LessThan" /\ LessThan(n).hi = n
  BY DEF LessThan
<1>3. \A a, b \in Nat : Between(a, b).hi \in Nat
  BY DEF Between, Range, Panic
<1>4. \A a, b \in Nat : Smaller(a, b) \in Nat
  BY DEF Smaller
<1>5. CASE d.kind = "AtLeast"
  <2>1. Compromise(d, LessThan(n)) = IF d.lo <= n THEN Between(d.lo, n) ELSE NoDemand
    BY <1>2, <1>5 DEF Compromise
  <2> QED BY <1>1, <1>3, <2>1 DEF NoDemand
<1>6. CASE d.kind = "LessThan"
  <2>1. Compromise(d, LessThan(n)) = LessThan(Smaller(d.hi, n))
    BY <1>2, <1>6 DEF Compromise
  <2>2. PICK u \in Nat : u = Smaller(d.hi, n)
    BY <1>1, <1>4
  <2> QED BY <2>1, <2>2 DEF LessThan
<1>7. CASE d.kind = "Range"
  <2>1. Compromise(d, LessThan(n)) = IF d.lo <= n THEN Between(d.lo, Smaller(n, d.hi)) ELSE NoDemand
    BY <1>2, <1>7 DEF Compromise
  <2>2. PICK u \in Nat : u = Smaller(n, d.hi)
    BY <1>1, <1>4
  <2>3. Between(d.lo, u).hi \in Nat
    BY <1>1, <1>3
  <2> QED BY <2>1, <2>2, <2>3 DEF NoDemand
<1> QED BY <1>1, <1>5, <1>6, <1>7

(* as_segm_ref, as_segm_mut. *)
LEMMA AsSegmIsChild ==
    ASSUME NEW s \in Segms, s.off <= Size(s)
    PROVE  \E c, m : c = AsSegm(s) /\ IsChild(s, c, m)
<1>1. PICK f \in Nat, l \in Nat : Current(s) = Piece(f, l) /\ Piece(f, l).from = f /\ Piece(f, l).len = l
  BY CurrentPiece
<1>2. Current(s).len = l /\ Current(s) = Piece(Current(s).from, l) /\ l <= l
  BY <1>1
<1>3. PICK c : c = Segm(Piece(Current(s).from, l), NoPiece, TRUE) /\ IsChild(s, c, l)
  BY <1>2, ChildMade
<1>4. c = AsSegm(s)
  BY <1>2, <1>3, Zenon DEF AsSegm
<1> QED BY <1>3, <1>4, Zenon

(* take_segm_ref, take_segm_mut. *)
LEMMA TakeSegmIsChild ==
    ASSUME NEW s \in Segms, s.off <= Size(s), NEW d, WellFormed(d), LeastCount(s) \in Nat,
           IsDemand(Compromise(d, LessThan(LeastCount(s))))
    PROVE  \E c, m : c = TakeSegm(s, d) /\ IsChild(s, c, m)
<1>1. PICK h \in Nat : h = Compromise(d, LessThan(LeastCount(s))).hi
  BY AgreedMax
<1>2. PICK f \in Nat, l \in Nat : Current(s) = Piece(f, l) /\ Piece(f, l).from = f /\ Piece(f, l).len = l
  BY CurrentPiece
<1>3. PICK m \in Nat : m = Smaller(h, l) /\ m <= l
  BY DEF Smaller
<1>4. Current(s).len = l /\ m <= Current(s).len
  BY <1>2, <1>3
<1>5. PICK c : c = Segm(Piece(Current(s).from, m), NoPiece, TRUE) /\ IsChild(s, c, m)
  BY <1>4, ChildMade
<1>6. c = TakeSegm(s, d)
  BY <1>1, <1>3, <1>4, <1>5, Zenon DEF TakeSegm
<1> QED BY <1>5, <1>6, Zenon

(* A buffer lends no more than it has. *)
LEMMA LentFits ==
    ASSUME NEW d, WellFormed(d), NEW avail \in Nat
    PROVE  Lent(d, avail) \in Nat /\ Lent(d, avail) <= avail
<1>1. Upper(d) \in Nat
  BY MaxValAssumption DEF WellFormed, Demands, AtLeast, LessThan, Range, Amounts, Upper
<1> QED BY <1>1 DEF Lent, Smaller

-----------------------------------------------------------------------------
(* What is moved and what is stored.                                       *)

(* These are the cells of the buffer from x on, n of them. *)
From(cells, x, n, st) ==
    /\ cells \in Seq(Nat) /\ Len(cells) = n
    /\ \A j \in 1 .. n : cells[j] = Cell(st, x + j - 1)

(* A run of cells. *)
LEMMA Run ==
    ASSUME NEW cells \in Seq(Nat), NEW c \in Nat, NEW n \in Nat, c + n <= Len(cells)
    PROVE  /\ SubSeq(cells, c + 1, c + n) \in Seq(Nat) /\ Len(SubSeq(cells, c + 1, c + n)) = n
           /\ \A j \in 1 .. n : SubSeq(cells, c + 1, c + n)[j] = cells[c + j]
<1>1. c + 1 \in Nat /\ c + n \in Nat /\ Len(cells) \in Nat
  OBVIOUS
<1>2. SubSeq(cells, c + 1, c + n) \in Seq(Nat)
  <2>1. c + 1 \in 1 .. Len(cells) + 1 /\ c + n \in 0 .. Len(cells)
    OBVIOUS
  <2> QED BY <2>1
<1>3. Len(SubSeq(cells, c + 1, c + n)) = n
  OBVIOUS
<1>4. ASSUME NEW j \in 1 .. n PROVE SubSeq(cells, c + 1, c + n)[j] = cells[c + j]
  <2>1. SubSeq(cells, c + 1, c + n)[j] = cells[(c + 1) + j - 1]
    OBVIOUS
  <2>2. (c + 1) + j - 1 = c + j
    OBVIOUS
  <2> QED BY <2>1, <2>2
<1> QED BY <1>2, <1>3, <1>4

(* The first of what is left of the innermost segment. *)
LEMMA FirstCells ==
    ASSUME NEW chain \in Seq(Segms), chain # << >>, NEW p, NEW x, NEW st \in 0 .. Cap - 1,
           Reaches(chain, p, x, st), NEW n \in Nat, n <= LeastCount(Last(chain))
    PROVE  From(First(Remaining(Last(chain)), n), x, n, st) /\ x \in Nat /\ x + n <= Cap
<1>1. PICK cells \in Seq(Nat) : cells = Remaining(Last(chain))
  BY ReachedCells
<1>2. PICK l \in Nat : l = LeastCount(Last(chain))
  BY ReachedCells
<1>3. /\ x \in Nat /\ x + l <= Cap /\ Len(cells) = l
      /\ \A j \in 1 .. l : cells[j] = Cell(st, x + j - 1)
  BY <1>1, <1>2, ReachedCells
<1>4. PICK c \in Nat : c = 0
  OBVIOUS
<1>5. c + n <= Len(cells) /\ c + 1 = 1 /\ c + n = n
  BY <1>2, <1>3, <1>4
<1>6. PICK run : run = SubSeq(cells, c + 1, c + n)
  OBVIOUS
<1>7. run \in Seq(Nat) /\ Len(run) = n /\ \A j \in 1 .. n : run[j] = cells[c + j]
  BY <1>5, <1>6, Run
<1>8. run = First(cells, n)
  BY <1>5, <1>6 DEF First
<1>9. ASSUME NEW j \in 1 .. n PROVE run[j] = Cell(st, x + j - 1)
  <2>1. c + j = j /\ j \in 1 .. l
    BY <1>2, <1>4
  <2> QED BY <1>3, <1>7, <2>1
<1>10. From(run, x, n, st)
  BY <1>7, <1>9 DEF From
<1>11. x + n <= Cap
  BY <1>2, <1>3, SegmentsAssumption
<1> QED BY <1>1, <1>3, <1>8, <1>10, <1>11

(* The items after the first x, n of them, and all the items so far. *)
After(items, x, n) == items \in Seq(Nat) /\ Len(items) = n /\ \A j \in 1 .. n : items[j] = x + j
InOrder(m) == \A i \in 1 .. Len(m) : m[i] = i

(* The items in the cells from x on are the next ones. *)
LEMMA ItemsFrom ==
    ASSUME start \in 0 .. Cap - 1, NEW x \in Nat, NEW n \in Nat, x + n <= Cap,
           NEW cells, From(cells, x, n, start)
    PROVE  After(Items(cells), x, n)
<1>1. Cap \in Nat /\ Cap > 0
  BY SegmentsAssumption
<1>2. DOMAIN cells = 1 .. n
  BY DEF From
<1>3. ASSUME NEW j \in 1 .. n PROVE ItemAt(cells[j]) = x + j
  <2>1. x + j - 1 \in Nat /\ x + j - 1 < Cap
    BY <1>1
  <2>2. cells[j] = Cell(start, x + j - 1)
    BY DEF From
  <2>3. (cells[j] - start + Cap) % Cap = x + j - 1
    BY <2>1, <2>2, Cells
  <2>4. (x + j - 1) + 1 = x + j
    OBVIOUS
  <2> QED BY <2>3, <2>4 DEF ItemAt
<1>4. Items(cells) = [i \in 1 .. n |-> ItemAt(cells[i])]
  BY <1>2 DEF Items
<1>5. Items(cells) = [i \in 1 .. n |-> x + i]
  BY <1>3, <1>4
<1>6. Items(cells) \in [1 .. n -> Nat]
  BY <1>5
<1>7. Items(cells) \in Seq(Nat)
  BY <1>6
<1>8. Len(Items(cells)) = n
  BY <1>6, <1>7
<1> QED BY <1>5, <1>7, <1>8 DEF After

(* They are moved out next. *)
LEMMA MovedOut ==
    ASSUME NEW x \in Nat, NEW n \in Nat, NEW m \in Seq(Nat), Len(m) = x, InOrder(m),
           NEW items, After(items, x, n)
    PROVE  m \o items \in Seq(Nat) /\ Len(m \o items) = x + n /\ InOrder(m \o items)
<1>0. /\ items \in Seq(Nat) /\ Len(items) = n /\ \A j \in 1 .. n : items[j] = x + j
      /\ \A i \in 1 .. x : m[i] = i
  BY DEF After, InOrder
<1>1. /\ m \o items \in Seq(Nat) /\ Len(m \o items) = Len(m) + Len(items)
      /\ \A i \in 1 .. Len(m) + Len(items) : (m \o items)[i] = IF i <= Len(m) THEN m[i] ELSE items[i - Len(m)]
  BY <1>0, Concat
<1>2. ASSUME NEW i \in 1 .. x + n PROVE (m \o items)[i] = i
  <2>1. (m \o items)[i] = IF i <= x THEN m[i] ELSE items[i - x]
    BY <1>0, <1>1
  <2>2. CASE i <= x
    BY <1>0, <2>1, <2>2
  <2>3. CASE ~(i <= x)
    <3>1. i - x \in 1 .. n /\ x + (i - x) = i
      BY <2>3
    <3> QED BY <1>0, <2>1, <2>3, <3>1
  <2> QED BY <2>2, <2>3
<1> QED BY <1>0, <1>1, <1>2 DEF InOrder

(* Storing changes the cells from x on, and no other. *)
LEMMA StoredCells ==
    ASSUME start \in 0 .. Cap - 1, mem \in [0 .. Cap - 1 -> Nat],
           NEW x \in Nat, NEW n \in Nat, x + n <= Cap, NEW cells, From(cells, x, n, start),
           NEW items \in Seq(Nat), Len(items) = n
    PROVE  /\ Stored(cells, items) \in [0 .. Cap - 1 -> Nat]
           /\ \A p \in 0 .. Cap - 1 :
                /\ ItemAt(p) \in 1 .. Cap
                /\ Stored(cells, items)[p] = IF x < ItemAt(p) /\ ItemAt(p) <= x + n
                                             THEN items[ItemAt(p) - x] ELSE mem[p]
<1>1. Cap \in Nat /\ Cap > 0
  BY SegmentsAssumption
<1>2. DOMAIN items = 1 .. n /\ DOMAIN mem = 0 .. Cap - 1
  OBVIOUS
<1>3. ASSUME NEW p \in 0 .. Cap - 1
      PROVE  /\ ItemAt(p) \in 1 .. Cap
             /\ \A i \in 1 .. n : cells[i] = p <=> ItemAt(p) = x + i
  <2>1. PICK q \in 0 .. Cap - 1 : q = (p - start + Cap) % Cap /\ Cell(start, q) = p
    BY Cells
  <2>2. ItemAt(p) = q + 1
    BY <2>1 DEF ItemAt
  <2>3. ASSUME NEW i \in 1 .. n PROVE cells[i] = p <=> ItemAt(p) = x + i
    <3>1. PICK z \in Nat : z = x + i - 1 /\ z < Cap /\ x + i = z + 1
      <4>1. x + i - 1 \in Nat /\ x + i - 1 < Cap /\ x + i = (x + i - 1) + 1
        BY <1>1
      <4> QED BY <4>1
    <3>2. cells[i] = Cell(start, z)
      BY <3>1 DEF From
    <3>3. (Cell(start, z) - start + Cap) % Cap = z
      BY <3>1, Cells
    <3>4. cells[i] = p <=> q = z
      BY <2>1, <3>2, <3>3
    <3> QED BY <2>2, <3>1, <3>4
  <2>4. q + 1 \in 1 .. Cap
    BY <1>1
  <2> QED BY <2>2, <2>3, <2>4
<1>4. ASSUME NEW p \in 0 .. Cap - 1
      PROVE  /\ Stored(cells, items)[p] = IF x < ItemAt(p) /\ ItemAt(p) <= x + n
                                          THEN items[ItemAt(p) - x] ELSE mem[p]
             /\ Stored(cells, items)[p] \in Nat
  <2>1. Stored(cells, items)[p] = IF \E i \in 1 .. n : cells[i] = p
                                  THEN items[CHOOSE i \in 1 .. n : cells[i] = p] ELSE mem[p]
    BY <1>2 DEF Stored
  <2>2. PICK a \in Nat : a = ItemAt(p)
    BY <1>1, <1>3
  <2>3. \A i \in 1 .. n : cells[i] = p <=> a = x + i
    BY <1>3, <2>2
  <2>4. CASE x < a /\ a <= x + n
    <3>1. PICK k \in 1 .. n : k = a - x /\ a = x + k
      <4>1. a - x \in 1 .. n /\ a = x + (a - x)
        BY <2>4
      <4> QED BY <4>1
    <3>2. \A i \in 1 .. n : cells[i] = p <=> i = k
      BY <2>3, <3>1
    <3>3. (CHOOSE i \in 1 .. n : cells[i] = p) = k
      BY <3>2
    <3>4. Stored(cells, items)[p] = items[k]
      BY <2>1, <3>2, <3>3
    <3>5. items[k] \in Nat
      OBVIOUS
    <3> QED BY <2>2, <2>4, <3>1, <3>4, <3>5
  <2>5. CASE ~(x < a /\ a <= x + n)
    <3>1. \A i \in 1 .. n : cells[i] # p
      BY <2>3, <2>5
    <3>2. Stored(cells, items)[p] = mem[p]
      BY <2>1, <3>1
    <3>3. mem[p] \in Nat
      OBVIOUS
    <3> QED BY <2>2, <2>5, <3>2, <3>3
  <2> QED BY <2>4, <2>5
<1>5. Stored(cells, items) = [p \in 0 .. Cap - 1 |-> Stored(cells, items)[p]]
  BY <1>2 DEF Stored
<1>6. Stored(cells, items) \in [0 .. Cap - 1 -> Nat]
  BY <1>4, <1>5
<1> QED BY <1>3, <1>4, <1>6

(* The target's cells hold w, from the first on, and the others nothing. *)
Holds(m, w) == \A p \in 0 .. Cap - 1 : m[p] = IF ItemAt(p) <= Len(w) THEN w[ItemAt(p)] ELSE 0

(* The items stored from the end of what the target holds are held next. *)
LEMMA HeldNext ==
    ASSUME start \in 0 .. Cap - 1, mem \in [0 .. Cap - 1 -> Nat],
           NEW x \in Nat, NEW n \in Nat, x + n <= Cap, NEW cells, From(cells, x, n, start),
           NEW items \in Seq(Nat), Len(items) = n, NEW w \in Seq(Nat), Len(w) = x, Holds(mem, w)
    PROVE  Holds(Stored(cells, items), w \o items)
<1>1. /\ w \o items \in Seq(Nat) /\ Len(w \o items) = Len(w) + Len(items)
      /\ \A i \in 1 .. Len(w) + Len(items) : (w \o items)[i] = IF i <= Len(w) THEN w[i] ELSE items[i - Len(w)]
  BY Concat
<1>2. ASSUME NEW p \in 0 .. Cap - 1
      PROVE  Stored(cells, items)[p] = IF ItemAt(p) <= Len(w \o items) THEN (w \o items)[ItemAt(p)] ELSE 0
  <2>1. /\ ItemAt(p) \in 1 .. Cap
        /\ Stored(cells, items)[p] = IF x < ItemAt(p) /\ ItemAt(p) <= x + n
                                     THEN items[ItemAt(p) - x] ELSE mem[p]
    BY StoredCells
  <2>2. PICK a \in Nat : a = ItemAt(p) /\ a >= 1
    BY <2>1, SegmentsAssumption
  <2>3. mem[p] = IF a <= x THEN w[a] ELSE 0
    BY <2>2 DEF Holds
  <2>4. CASE a <= x
    <3>1. a \in 1 .. Len(w) + Len(items) /\ a <= Len(w) /\ ~(x < a) /\ a <= x + n
      BY <2>2, <2>4
    <3> QED BY <1>1, <2>1, <2>2, <2>3, <2>4, <3>1
  <2>5. CASE x < a /\ a <= x + n
    <3>1. a \in 1 .. Len(w) + Len(items) /\ ~(a <= Len(w))
      BY <2>2, <2>5
    <3> QED BY <1>1, <2>1, <2>2, <2>5, <3>1
  <2>6. CASE x + n < a
    <3>1. ~(a <= x) /\ ~(a <= x + n)
      BY <2>2, <2>6
    <3> QED BY <1>1, <2>1, <2>2, <2>3, <3>1
  <2> QED BY <2>2, <2>4, <2>5, <2>6
<1> QED BY <1>2 DEF Holds

-----------------------------------------------------------------------------
(* The inductive invariant: where the two chains have got to, and what was
   moved out of the one and stored through the other on the way.           *)

Calls == [on : {"none", "out", "in"}, cells : Seq(Nat), max : Nat, c : Nat]

(* A device call holds the cells from where the chain has got to. *)
Loan(cl, chain, x, st) ==
    /\ chain # << >> /\ cl.c <= Len(cl.cells) /\ Len(cl.cells) - cl.c <= LeastCount(Last(chain))
    /\ \A j \in 1 .. Len(cl.cells) - cl.c : cl.cells[cl.c + j] = Cell(st, x + j - 1)

Count(chain, p, x) == IF chain # << >> /\ chain[1].commits THEN x ELSE p

ReadSide(x, chain, p, st, m, cl) ==
    /\ Reaches(chain, p, x, st)
    /\ Len(m) = Count(chain, p, x) /\ InOrder(m)
    /\ cl.on = "out" => Loan(cl, chain, x, st)

WriteSide(x, chain, p, st, w, cl) ==
    /\ Reaches(chain, p, x, st)
    /\ Len(w) = Count(chain, p, x)
    /\ cl.on = "in" => Loan(cl, chain, x, st)

SegmTypes ==
    /\ store \in Stores /\ start \in 0 .. Cap - 1 /\ rd \in Seq(Segms) /\ wr \in Seq(Segms)
    /\ mem \in [0 .. Cap - 1 -> Nat] /\ moved \in Seq(Nat) /\ written \in Seq(Nat) /\ call \in Calls

Reading == \E x : ReadSide(x, rd, rp, start, moved, call)
Writing == \E x : WriteSide(x, wr, wp, start, written, call)
Target  == store # "array" => (wr # << >> => wr[1].commits) /\ Holds(mem, written)

SegmInv == SegmTypes /\ Reading /\ Writing /\ Target

(* The positions are numbers. *)
LEMMA ReachedIsNat ==
    ASSUME NEW chain \in Seq(Segms), NEW p, NEW x, NEW st, Reaches(chain, p, x, st)
    PROVE  p \in Nat /\ x \in Nat
<1>1. PICK o : ReachesBy(chain, p, x, st, o)
  BY DEF Reaches
<1>2. Len(chain) \in Nat /\ 1 \in 1 .. Len(chain) + 1 /\ Len(chain) + 1 \in 1 .. Len(chain) + 1
  OBVIOUS
<1> QED BY <1>1, <1>2 DEF ReachesBy, Chained

(* What has gone through a chain, if its root commits, and items next. *)
Extended(after, chain, m, items) == after = IF chain[1].commits THEN m \o items ELSE m

(* Moving n items out through the innermost segment. *)
LEMMA ReadMove ==
    ASSUME start \in 0 .. Cap - 1, NEW chain \in Seq(Segms), chain # << >>, NEW p, NEW x,
           Reaches(chain, p, x, start), NEW n \in Nat, n <= LeastCount(Last(chain)),
           NEW cells, From(cells, x, n, start),
           NEW m \in Seq(Nat), Len(m) = Count(chain, p, x), InOrder(m),
           NEW after, Extended(after, chain, m, Items(cells))
    PROVE  /\ after \in Seq(Nat) /\ Len(after) = Count(Advanced(chain, n), p, x + n)
           /\ InOrder(after)
<1>1. x \in Nat /\ x + n <= Cap
  BY FirstCells
<1>2. /\ Len(Advanced(chain, n)) = Len(chain) /\ Advanced(chain, n) \in Seq(Segms)
      /\ Advanced(chain, n)[1].commits = chain[1].commits
  BY ChainAdvance
<1>3. Advanced(chain, n) # << >>
  BY <1>2
<1>4. CASE chain[1].commits
  <2>1. Len(m) = x /\ Count(Advanced(chain, n), p, x + n) = x + n
    BY <1>2, <1>3, <1>4 DEF Count
  <2>2. after = m \o Items(cells)
    BY <1>4 DEF Extended
  <2>3. After(Items(cells), x, n)
    BY <1>1, ItemsFrom
  <2>4. m \o Items(cells) \in Seq(Nat) /\ Len(m \o Items(cells)) = x + n /\ InOrder(m \o Items(cells))
    BY <1>1, <2>1, <2>3, MovedOut
  <2> QED BY <2>1, <2>2, <2>4
<1>5. CASE ~chain[1].commits
  <2>1. after = m /\ Count(chain, p, x) = p /\ Count(Advanced(chain, n), p, x + n) = p
    BY <1>2, <1>5 DEF Count, Extended
  <2> QED BY <2>1
<1> QED BY <1>4, <1>5

(* Storing n items through the innermost segment. *)
LEMMA WriteMove ==
    ASSUME start \in 0 .. Cap - 1, mem \in [0 .. Cap - 1 -> Nat],
           NEW chain \in Seq(Segms), chain # << >>, NEW p, NEW x,
           Reaches(chain, p, x, start), NEW n \in Nat, n <= LeastCount(Last(chain)),
           NEW cells, From(cells, x, n, start), NEW items \in Seq(Nat), Len(items) = n,
           NEW w \in Seq(Nat), Len(w) = Count(chain, p, x),
           NEW after, Extended(after, chain, w, items)
    PROVE  /\ after \in Seq(Nat) /\ Len(after) = Count(Advanced(chain, n), p, x + n)
           /\ Stored(cells, items) \in [0 .. Cap - 1 -> Nat]
           /\ chain[1].commits /\ Holds(mem, w) => Holds(Stored(cells, items), after)
<1>1. x \in Nat /\ x + n <= Cap
  BY FirstCells
<1>2. /\ Len(Advanced(chain, n)) = Len(chain) /\ Advanced(chain, n) \in Seq(Segms)
      /\ Advanced(chain, n)[1].commits = chain[1].commits
  BY ChainAdvance
<1>3. Advanced(chain, n) # << >>
  BY <1>2
<1>4. Stored(cells, items) \in [0 .. Cap - 1 -> Nat]
  BY <1>1, StoredCells
<1>5. CASE chain[1].commits
  <2>1. Len(w) = x /\ Count(Advanced(chain, n), p, x + n) = x + n
    BY <1>2, <1>3, <1>5 DEF Count
  <2>2. after = w \o items
    BY <1>5 DEF Extended
  <2>3. w \o items \in Seq(Nat) /\ Len(w \o items) = x + n
    BY <2>1, Concat
  <2>4. Holds(mem, w) => Holds(Stored(cells, items), w \o items)
    BY <1>1, <2>1, HeldNext
  <2> QED BY <1>4, <2>1, <2>2, <2>3, <2>4
<1>6. CASE ~chain[1].commits
  <2>1. after = w /\ Count(chain, p, x) = p /\ Count(Advanced(chain, n), p, x + n) = p
    BY <1>2, <1>6 DEF Count, Extended
  <2> QED BY <1>4, <1>6, <2>1
<1> QED BY <1>5, <1>6

(* The cells of a device's next turn, and what the call holds after it. *)
LEMMA LoanTurn ==
    ASSUME NEW cl \in Calls, NEW chain \in Seq(Segms), NEW x \in Nat, NEW st \in 0 .. Cap - 1,
           Loan(cl, chain, x, st), LeastCount(Last(chain)) \in Nat,
           NEW k \in Nat, k <= Smaller(Len(cl.cells), cl.max) - cl.c
    PROVE  /\ k <= LeastCount(Last(chain))
           /\ From(SubSeq(cl.cells, cl.c + 1, cl.c + k), x, k, st)
           /\ [cl EXCEPT !.c = cl.c + k] \in Calls
           /\ \A d : /\ d # << >> /\ LeastCount(Last(d)) = LeastCount(Last(chain)) - k
                     => Loan([cl EXCEPT !.c = cl.c + k], d, x + k, st)
<1>1. PICK c \in Nat, cells \in Seq(Nat), mx \in Nat : c = cl.c /\ cells = cl.cells /\ mx = cl.max
  BY DEF Calls
<1>2. PICK len \in Nat : len = Len(cells)
  OBVIOUS
<1>3. PICK l \in Nat : l = LeastCount(Last(chain))
  OBVIOUS
<1>4. /\ c <= len /\ len - c <= l /\ \A j \in 1 .. len - c : cells[c + j] = Cell(st, x + j - 1)
  BY <1>1, <1>2, <1>3 DEF Loan
<1>5. c + k <= len /\ k <= l
  <2>1. k <= Smaller(len, mx) - c
    BY <1>1, <1>2
  <2> QED BY <1>4, <2>1 DEF Smaller
<1>6. PICK run : run = SubSeq(cells, c + 1, c + k)
  OBVIOUS
<1>7. run \in Seq(Nat) /\ Len(run) = k /\ \A j \in 1 .. k : run[j] = cells[c + j]
  BY <1>2, <1>5, <1>6, Run
<1>8. ASSUME NEW j \in 1 .. k PROVE run[j] = Cell(st, x + j - 1)
  <2>1. j \in 1 .. len - c
    BY <1>5 DEF Extended
  <2> QED BY <1>4, <1>7, <2>1
<1>9. From(run, x, k, st)
  BY <1>7, <1>8 DEF From
<1>10. PICK next : next = [cl EXCEPT !.c = c + k]
  OBVIOUS
<1>11. next \in Calls /\ next.c = c + k /\ next.cells = cells
  BY <1>1, <1>10, SMTT(60) DEF Calls
<1>12. ASSUME NEW d, d # << >>, LeastCount(Last(d)) = l - k PROVE Loan(next, d, x + k, st)
  <2>1. c + k <= len /\ len - (c + k) <= l - k
    BY <1>4, <1>5
  <2>2. ASSUME NEW j \in 1 .. len - (c + k) PROVE cells[(c + k) + j] = Cell(st, (x + k) + j - 1)
    <3>1. PICK i : i = k + j /\ i \in 1 .. len - c /\ c + i = (c + k) + j /\ x + i - 1 = (x + k) + j - 1
      BY <1>5 DEF Extended
    <3> QED BY <1>4, <3>1
  <2> QED BY <1>2, <1>11, <1>12, <2>1, <2>2 DEF Loan
<1> QED BY <1>1, <1>3, <1>5, <1>6, <1>9, <1>10, <1>11, <1>12

-----------------------------------------------------------------------------
(* Each action keeps the invariant.                                        *)

(* What leaves the read side alone. *)
LEMMA KeepReading ==
    ASSUME SegmInv, rd' = rd, rp' = rp, start' = start, moved' = moved,
           call' = call \/ call'.on # "out"
    PROVE  Reading'
<1>1. PICK x : ReadSide(x, rd, rp, start, moved, call)
  BY DEF SegmInv, Reading
<1>2. ReadSide(x, rd', rp', start', moved', call')
  BY <1>1 DEF ReadSide
<1> QED BY <1>2 DEF Reading

(* What leaves the write side alone. *)
LEMMA KeepWriting ==
    ASSUME SegmInv, wr' = wr, wp' = wp, start' = start, written' = written,
           call' = call \/ call'.on # "in"
    PROVE  Writing'
<1>1. PICK x : WriteSide(x, wr, wp, start, written, call)
  BY DEF SegmInv, Writing
<1>2. WriteSide(x, wr', wp', start', written', call')
  BY <1>1 DEF WriteSide
<1> QED BY <1>2 DEF Writing

(* What leaves the target's contents alone, and the root of its chain. *)
LEMMA KeepTarget ==
    ASSUME SegmInv, store' = store, start' = start, mem' = mem, written' = written,
           store # "array" => (wr' # << >> => wr'[1].commits)
    PROVE  Target'
<1>1. Target
  BY DEF SegmInv
<1>2. ASSUME Holds(mem, written) PROVE Holds(mem, written)'
  BY <1>2 DEF Holds, ItemAt
<1> QED BY <1>1, <1>2 DEF Target

(* No device holds cells between calls. *)
LEMMA NoCallFacts == NoCall \in Calls /\ NoCall.on = "none"
<1>1. << >> \in Seq(Nat)
  OBVIOUS
<1> QED BY <1>1 DEF NoCall, Calls

(* A root lent to read, or to peek. *)
LEMMA RootLent ==
    ASSUME NEW p \in Nat, Cap - p > 0, start \in 0 .. Cap - 1, NEW d, WellFormed(d), NEW cm \in BOOLEAN
    PROVE  \E w \in Segms : /\ <<w>> = <<Window(p, Lent(d, Cap - p), cm)>>
                            /\ <<w>>[1].commits = cm
                            /\ <<w>> \in Seq(Segms) /\ <<w>> # << >> /\ Reaches(<<w>>, p, p, start)
<1>1. Cap \in Nat /\ Cap - p \in Nat /\ p < Cap
  BY SegmentsAssumption
<1>2. PICK n \in Nat : n = Lent(d, Cap - p) /\ n <= Cap - p
  BY <1>1, LentFits
<1>3. p + n <= Cap
  BY <1>1, <1>2
<1>4. PICK w : w = Window(p, n, cm)
  OBVIOUS
<1>5. w \in Segms /\ w.off = 0 /\ w.commits = cm /\ Covers(w, p, start)
  BY <1>1, <1>3, <1>4, WindowCovers, Zenon
<1>6. <<w>> \in Seq(Segms) /\ Len(<<w>>) = 1 /\ <<w>>[1] = w /\ Reaches(<<w>>, p, p, start)
  BY <1>5, ChainRoot
<1>7. <<w>> # << >>
  OBVIOUS
<1>8. <<w>>[1].commits = cm
  BY <1>5, <1>6, Zenon
<1>9. <<w>> = <<Window(p, Lent(d, Cap - p), cm)>>
  BY <1>2, <1>4, Zenon
<1> QED BY <1>5, <1>6, <1>7, <1>8, <1>9, Zenon

(* try_read and try_peek. *)
LEMMA ReadLent ==
    ASSUME SegmInv, call = NoCall, rd = << >>, Cap - rp > 0, NEW d, WellFormed(d), NEW cm \in BOOLEAN,
           rd' = <<Window(rp, Lent(d, Cap - rp), cm)>>,
           UNCHANGED <<store, start, rp, wp, wr, mem, moved, written, call>>
    PROVE  SegmInv'
<1>1. PICK x : ReadSide(x, rd, rp, start, moved, call)
  BY DEF SegmInv, Reading
<1>2. rp \in Nat /\ x = rp /\ Len(moved) = rp
  <2>1. Reaches(rd, rp, x, start) /\ rd \in Seq(Segms)
    BY <1>1 DEF ReadSide, SegmInv, SegmTypes
  <2>2. rp \in Nat
    BY <2>1, ReachedIsNat
  <2>3. Reaches(<< >>, rp, x, start)
    BY <2>1
  <2> QED BY <1>1, <2>2, <2>3, ChainEmpty DEF ReadSide, Count
<1>3. start \in 0 .. Cap - 1
  BY DEF SegmInv, SegmTypes
<1>4. PICK w \in Segms : /\ <<w>> = <<Window(rp, Lent(d, Cap - rp), cm)>>
                         /\ <<w>>[1].commits = cm
                         /\ <<w>> \in Seq(Segms) /\ <<w>> # << >> /\ Reaches(<<w>>, rp, rp, start)
  BY <1>2, <1>3, RootLent, ZenonT(60)
<1>5. rd' \in Seq(Segms) /\ Reaches(rd', rp, rp, start)
  BY <1>4, Zenon
<1>6. ReadSide(x, rd', rp', start', moved', call')
  <2>1. Reaches(rd', rp', x, start')
    BY <1>2, <1>5
  <2>2. Len(moved') = Count(rd', rp', x)
    BY <1>2 DEF Count
  <2>3. InOrder(moved') /\ call'.on # "out"
    BY <1>1, NoCallFacts DEF ReadSide
  <2> QED BY <2>1, <2>2, <2>3 DEF ReadSide
<1>7. Reading'
  BY <1>6 DEF Reading
<1>8. Writing'
  BY KeepWriting
<1>9. Target'
  BY KeepTarget DEF SegmInv, Target
<1>10. SegmTypes'
  BY <1>5 DEF SegmInv, SegmTypes
<1> QED BY <1>7, <1>8, <1>9, <1>10 DEF SegmInv

(* try_write: the segment of a value that only borrows as a slice is not committed. *)
LEMMA WriteLent ==
    ASSUME SegmInv, call = NoCall, wr = << >>, Cap - wp > 0, NEW d, WellFormed(d), NEW cm \in BOOLEAN,
           store # "array" => cm, wr' = <<Window(wp, Lent(d, Cap - wp), cm)>>,
           UNCHANGED <<store, start, rp, wp, rd, mem, moved, written, call>>
    PROVE  SegmInv'
<1>1. PICK x : WriteSide(x, wr, wp, start, written, call)
  BY DEF SegmInv, Writing
<1>2. wp \in Nat /\ x = wp /\ Len(written) = wp
  <2>1. Reaches(wr, wp, x, start) /\ wr \in Seq(Segms)
    BY <1>1 DEF WriteSide, SegmInv, SegmTypes
  <2>2. wp \in Nat
    BY <2>1, ReachedIsNat
  <2>3. Reaches(<< >>, wp, x, start)
    BY <2>1
  <2> QED BY <1>1, <2>2, <2>3, ChainEmpty DEF WriteSide, Count
<1>3. start \in 0 .. Cap - 1
  BY DEF SegmInv, SegmTypes
<1>4. PICK w \in Segms : /\ <<w>> = <<Window(wp, Lent(d, Cap - wp), cm)>>
                         /\ <<w>>[1].commits = cm
                         /\ <<w>> \in Seq(Segms) /\ <<w>> # << >> /\ Reaches(<<w>>, wp, wp, start)
  BY <1>2, <1>3, RootLent, ZenonT(60)
<1>5. wr' \in Seq(Segms) /\ Reaches(wr', wp, wp, start) /\ (store # "array" => wr'[1].commits)
  BY <1>4, Zenon
<1>6. WriteSide(x, wr', wp', start', written', call')
  <2>1. Reaches(wr', wp', x, start')
    BY <1>2, <1>5
  <2>2. Len(written') = Count(wr', wp', x)
    BY <1>2 DEF Count
  <2>3. call'.on # "in"
    BY NoCallFacts
  <2> QED BY <2>1, <2>2, <2>3 DEF WriteSide
<1>7. Writing'
  BY <1>6 DEF Writing
<1>8. Reading'
  BY KeepReading
<1>9. Target'
  BY <1>5, KeepTarget
<1>10. SegmTypes'
  BY <1>5 DEF SegmInv, SegmTypes
<1> QED BY <1>7, <1>8, <1>9, <1>10 DEF SegmInv

(* take_segm_* and as_segm_*: a child of the innermost segment. *)
LEMMA ChildOf ==
    ASSUME NEW chain \in Seq(Segms), chain # << >>, NEW p, NEW x, NEW st \in 0 .. Cap - 1,
           Reaches(chain, p, x, st), NEW after,
           \/ after = Append(chain, AsSegm(Last(chain)))
           \/ \E d \in Wants : /\ IsDemand(Compromise(d, LessThan(LeastCount(Last(chain)))))
                               /\ after = Append(chain, TakeSegm(Last(chain), d))
    PROVE  after \in Seq(Segms) /\ after # << >> /\ after[1] = chain[1] /\ Reaches(after, p, x, st)
<1>1. PICK s \in Segms : s = Last(chain)
  BY ReachedCells
<1>2. LeastCount(s) \in Nat
  BY <1>1, ReachedCells
<1>3. s.off <= Size(s)
  <2>1. LeastCount(s) = Size(s) - s.off
    BY SegmFields DEF LeastCount
  <2> QED BY <1>2, <2>1, SegmFields
<1>4. PICK c, m : after = Append(chain, c) /\ IsChild(s, c, m)
  <2>1. CASE after = Append(chain, AsSegm(s))
    <3>1. PICK c, m : c = AsSegm(s) /\ IsChild(s, c, m)
      BY <1>3, AsSegmIsChild
    <3> QED BY <2>1, <3>1
  <2>2. ASSUME NEW d \in Wants, IsDemand(Compromise(d, LessThan(LeastCount(s)))),
               after = Append(chain, TakeSegm(s, d))
        PROVE  \E c, m : after = Append(chain, c) /\ IsChild(s, c, m)
    <3>1. WellFormed(d)
      BY SegmentsAssumption
    <3>2. PICK c, m : c = TakeSegm(s, d) /\ IsChild(s, c, m)
      BY <1>2, <1>3, <2>2, <3>1, TakeSegmIsChild
    <3> QED BY <2>2, <3>2
  <2> QED BY <1>1, <2>1, <2>2
<1>5. /\ m \in Nat /\ m <= Current(Last(chain)).len
      /\ c \in Segms /\ c.off = 0 /\ c.a.from = Current(Last(chain)).from /\ c.a.len = m /\ c.b.len = 0
  BY <1>1, <1>4 DEF IsChild
<1>6. /\ Append(chain, c) \in Seq(Segms) /\ Append(chain, c) # << >>
      /\ Append(chain, c)[1] = chain[1] /\ Reaches(Append(chain, c), p, x, st)
  BY <1>5, ChainChild
<1> QED BY <1>4, <1>6

(* A chain that has got as far, from the same root. *)
LEMMA ReadChained ==
    ASSUME SegmInv, call = NoCall, rd # << >>, NEW x, ReadSide(x, rd, rp, start, moved, call),
           rd' \in Seq(Segms), rd' # << >>, rd'[1].commits = rd[1].commits, Reaches(rd', rp, x, start),
           UNCHANGED <<store, start, rp, wp, wr, mem, moved, written, call>>
    PROVE  SegmInv'
<1>1. ReadSide(x, rd', rp', start', moved', call')
  <2>1. Len(moved') = Count(rd', rp', x)
    BY DEF ReadSide, Count
  <2>2. InOrder(moved') /\ call'.on # "out"
    BY NoCallFacts DEF ReadSide
  <2> QED BY <2>1, <2>2 DEF ReadSide
<1>2. Reading'
  BY <1>1 DEF Reading
<1>3. Writing'
  BY KeepWriting
<1>4. Target'
  BY KeepTarget DEF SegmInv, Target
<1>5. SegmTypes'
  BY DEF SegmInv, SegmTypes
<1> QED BY <1>2, <1>3, <1>4, <1>5 DEF SegmInv

(* ... of the target. *)
LEMMA WriteChained ==
    ASSUME SegmInv, call = NoCall, wr # << >>, NEW x, WriteSide(x, wr, wp, start, written, call),
           wr' \in Seq(Segms), wr' # << >>, wr'[1].commits = wr[1].commits, Reaches(wr', wp, x, start),
           UNCHANGED <<store, start, rp, wp, rd, mem, moved, written, call>>
    PROVE  SegmInv'
<1>1. WriteSide(x, wr', wp', start', written', call')
  <2>1. Len(written') = Count(wr', wp', x)
    BY DEF WriteSide, Count
  <2>2. call'.on # "in"
    BY NoCallFacts
  <2> QED BY <2>1, <2>2 DEF WriteSide
<1>2. Writing'
  BY <1>1 DEF Writing
<1>3. Reading'
  BY KeepReading
<1>4. Target'
  <2>1. store # "array" => (wr' # << >> => wr'[1].commits)
    BY DEF SegmInv, Target
  <2> QED BY <2>1, KeepTarget
<1>5. SegmTypes'
  BY DEF SegmInv, SegmTypes
<1> QED BY <1>2, <1>3, <1>4, <1>5 DEF SegmInv

(* take_segm_ref, as_segm_ref. *)
LEMMA ReadChildKeeps == ASSUME SegmInv, ReadChild PROVE SegmInv'
<1>1. PICK x : ReadSide(x, rd, rp, start, moved, call)
  BY DEF SegmInv, Reading
<1>2. rd \in Seq(Segms) /\ start \in 0 .. Cap - 1 /\ Reaches(rd, rp, x, start)
  BY <1>1 DEF SegmInv, SegmTypes, ReadSide
<1>3. /\ rd # << >> /\ call = NoCall
      /\ UNCHANGED <<store, start, rp, wp, wr, mem, moved, written, call>>
      /\ \/ rd' = Append(rd, AsSegm(Last(rd)))
         \/ \E d \in Wants : /\ IsDemand(Compromise(d, LessThan(LeastCount(Last(rd)))))
                             /\ rd' = Append(rd, TakeSegm(Last(rd), d))
  BY DEF ReadChild, Idle, UnchangedRest
<1>4. rd' \in Seq(Segms) /\ rd' # << >> /\ rd'[1] = rd[1] /\ Reaches(rd', rp, x, start)
  BY <1>2, <1>3, ChildOf
<1>5. rd'[1].commits = rd[1].commits
  BY <1>4
<1> QED BY <1>1, <1>3, <1>4, <1>5, ReadChained

(* take_segm_mut, as_segm_mut. *)
LEMMA WriteChildKeeps == ASSUME SegmInv, WriteChild PROVE SegmInv'
<1>1. PICK x : WriteSide(x, wr, wp, start, written, call)
  BY DEF SegmInv, Writing
<1>2. wr \in Seq(Segms) /\ start \in 0 .. Cap - 1 /\ Reaches(wr, wp, x, start)
  BY <1>1 DEF SegmInv, SegmTypes, WriteSide
<1>3. /\ wr # << >> /\ call = NoCall
      /\ UNCHANGED <<store, start, rp, wp, rd, mem, moved, written, call>>
      /\ \/ wr' = Append(wr, AsSegm(Last(wr)))
         \/ \E d \in Wants : /\ IsDemand(Compromise(d, LessThan(LeastCount(Last(wr)))))
                             /\ wr' = Append(wr, TakeSegm(Last(wr), d))
  BY DEF WriteChild, Idle, UnchangedRest
<1>4. wr' \in Seq(Segms) /\ wr' # << >> /\ wr'[1] = wr[1] /\ Reaches(wr', wp, x, start)
  BY <1>2, <1>3, ChildOf
<1>5. wr'[1].commits = wr[1].commits
  BY <1>4
<1> QED BY <1>1, <1>3, <1>4, <1>5, WriteChained

(* Drop of a read segment, into its parent or the buffer. *)
LEMMA DropReadKeeps == ASSUME SegmInv, DropRead PROVE SegmInv'
<1>1. PICK x : ReadSide(x, rd, rp, start, moved, call)
  BY DEF SegmInv, Reading
<1>2. rd \in Seq(Segms) /\ start \in 0 .. Cap - 1 /\ Reaches(rd, rp, x, start)
  BY <1>1 DEF SegmInv, SegmTypes, ReadSide
<1>3. /\ rd # << >> /\ call = NoCall /\ rd' = Popped(rd)
      /\ rp' = (IF Len(rd) = 1 /\ rd[1].commits THEN rp + rd[1].off ELSE rp)
      /\ UNCHANGED <<store, start, wp, wr, mem, moved, written, call>>
  BY DEF DropRead
<1>4. CASE Len(rd) = 1
  <2>1. rp \in Nat /\ x \in Nat /\ x = rp + rd[1].off
    BY <1>2, <1>4, RootOffset
  <2>2. rd' = << >> /\ rp' = Count(rd, rp, x)
    BY <1>3, <1>4, <2>1 DEF Popped, Count
  <2>3. PICK y \in Nat : y = rp'
    BY <2>1, <2>2 DEF Count
  <2>4. Reaches(<< >>, y, y, start)
    BY <2>3, ChainEmpty
  <2>5. ReadSide(y, rd', rp', start', moved', call')
    <3>1. Reaches(rd', rp', y, start')
      BY <1>3, <2>2, <2>3, <2>4
    <3>2. Len(moved') = Count(rd', rp', y)
      BY <1>1, <1>3, <2>2, <2>3 DEF ReadSide, Count
    <3>3. InOrder(moved') /\ call'.on # "out"
      BY <1>1, <1>3, NoCallFacts DEF ReadSide
    <3> QED BY <3>1, <3>2, <3>3 DEF ReadSide
  <2>6. Reading'
    BY <2>5 DEF Reading
  <2>7. Writing'
    BY <1>3, KeepWriting
  <2>8. Target'
    BY <1>3, KeepTarget DEF SegmInv, Target
  <2>9. << >> \in Seq(Segms)
    OBVIOUS
  <2>10. SegmTypes'
    BY <1>3, <2>2, <2>9 DEF SegmInv, SegmTypes
  <2> QED BY <2>6, <2>7, <2>8, <2>10 DEF SegmInv
<1>5. CASE Len(rd) # 1
  <2>0. rd \in Seq(Segms) /\ rd # << >>
    BY <1>2, <1>3
  <2>1. Len(rd) > 1
    BY ONLY <1>5, <2>0
  <2>2. rd' \in Seq(Segms) /\ rd' # << >> /\ rd'[1].commits = rd[1].commits /\ Reaches(rd', rp, x, start)
    BY <1>2, <1>3, <2>1, ChainDrop
  <2>3. UNCHANGED <<store, start, rp, wp, wr, mem, moved, written, call>>
    BY <1>3, <1>5
  <2> QED BY <1>1, <1>3, <2>2, <2>3, ReadChained
<1> QED BY <1>4, <1>5

(* ... of a write segment. *)
LEMMA DropWriteKeeps == ASSUME SegmInv, DropWrite PROVE SegmInv'
<1>1. PICK x : WriteSide(x, wr, wp, start, written, call)
  BY DEF SegmInv, Writing
<1>2. wr \in Seq(Segms) /\ start \in 0 .. Cap - 1 /\ Reaches(wr, wp, x, start)
  BY <1>1 DEF SegmInv, SegmTypes, WriteSide
<1>3. /\ wr # << >> /\ call = NoCall /\ wr' = Popped(wr)
      /\ wp' = (IF Len(wr) = 1 /\ wr[1].commits THEN wp + wr[1].off ELSE wp)
      /\ UNCHANGED <<store, start, rp, rd, mem, moved, written, call>>
  BY DEF DropWrite
<1>4. CASE Len(wr) = 1
  <2>1. wp \in Nat /\ x \in Nat /\ x = wp + wr[1].off
    BY <1>2, <1>4, RootOffset
  <2>2. wr' = << >> /\ wp' = Count(wr, wp, x)
    BY <1>3, <1>4, <2>1 DEF Popped, Count
  <2>3. PICK y \in Nat : y = wp'
    BY <2>1, <2>2 DEF Count
  <2>4. Reaches(<< >>, y, y, start)
    BY <2>3, ChainEmpty
  <2>5. WriteSide(y, wr', wp', start', written', call')
    <3>1. Reaches(wr', wp', y, start')
      BY <1>3, <2>2, <2>3, <2>4
    <3>2. Len(written') = Count(wr', wp', y)
      BY <1>1, <1>3, <2>2, <2>3 DEF WriteSide, Count
    <3>3. call'.on # "in"
      BY <1>3, NoCallFacts
    <3> QED BY <3>1, <3>2, <3>3 DEF WriteSide
  <2>6. Writing'
    BY <2>5 DEF Writing
  <2>7. Reading'
    BY <1>3, KeepReading
  <2>8. Target'
    BY <1>3, <2>2, KeepTarget
  <2>9. << >> \in Seq(Segms)
    OBVIOUS
  <2>10. SegmTypes'
    BY <1>3, <2>2, <2>9 DEF SegmInv, SegmTypes
  <2> QED BY <2>6, <2>7, <2>8, <2>10 DEF SegmInv
<1>5. CASE Len(wr) # 1
  <2>0. wr \in Seq(Segms) /\ wr # << >>
    BY <1>2, <1>3
  <2>1. Len(wr) > 1
    BY ONLY <1>5, <2>0
  <2>2. wr' \in Seq(Segms) /\ wr' # << >> /\ wr'[1].commits = wr[1].commits /\ Reaches(wr', wp, x, start)
    BY <1>2, <1>3, <2>1, ChainDrop
  <2>3. UNCHANGED <<store, start, rp, wp, rd, mem, moved, written, call>>
    BY <1>3, <1>5
  <2> QED BY <1>1, <1>3, <2>2, <2>3, WriteChained
<1> QED BY <1>4, <1>5

(* The read side after n items more have been moved out. *)
LEMMA ReadAdvanced ==
    ASSUME SegmInv, rd # << >>, NEW x, ReadSide(x, rd, rp, start, moved, call),
           NEW n \in Nat, n <= LeastCount(Last(rd)), NEW cells, From(cells, x, n, start),
           NowMoved(Items(cells)), rd' = Advanced(rd, n), rp' = rp, start' = start,
           call'.on = "out" => Loan(call', Advanced(rd, n), x + n, start)
    PROVE  Reading' /\ rd' \in Seq(Segms) /\ moved' \in Seq(Nat)
<1>1. /\ rd \in Seq(Segms) /\ start \in 0 .. Cap - 1 /\ moved \in Seq(Nat)
      /\ Reaches(rd, rp, x, start) /\ Len(moved) = Count(rd, rp, x) /\ InOrder(moved)
  BY DEF SegmInv, SegmTypes, ReadSide
<1>2. PICK after : after = moved' /\ Extended(after, rd, moved, Items(cells))
  BY DEF NowMoved, Extended
<1>3. after \in Seq(Nat) /\ Len(after) = Count(Advanced(rd, n), rp, x + n) /\ InOrder(after)
  BY <1>1, <1>2, ReadMove
<1>4. Advanced(rd, n) \in Seq(Segms) /\ Reaches(Advanced(rd, n), rp, x + n, start)
  BY <1>1, ChainAdvance
<1>5. PICK y : y = x + n
  OBVIOUS
<1>6. ReadSide(y, rd', rp', start', moved', call')
  BY <1>2, <1>3, <1>4, <1>5 DEF ReadSide
<1> QED BY <1>2, <1>3, <1>4, <1>6 DEF Reading

(* The write side after n items more have been stored. *)
LEMMA WriteAdvanced ==
    ASSUME SegmInv, wr # << >>, NEW x, WriteSide(x, wr, wp, start, written, call),
           NEW n \in Nat, n <= LeastCount(Last(wr)), NEW cells, From(cells, x, n, start),
           NEW items \in Seq(Nat), Len(items) = n, NowWritten(cells, items),
           wr' = Advanced(wr, n), wp' = wp, start' = start, store' = store,
           call'.on = "in" => Loan(call', Advanced(wr, n), x + n, start)
    PROVE  /\ Writing' /\ Target'
           /\ wr' \in Seq(Segms) /\ written' \in Seq(Nat) /\ mem' \in [0 .. Cap - 1 -> Nat]
<1>1. /\ wr \in Seq(Segms) /\ start \in 0 .. Cap - 1 /\ written \in Seq(Nat) /\ mem \in [0 .. Cap - 1 -> Nat]
      /\ Reaches(wr, wp, x, start) /\ Len(written) = Count(wr, wp, x)
  BY DEF SegmInv, SegmTypes, WriteSide
<1>2. PICK after : after = written' /\ Extended(after, wr, written, items)
  BY DEF NowWritten, Extended
<1>3. /\ after \in Seq(Nat) /\ Len(after) = Count(Advanced(wr, n), wp, x + n)
      /\ Stored(cells, items) \in [0 .. Cap - 1 -> Nat]
      /\ wr[1].commits /\ Holds(mem, written) => Holds(Stored(cells, items), after)
  BY <1>1, <1>2, WriteMove
<1>4. /\ Advanced(wr, n) \in Seq(Segms) /\ Reaches(Advanced(wr, n), wp, x + n, start)
      /\ Advanced(wr, n)[1].commits = wr[1].commits
  BY <1>1, ChainAdvance
<1>5. PICK y : y = x + n
  OBVIOUS
<1>6. WriteSide(y, wr', wp', start', written', call')
  BY <1>2, <1>3, <1>4, <1>5 DEF WriteSide
<1>7. mem' = Stored(cells, items)
  BY DEF NowWritten
<1>8. Target'
  <2>1. ASSUME store # "array" PROVE wr'[1].commits /\ Holds(mem, written)'
    <3>1. wr[1].commits /\ Holds(mem, written)
      BY <2>1 DEF SegmInv, Target
    <3>2. PICK held : held = mem' /\ Holds(held, after)
      BY <1>3, <1>7, <3>1
    <3>3. Holds(mem, written)'
      BY <1>2, <3>2 DEF Holds, ItemAt
    <3> QED BY <1>4, <3>1, <3>3
  <2> QED BY <2>1 DEF Target
<1> QED BY <1>2, <1>3, <1>4, <1>6, <1>7, <1>8 DEF Writing

(* The items a device or a slice gives. *)
LEMMA FreshItems ==
    ASSUME SegmInv, NEW n \in Nat
    PROVE  Fresh(n) \in Seq(Nat) /\ Len(Fresh(n)) = n
<1>1. Len(written) \in Nat
  BY DEF SegmInv, SegmTypes
<1>2. Fresh(n) \in [1 .. n -> Nat]
  BY <1>1 DEF Fresh
<1> QED BY <1>2

(* The smaller of two numbers. *)
LEMMA SmallerOf ==
    ASSUME NEW a \in Nat, NEW b \in Nat
    PROVE  Smaller(a, b) \in Nat /\ Smaller(a, b) <= a /\ Smaller(a, b) <= b
BY DEF Smaller

(* move_items_to_segm, move_items_from_segm. *)
LEMMA MoveItemsKeeps == ASSUME SegmInv, MoveItems PROVE SegmInv'
<1>1. PICK x : ReadSide(x, rd, rp, start, moved, call)
  BY DEF SegmInv, Reading
<1>2. PICK y : WriteSide(y, wr, wp, start, written, call)
  BY DEF SegmInv, Writing
<1>3. /\ rd \in Seq(Segms) /\ wr \in Seq(Segms) /\ start \in 0 .. Cap - 1 /\ rd # << >> /\ wr # << >>
      /\ Reaches(rd, rp, x, start) /\ Reaches(wr, wp, y, start)
  BY <1>1, <1>2 DEF SegmInv, SegmTypes, ReadSide, WriteSide, MoveItems
<1>4. PICK a \in Nat : a = LeastCount(Last(rd))
  BY <1>3, ReachedCells
<1>5. PICK b \in Nat : b = LeastCount(Last(wr))
  BY <1>3, ReachedCells
<1>6. PICK n \in Nat : n = Smaller(a, b) /\ n <= a /\ n <= b
  BY SmallerOf
<1>7. PICK cells : /\ cells = First(Remaining(Last(rd)), n)
                   /\ From(cells, x, n, start) /\ x \in Nat /\ x + n <= Cap
  BY <1>3, <1>4, <1>6, FirstCells
<1>8. PICK dst : dst = First(Remaining(Last(wr)), n) /\ From(dst, y, n, start)
  BY <1>3, <1>5, <1>6, FirstCells
<1>9. PICK items \in Seq(Nat) : items = Items(cells) /\ Len(items) = n
  BY <1>3, <1>7, ItemsFrom DEF After
<1>10. /\ NowMoved(Items(cells)) /\ NowWritten(dst, items)
       /\ rd' = Advanced(rd, n) /\ wr' = Advanced(wr, n)
       /\ UNCHANGED <<store, start, rp, wp, call>> /\ call = NoCall
  BY <1>4, <1>5, <1>6, <1>7, <1>8, <1>9 DEF MoveItems, Idle, UnchangedRest
<1>11. call'.on = "none" /\ call' \in Calls
  BY <1>10, NoCallFacts
<1>12. Reading' /\ rd' \in Seq(Segms) /\ moved' \in Seq(Nat)
  BY <1>1, <1>3, <1>4, <1>6, <1>7, <1>10, <1>11, ReadAdvanced
<1>13. /\ Writing' /\ Target'
       /\ wr' \in Seq(Segms) /\ written' \in Seq(Nat) /\ mem' \in [0 .. Cap - 1 -> Nat]
  BY <1>2, <1>3, <1>5, <1>6, <1>8, <1>9, <1>10, <1>11, WriteAdvanced
<1>14. SegmTypes'
  BY <1>10, <1>11, <1>12, <1>13 DEF SegmInv, SegmTypes
<1> QED BY <1>12, <1>13, <1>14 DEF SegmInv

(* clone_items_to_segm. *)
LEMMA CloneItemsKeeps == ASSUME SegmInv, CloneItems PROVE SegmInv'
<1>1. PICK x : ReadSide(x, rd, rp, start, moved, call)
  BY DEF SegmInv, Reading
<1>2. PICK y : WriteSide(y, wr, wp, start, written, call)
  BY DEF SegmInv, Writing
<1>3. /\ rd \in Seq(Segms) /\ wr \in Seq(Segms) /\ start \in 0 .. Cap - 1 /\ rd # << >> /\ wr # << >>
      /\ Reaches(rd, rp, x, start) /\ Reaches(wr, wp, y, start)
  BY <1>1, <1>2 DEF SegmInv, SegmTypes, ReadSide, WriteSide, CloneItems
<1>4. PICK a \in Nat : a = LeastCount(Last(rd))
  BY <1>3, ReachedCells
<1>5. PICK b \in Nat : b = LeastCount(Last(wr))
  BY <1>3, ReachedCells
<1>6. PICK n \in Nat : n = Smaller(a, b) /\ n <= a /\ n <= b
  BY SmallerOf
<1>7. PICK cells : /\ cells = First(Remaining(Last(rd)), n)
                   /\ From(cells, x, n, start) /\ x \in Nat /\ x + n <= Cap
  BY <1>3, <1>4, <1>6, FirstCells
<1>8. PICK dst : dst = First(Remaining(Last(wr)), n) /\ From(dst, y, n, start)
  BY <1>3, <1>5, <1>6, FirstCells
<1>9. PICK items \in Seq(Nat) : items = Items(cells) /\ Len(items) = n
  BY <1>3, <1>7, ItemsFrom DEF After
<1>10. /\ NowWritten(dst, items) /\ wr' = Advanced(wr, n)
       /\ UNCHANGED <<store, start, rp, wp, rd, moved, call>> /\ call = NoCall
  BY <1>4, <1>5, <1>6, <1>7, <1>8, <1>9 DEF CloneItems, Idle, UnchangedRest
<1>11. call'.on = "none" /\ call' \in Calls
  BY <1>10, NoCallFacts
<1>12. Reading'
  BY <1>10, KeepReading
<1>13. /\ Writing' /\ Target'
       /\ wr' \in Seq(Segms) /\ written' \in Seq(Nat) /\ mem' \in [0 .. Cap - 1 -> Nat]
  BY <1>2, <1>3, <1>5, <1>6, <1>8, <1>9, <1>10, <1>11, WriteAdvanced
<1>14. SegmTypes'
  BY <1>10, <1>11, <1>13 DEF SegmInv, SegmTypes
<1> QED BY <1>12, <1>13, <1>14 DEF SegmInv

(* move_items_to_buff. *)
LEMMA MoveToBuffKeeps == ASSUME SegmInv, NEW k \in Nat, MoveToBuff(k) PROVE SegmInv'
<1>1. PICK x : ReadSide(x, rd, rp, start, moved, call)
  BY DEF SegmInv, Reading
<1>2. rd \in Seq(Segms) /\ start \in 0 .. Cap - 1 /\ rd # << >> /\ Reaches(rd, rp, x, start)
  BY <1>1 DEF SegmInv, SegmTypes, ReadSide, MoveToBuff
<1>3. PICK a \in Nat : a = LeastCount(Last(rd))
  BY <1>2, ReachedCells
<1>4. PICK n \in Nat : n = Smaller(k, a) /\ n <= a
  BY SmallerOf
<1>5. PICK cells : cells = First(Remaining(Last(rd)), n) /\ From(cells, x, n, start)
  BY <1>2, <1>3, <1>4, FirstCells
<1>6. /\ NowMoved(Items(cells)) /\ rd' = Advanced(rd, n)
      /\ UNCHANGED <<store, start, rp, wp, wr, mem, written, call>> /\ call = NoCall
  BY <1>3, <1>4, <1>5 DEF MoveToBuff, Idle, UnchangedRest
<1>7. call'.on = "none" /\ call' \in Calls
  BY <1>6, NoCallFacts
<1>8. Reading' /\ rd' \in Seq(Segms) /\ moved' \in Seq(Nat)
  BY <1>1, <1>2, <1>3, <1>4, <1>5, <1>6, <1>7, ReadAdvanced
<1>9. Writing'
  BY <1>6, KeepWriting
<1>10. Target'
  BY <1>6, KeepTarget DEF SegmInv, Target
<1>11. SegmTypes'
  BY <1>6, <1>7, <1>8 DEF SegmInv, SegmTypes
<1> QED BY <1>8, <1>9, <1>10, <1>11 DEF SegmInv

(* move_items_from_buff. *)
LEMMA MoveFromBuffKeeps == ASSUME SegmInv, NEW k \in Nat, MoveFromBuff(k) PROVE SegmInv'
<1>1. PICK x : WriteSide(x, wr, wp, start, written, call)
  BY DEF SegmInv, Writing
<1>2. wr \in Seq(Segms) /\ start \in 0 .. Cap - 1 /\ wr # << >> /\ Reaches(wr, wp, x, start)
  BY <1>1 DEF SegmInv, SegmTypes, WriteSide, MoveFromBuff
<1>3. PICK a \in Nat : a = LeastCount(Last(wr))
  BY <1>2, ReachedCells
<1>4. PICK n \in Nat : n = Smaller(k, a) /\ n <= a
  BY SmallerOf
<1>5. PICK cells : cells = First(Remaining(Last(wr)), n) /\ From(cells, x, n, start)
  BY <1>2, <1>3, <1>4, FirstCells
<1>6. PICK items \in Seq(Nat) : items = Fresh(n) /\ Len(items) = n
  BY FreshItems
<1>7. /\ NowWritten(cells, items) /\ wr' = Advanced(wr, n)
      /\ UNCHANGED <<store, start, rp, wp, rd, moved, call>> /\ call = NoCall
  BY <1>3, <1>4, <1>5, <1>6 DEF MoveFromBuff, Idle, UnchangedRest
<1>8. call'.on = "none" /\ call' \in Calls
  BY <1>7, NoCallFacts
<1>9. /\ Writing' /\ Target'
      /\ wr' \in Seq(Segms) /\ written' \in Seq(Nat) /\ mem' \in [0 .. Cap - 1 -> Nat]
  BY <1>1, <1>2, <1>3, <1>4, <1>5, <1>6, <1>7, <1>8, WriteAdvanced
<1>10. Reading'
  BY <1>7, KeepReading
<1>11. SegmTypes'
  BY <1>7, <1>8, <1>9 DEF SegmInv, SegmTypes
<1> QED BY <1>9, <1>10, <1>11 DEF SegmInv

(* The cells a device call is given. *)
LEMMA Lending ==
    ASSUME NEW chain \in Seq(Segms), chain # << >>, NEW p, NEW x, NEW st \in 0 .. Cap - 1,
           Reaches(chain, p, x, st), NEW d, WellFormed(d), NEW way \in {"none", "out", "in"},
           IsDemand(Compromise(d, LessThan(LeastCount(Last(chain))))), NEW cl,
           cl = [on |-> way, cells |-> Remaining(Last(chain)),
                 max |-> Compromise(d, LessThan(LeastCount(Last(chain)))).hi, c |-> 0]
    PROVE  cl \in Calls /\ cl.on = way /\ Loan(cl, chain, x, st)
<1>1. PICK l \in Nat : l = LeastCount(Last(chain))
  BY ReachedCells
<1>2. PICK cells \in Seq(Nat) : /\ cells = Remaining(Last(chain)) /\ Len(cells) = l
                                /\ \A j \in 1 .. l : cells[j] = Cell(st, x + j - 1)
  BY <1>1, ReachedCells
<1>3. PICK h \in Nat : h = Compromise(d, LessThan(LeastCount(Last(chain)))).hi
  BY <1>1, AgreedMax
<1>4. cl = [on |-> way, cells |-> cells, max |-> h, c |-> 0]
  BY <1>2, <1>3
<1>5. cl \in Calls /\ cl.on = way /\ cl.c = 0 /\ cl.cells = cells
  BY ONLY <1>2, <1>3, <1>4, way \in {"none", "out", "in"} DEF Calls
<1>6. cl.c <= Len(cl.cells) /\ Len(cl.cells) - cl.c = l
  BY <1>2, <1>5
<1>7. ASSUME NEW j \in 1 .. l PROVE cl.cells[cl.c + j] = Cell(st, x + j - 1)
  <2>1. cl.c + j = j
    BY <1>5
  <2> QED BY <1>2, <1>5, <2>1
<1>8. l <= LeastCount(Last(chain))
  BY <1>1
<1>9. Loan(cl, chain, x, st)
  BY <1>6, <1>7, <1>8 DEF Loan
<1> QED BY <1>5, <1>9

(* A call to an output begins. *)
LEMMA StartOutputKeeps == ASSUME SegmInv, NEW d \in Wants, StartOutput(d) PROVE SegmInv'
<1>1. PICK x : ReadSide(x, rd, rp, start, moved, call)
  BY DEF SegmInv, Reading
<1>2. rd \in Seq(Segms) /\ start \in 0 .. Cap - 1 /\ Reaches(rd, rp, x, start)
  BY <1>1 DEF SegmInv, SegmTypes, ReadSide
<1>3. /\ Len(rd) > 1 /\ IsDemand(Compromise(d, LessThan(LeastCount(Last(rd)))))
      /\ call' = [on |-> "out", cells |-> Remaining(Last(rd)),
                  max |-> Compromise(d, LessThan(LeastCount(Last(rd)))).hi, c |-> 0]
      /\ UNCHANGED <<store, start, rp, wp, rd, wr, mem, moved, written>>
  BY DEF StartOutput, Calling, UnchangedRest
<1>4. rd # << >>
  BY <1>2, <1>3
<1>5. PICK way \in {"none", "out", "in"} : way = "out"
  OBVIOUS
<1>6. WellFormed(d)
  BY SegmentsAssumption
<1>7. PICK cl : cl = call' /\ cl \in Calls /\ cl.on = way /\ Loan(cl, rd, x, start)
  BY <1>2, <1>3, <1>4, <1>5, <1>6, Lending
<1>8. ReadSide(x, rd', rp', start', moved', call')
  BY <1>1, <1>3, <1>7 DEF ReadSide
<1>9. Reading'
  BY <1>8 DEF Reading
<1>10. Writing'
  BY <1>3, <1>5, <1>7, KeepWriting
<1>11. Target'
  BY <1>3, KeepTarget DEF SegmInv, Target
<1>12. SegmTypes'
  BY <1>3, <1>7 DEF SegmInv, SegmTypes
<1> QED BY <1>9, <1>10, <1>11, <1>12 DEF SegmInv

(* A call to an input begins. *)
LEMMA StartInputKeeps == ASSUME SegmInv, NEW d \in Wants, StartInput(d) PROVE SegmInv'
<1>1. PICK x : WriteSide(x, wr, wp, start, written, call)
  BY DEF SegmInv, Writing
<1>2. wr \in Seq(Segms) /\ start \in 0 .. Cap - 1 /\ Reaches(wr, wp, x, start)
  BY <1>1 DEF SegmInv, SegmTypes, WriteSide
<1>3. /\ Len(wr) > 1 /\ IsDemand(Compromise(d, LessThan(LeastCount(Last(wr)))))
      /\ call' = [on |-> "in", cells |-> Remaining(Last(wr)),
                  max |-> Compromise(d, LessThan(LeastCount(Last(wr)))).hi, c |-> 0]
      /\ UNCHANGED <<store, start, rp, wp, rd, wr, mem, moved, written>>
  BY DEF StartInput, Calling, UnchangedRest
<1>4. wr # << >>
  BY <1>2, <1>3
<1>5. PICK way \in {"none", "out", "in"} : way = "in"
  OBVIOUS
<1>6. WellFormed(d)
  BY SegmentsAssumption
<1>7. PICK cl : cl = call' /\ cl \in Calls /\ cl.on = way /\ Loan(cl, wr, x, start)
  BY <1>2, <1>3, <1>4, <1>5, <1>6, Lending
<1>8. WriteSide(x, wr', wp', start', written', call')
  BY <1>1, <1>3, <1>7 DEF WriteSide
<1>9. Writing'
  BY <1>8 DEF Writing
<1>10. Reading'
  BY <1>3, <1>5, <1>7, KeepReading
<1>11. Target'
  BY <1>3, KeepTarget DEF SegmInv, Target
<1>12. SegmTypes'
  BY <1>3, <1>7 DEF SegmInv, SegmTypes
<1> QED BY <1>9, <1>10, <1>11, <1>12 DEF SegmInv

(* The output takes k items. *)
LEMMA OutputStepKeeps == ASSUME SegmInv, NEW k \in Nat, NEW fails, OutputStep(k, fails) PROVE SegmInv'
<1>1. PICK x : ReadSide(x, rd, rp, start, moved, call)
  BY DEF SegmInv, Reading
<1>2. /\ call.on = "out" /\ k <= Smaller(Len(call.cells), call.max) - call.c
      /\ NowMoved(Items(SubSeq(call.cells, call.c + 1, call.c + k))) /\ rd' = Advanced(rd, k)
      /\ call' = NoCall \/ call' = [call EXCEPT !.c = call.c + k]
      /\ UNCHANGED <<store, start, rp, wp, wr, mem, written>>
  BY DEF OutputStep, MayTurn, Turn, CallAfter, UnchangedRest
<1>3. /\ rd \in Seq(Segms) /\ start \in 0 .. Cap - 1 /\ call \in Calls
      /\ Reaches(rd, rp, x, start) /\ Loan(call, rd, x, start) /\ rd # << >>
  BY <1>1, <1>2 DEF SegmInv, SegmTypes, ReadSide, Loan
<1>4. x \in Nat /\ LeastCount(Last(rd)) \in Nat
  BY <1>3, ReachedCells
<1>5. /\ k <= LeastCount(Last(rd))
      /\ From(SubSeq(call.cells, call.c + 1, call.c + k), x, k, start)
      /\ [call EXCEPT !.c = call.c + k] \in Calls
      /\ \A d : /\ d # << >> /\ LeastCount(Last(d)) = LeastCount(Last(rd)) - k
                => Loan([call EXCEPT !.c = call.c + k], d, x + k, start)
  BY <1>2, <1>3, <1>4, LoanTurn
<1>6. /\ Advanced(rd, k) # << >> /\ LeastCount(Last(Advanced(rd, k))) = LeastCount(Last(rd)) - k
  <2>1. /\ Advanced(rd, k) \in Seq(Segms) /\ Len(Advanced(rd, k)) = Len(rd)
        /\ LeastCount(Last(Advanced(rd, k))) = LeastCount(Last(rd)) - k
    BY <1>3, <1>5, ChainAdvance
  <2> QED BY <1>3, <2>1
<1>7. call' \in Calls /\ call'.on # "in"
  <2>1. [call EXCEPT !.c = call.c + k].on = "out"
    BY <1>2, <1>3 DEF Calls
  <2> QED BY <1>2, <1>5, <2>1, NoCallFacts
<1>8. call'.on = "out" => Loan(call', Advanced(rd, k), x + k, start)
  BY <1>2, <1>5, <1>6, NoCallFacts
<1>9. PICK cells : /\ cells = SubSeq(call.cells, call.c + 1, call.c + k)
                   /\ From(cells, x, k, start) /\ NowMoved(Items(cells))
  BY <1>2, <1>5
<1>10. Reading' /\ rd' \in Seq(Segms) /\ moved' \in Seq(Nat)
  BY <1>1, <1>2, <1>3, <1>5, <1>8, <1>9, ReadAdvanced
<1>11. Writing'
  BY <1>2, <1>7, KeepWriting
<1>12. Target'
  BY <1>2, KeepTarget DEF SegmInv, Target
<1>13. SegmTypes'
  BY <1>2, <1>7, <1>10 DEF SegmInv, SegmTypes
<1> QED BY <1>10, <1>11, <1>12, <1>13 DEF SegmInv

(* The input gives k items. *)
LEMMA InputStepKeeps == ASSUME SegmInv, NEW k \in Nat, NEW fails, InputStep(k, fails) PROVE SegmInv'
<1>1. PICK x : WriteSide(x, wr, wp, start, written, call)
  BY DEF SegmInv, Writing
<1>2. /\ call.on = "in" /\ k <= Smaller(Len(call.cells), call.max) - call.c
      /\ NowWritten(SubSeq(call.cells, call.c + 1, call.c + k), Fresh(k)) /\ wr' = Advanced(wr, k)
      /\ call' = NoCall \/ call' = [call EXCEPT !.c = call.c + k]
      /\ UNCHANGED <<store, start, rp, wp, rd, moved>>
  BY DEF InputStep, MayTurn, Turn, CallAfter, UnchangedRest
<1>3. /\ wr \in Seq(Segms) /\ start \in 0 .. Cap - 1 /\ call \in Calls
      /\ Reaches(wr, wp, x, start) /\ Loan(call, wr, x, start) /\ wr # << >>
  BY <1>1, <1>2 DEF SegmInv, SegmTypes, WriteSide, Loan
<1>4. x \in Nat /\ LeastCount(Last(wr)) \in Nat
  BY <1>3, ReachedCells
<1>5. /\ k <= LeastCount(Last(wr))
      /\ From(SubSeq(call.cells, call.c + 1, call.c + k), x, k, start)
      /\ [call EXCEPT !.c = call.c + k] \in Calls
      /\ \A d : /\ d # << >> /\ LeastCount(Last(d)) = LeastCount(Last(wr)) - k
                => Loan([call EXCEPT !.c = call.c + k], d, x + k, start)
  BY <1>2, <1>3, <1>4, LoanTurn
<1>6. /\ Advanced(wr, k) # << >> /\ LeastCount(Last(Advanced(wr, k))) = LeastCount(Last(wr)) - k
  <2>1. /\ Advanced(wr, k) \in Seq(Segms) /\ Len(Advanced(wr, k)) = Len(wr)
        /\ LeastCount(Last(Advanced(wr, k))) = LeastCount(Last(wr)) - k
    BY <1>3, <1>5, ChainAdvance
  <2> QED BY <1>3, <2>1
<1>7. call' \in Calls /\ call'.on # "out"
  <2>1. [call EXCEPT !.c = call.c + k].on = "in"
    BY <1>2, <1>3 DEF Calls
  <2> QED BY <1>2, <1>5, <2>1, NoCallFacts
<1>8. call'.on = "in" => Loan(call', Advanced(wr, k), x + k, start)
  BY <1>2, <1>5, <1>6, NoCallFacts
<1>9. PICK items \in Seq(Nat) : items = Fresh(k) /\ Len(items) = k
  BY FreshItems
<1>10. PICK cells : /\ cells = SubSeq(call.cells, call.c + 1, call.c + k)
                    /\ From(cells, x, k, start) /\ NowWritten(cells, items)
  BY <1>2, <1>5, <1>9
<1>11. /\ Writing' /\ Target'
       /\ wr' \in Seq(Segms) /\ written' \in Seq(Nat) /\ mem' \in [0 .. Cap - 1 -> Nat]
  BY <1>1, <1>2, <1>3, <1>5, <1>8, <1>9, <1>10, WriteAdvanced
<1>12. Reading'
  BY <1>2, <1>7, KeepReading
<1>13. SegmTypes'
  BY <1>2, <1>7, <1>11 DEF SegmInv, SegmTypes
<1> QED BY <1>11, <1>12, <1>13 DEF SegmInv

(* Steps that leave the buffers and their chains alone. *)
LEMMA RestKeeps ==
    ASSUME SegmInv, UNCHANGED <<store, start, rp, wp, rd, wr, mem, moved, written>>,
           call' = call \/ call' = NoCall
    PROVE  SegmInv'
<1>1. Reading' /\ Writing'
  BY KeepReading, KeepWriting, NoCallFacts
<1>2. Target'
  BY KeepTarget DEF SegmInv, Target
<1>3. SegmTypes'
  BY NoCallFacts DEF SegmInv, SegmTypes
<1> QED BY <1>1, <1>2, <1>3 DEF SegmInv

(* The buffers as they are created. *)
LEMMA SegmStart == SegmInit => SegmInv
<1> SUFFICES ASSUME SegmInit PROVE SegmInv
  OBVIOUS
<1>1. Cap \in Nat /\ Cap > 0
  BY SegmentsAssumption
<1>2. /\ store \in Stores /\ start \in 0 .. Cap - 1 /\ rp = 0 /\ wp = 0 /\ rd = << >> /\ wr = << >>
      /\ mem = [p \in 0 .. Cap - 1 |-> 0] /\ moved = << >> /\ written = << >> /\ call = NoCall
  BY <1>1 DEF SegmInit
<1>3. << >> \in Seq(Segms) /\ << >> \in Seq(Nat) /\ Len(<< >>) = 0
  OBVIOUS
<1>4. SegmTypes
  BY <1>2, <1>3, NoCallFacts DEF SegmTypes
<1>5. PICK x \in Nat : x = 0
  OBVIOUS
<1>6. Reaches(<< >>, x, x, start)
  BY ChainEmpty
<1>7. ReadSide(x, rd, rp, start, moved, call)
  BY <1>2, <1>3, <1>5, <1>6, NoCallFacts DEF ReadSide, Count, InOrder
<1>8. WriteSide(x, wr, wp, start, written, call)
  BY <1>2, <1>3, <1>5, <1>6, NoCallFacts DEF WriteSide, Count
<1>9. Holds(mem, written)
  <2> SUFFICES ASSUME NEW p \in 0 .. Cap - 1 PROVE ~(ItemAt(p) <= 0) /\ mem[p] = 0
    BY <1>2, <1>3 DEF Holds
  <2>1. (p - start + Cap) % Cap \in 0 .. Cap - 1
    BY <1>2, Cells
  <2>2. ItemAt(p) >= 1 /\ ItemAt(p) \in Nat
    BY <1>1, <2>1 DEF ItemAt
  <2> QED BY <1>2, <2>2
<1>10. Target
  BY <1>2, <1>9 DEF Target
<1> QED BY <1>4, <1>7, <1>8, <1>10 DEF SegmInv, Reading, Writing

(* Every step of lending, cutting, dropping and moving keeps the invariant. *)
LEMMA SegmStep == SegmInv /\ [SegmNext]_segmVars => SegmInv'
<1> SUFFICES ASSUME SegmInv, [SegmNext]_segmVars PROVE SegmInv'
  OBVIOUS
<1>1. ASSUME NEW d \in Wants, OpenRead(d) PROVE SegmInv'
  <2>1. WellFormed(d)
    BY SegmentsAssumption
  <2>2. PICK cm \in BOOLEAN : rd' = <<Window(rp, Lent(d, Cap - rp), cm)>>
    BY <1>1, Zenon DEF OpenRead
  <2>3. /\ call = NoCall /\ rd = << >> /\ Cap - rp > 0
        /\ UNCHANGED <<store, start, rp, wp, wr, mem, moved, written, call>>
    BY <1>1 DEF OpenRead, Idle, UnchangedRest
  <2> QED BY <2>1, <2>2, <2>3, ReadLent, Zenon
<1>2. ASSUME NEW d \in Wants, OpenPeek(d) PROVE SegmInv'
  <2>1. WellFormed(d)
    BY SegmentsAssumption
  <2>2. PICK cm \in BOOLEAN : rd' = <<Window(rp, Lent(d, Cap - rp), cm)>>
    BY <1>2, Zenon DEF OpenPeek
  <2>3. /\ call = NoCall /\ rd = << >> /\ Cap - rp > 0
        /\ UNCHANGED <<store, start, rp, wp, wr, mem, moved, written, call>>
    BY <1>2 DEF OpenPeek, Idle, UnchangedRest
  <2> QED BY <2>1, <2>2, <2>3, ReadLent, Zenon
<1>3. ASSUME NEW d \in Wants, OpenWrite(d) PROVE SegmInv'
  <2>1. WellFormed(d)
    BY SegmentsAssumption
  <2>2. PICK cm \in BOOLEAN : /\ wr' = <<Window(wp, Lent(d, Cap - wp), cm)>>
                              /\ (store # "array" => cm)
    BY <1>3, Zenon DEF OpenWrite
  <2>3. /\ call = NoCall /\ wr = << >> /\ Cap - wp > 0
        /\ UNCHANGED <<store, start, rp, wp, rd, mem, moved, written, call>>
    BY <1>3 DEF OpenWrite, Idle, UnchangedRest
  <2> QED BY <2>1, <2>2, <2>3, WriteLent, Zenon
<1>4. ASSUME NEW d \in Wants, StartOutput(d) \/ StartInput(d) PROVE SegmInv'
  BY <1>4, StartOutputKeeps, StartInputKeeps
<1>5. CASE ReadChild
  BY <1>5, ReadChildKeeps
<1>6. CASE WriteChild
  BY <1>6, WriteChildKeeps
<1>7. CASE TakePanics
  BY <1>7, RestKeeps DEF TakePanics
<1>8. CASE DropRead
  BY <1>8, DropReadKeeps
<1>9. CASE DropWrite
  BY <1>9, DropWriteKeeps
<1>10. CASE MoveItems
  BY <1>10, MoveItemsKeeps
<1>11. CASE CloneItems
  BY <1>11, CloneItemsKeeps
<1>12. ASSUME NEW k \in 1 .. Cap, MoveToBuff(k) \/ MoveFromBuff(k) PROVE SegmInv'
  <2>1. k \in Nat
    BY SegmentsAssumption
  <2> QED BY <1>12, <2>1, MoveToBuffKeeps, MoveFromBuffKeeps
<1>13. ASSUME NEW k \in 0 .. Cap, NEW fails \in BOOLEAN, OutputStep(k, fails) \/ InputStep(k, fails)
       PROVE  SegmInv'
  <2>1. k \in Nat
    BY SegmentsAssumption
  <2> QED BY <1>13, <2>1, OutputStepKeeps, InputStepKeeps, Zenon
<1>14. CASE DropCall
  BY <1>14, RestKeeps DEF DropCall, UnchangedRest
<1>15. CASE UNCHANGED segmVars
  BY <1>15, RestKeeps DEF segmVars
<1> QED BY <1>1, <1>2, <1>3, <1>4, <1>5, <1>6, <1>7, <1>8, <1>9, <1>10, <1>11, <1>12, <1>13, <1>14, <1>15,
           Zenon DEF SegmNext

-----------------------------------------------------------------------------
(* The read chain begins at the buffer's position and has got to some place
   x, the cells of its segments being those of the buffer; the items before
   it are the ones moved; and so for the write chain.  The rest of this
   section reads off it. *)
THEOREM SegmInvariance == SegmSpec => []SegmInv
<1>1. SegmInit => SegmInv
  BY SegmStart
<1>2. SegmInv /\ [SegmNext]_segmVars => SegmInv'
  BY SegmStep
<1> QED BY <1>1, <1>2, PTL DEF SegmSpec

(* How far a chain has got beyond the buffer's position, if its root commits,
   is what its offsets add up to. *)
LEMMA CountIsFlight ==
    ASSUME NEW chain \in Seq(Segms), NEW p, NEW x, NEW st, Reaches(chain, p, x, st)
    PROVE  Count(chain, p, x) = p + InFlight(chain)
<1>1. p \in Nat /\ x \in Nat
  BY ReachedIsNat
<1>2. CASE chain # << >> /\ chain[1].commits
  <2>1. InFlight(chain) = x - p
    BY <1>2, FlightIsReached
  <2> QED BY <1>1, <1>2, <2>1 DEF Count
<1>3. CASE ~(chain # << >> /\ chain[1].commits)
  <2>1. InFlight(chain) = 0
    BY <1>3 DEF InFlight
  <2> QED BY <1>1, <1>3, <2>1 DEF Count
<1> QED BY <1>2, <1>3

(* Items leave the source each once and in order, through any depth of
   children, round the end of the buffer, through calls that take them in
   parts, fail or are dropped, and with a panic that unwinds the chain; and
   the position with the offsets of the open chain counts them. *)
THEOREM SegmentsMoveOnce == SegmSpec => []MovedOnce
<1>1. SegmInv => MovedOnce
  <2> SUFFICES ASSUME SegmInv PROVE MovedOnce
    OBVIOUS
  <2>1. PICK x : ReadSide(x, rd, rp, start, moved, call)
    BY DEF SegmInv, Reading
  <2>2. rd \in Seq(Segms) /\ moved \in Seq(Nat)
    BY DEF SegmInv, SegmTypes
  <2>3. Len(moved) = rp + InFlight(rd)
    BY <2>1, <2>2, CountIsFlight DEF ReadSide
  <2>4. moved = [i \in 1 .. Len(moved) |-> i]
    BY <2>1, <2>2 DEF ReadSide, InOrder
  <2> QED BY <2>3, <2>4 DEF MovedOnce
<1> QED BY <1>1, SegmInvariance, PTL

(* What is put into a ring or a slice is there in order, from its first cell
   on, and in no other cell, and the position with the offsets of the open
   chain counts it. *)
THEOREM SegmentsWriteInOrder == SegmSpec => []WrittenInOrder
<1>1. SegmInv => WrittenInOrder
  <2> SUFFICES ASSUME SegmInv, store # "array"
               PROVE  /\ Len(written) = wp + InFlight(wr)
                      /\ \A p \in DOMAIN mem :
                            mem[p] = IF ItemAt(p) <= Len(written) THEN written[ItemAt(p)] ELSE 0
    BY DEF WrittenInOrder
  <2>1. PICK x : WriteSide(x, wr, wp, start, written, call)
    BY DEF SegmInv, Writing
  <2>2. wr \in Seq(Segms) /\ written \in Seq(Nat) /\ DOMAIN mem = 0 .. Cap - 1
    BY DEF SegmInv, SegmTypes
  <2>3. Len(written) = wp + InFlight(wr)
    BY <2>1, <2>2, CountIsFlight DEF WriteSide
  <2>4. Holds(mem, written)
    BY DEF SegmInv, Target
  <2> QED BY <2>2, <2>3, <2>4 DEF Holds
<1> QED BY <1>1, SegmInvariance, PTL


=============================================================================
