---------------------------- MODULE IoPosProofs ----------------------------
(* Facts about the positions of the circular buffer, for every capacity. *)
EXTENDS IoPos, Sequences, TLAPS

(* Around the physical end at most once, the remainder is a subtraction. *)
LEMMA Wrap ==
    ASSUME NEW x \in Nat, x < 2 * Capacity
    PROVE  x % Capacity = IF x < Capacity THEN x ELSE x - Capacity
<1>1. Capacity \in Nat /\ Capacity > 0
  BY CapacityAssumption
<1>2. CASE x < Capacity
  BY <1>1, <1>2, SMT
<1>3. CASE ~(x < Capacity)
  BY <1>1, <1>3, SMT
<1> QED BY <1>2, <1>3

(* CellAt never leaves the buffer, and is a subtraction past the end. *)
LEMMA CellAtWrap ==
    ASSUME NEW r \in Cells, NEW i \in 0 .. Capacity
    PROVE  /\ CellAt(r, i) = IF r + i < Capacity THEN r + i ELSE r + i - Capacity
           /\ CellAt(r, i) \in Cells
BY CapacityAssumption, Wrap DEF CellAt, Cells

(* The count the positions stand for, with the remainder gone. *)
LEMMA DataSizeIs ==
    ASSUME NEW p \in Positions, WellPlaced(p)
    PROVE  /\ DataSize(p) = IF p.rv THEN p.wp + Capacity - p.rp ELSE p.wp - p.rp
           /\ DataSize(p) \in 0 .. Capacity
           /\ FreeSize(p) \in 0 .. Capacity
           /\ FreeSize(p) = Capacity - DataSize(p)
<1>1. p.rp \in Cells /\ p.wp \in Cells /\ p.rv \in BOOLEAN
  BY DEF Positions
<1>2. Capacity \in Nat /\ Capacity >= 2
  BY CapacityAssumption
<1> DEFINE x == p.wp + Capacity - p.rp
<1>3. x \in Nat /\ x < 2 * Capacity
  BY <1>1, <1>2 DEF Cells
<1>4. x % Capacity = IF x < Capacity THEN x ELSE x - Capacity
  BY <1>3, Wrap
<1>5. DataSize(p) = IF p.rv THEN p.wp + Capacity - p.rp ELSE p.wp - p.rp
  BY <1>1, <1>2, <1>4 DEF DataSize, WellPlaced, Cells
<1> QED BY <1>1, <1>2, <1>5 DEF FreeSize, WellPlaced, Cells

(* advance_wp within the free space keeps the convention and adds n. *)
LEMMA AdvanceWpOK ==
    ASSUME NEW p \in Positions, WellPlaced(p),
           NEW n \in Nat, n <= FreeSize(p)
    PROVE  /\ AdvanceWp(p, n) \in Positions
           /\ WellPlaced(AdvanceWp(p, n))
           /\ DataSize(AdvanceWp(p, n)) = DataSize(p) + n
           /\ AdvanceWp(p, n).rp = p.rp
           /\ AdvanceWp(p, n).wp = CellAt(p.wp, n)
<1>1. p.rp \in Cells /\ p.wp \in Cells /\ p.rv \in BOOLEAN
  BY DEF Positions
<1>2. n \in 0 .. Capacity
  BY DataSizeIs, CapacityAssumption
<1> DEFINE t == AdvanceWp(p, n)
<1>3. t.rp = p.rp /\ t.rv = (p.rv \/ p.wp + n >= Capacity)
  BY DEF AdvanceWp
<1>4. t.wp = CellAt(p.wp, n)
  BY DEF AdvanceWp, CellAt
<1>5. t.wp = IF p.wp + n < Capacity THEN p.wp + n ELSE p.wp + n - Capacity
  BY <1>1, <1>2, <1>4, CellAtWrap
<1>6. t \in Positions
  BY <1>1, <1>2, CellAtWrap DEF AdvanceWp, Positions, CellAt
<1>7. DataSize(p) = IF p.rv THEN p.wp + Capacity - p.rp ELSE p.wp - p.rp
  BY DataSizeIs
<1>8. n <= Capacity - DataSize(p)
  BY DataSizeIs, CapacityAssumption
<1> HIDE DEF t
<1>9. WellPlaced(t) /\ DataSize(t) = DataSize(p) + n
  <2>1. WellPlaced(t) => DataSize(t) = IF t.rv THEN t.wp + Capacity - t.rp
                                              ELSE t.wp - t.rp
    BY <1>6, DataSizeIs
  <2>2. CASE p.rv /\ p.wp + n < Capacity
    <3>1. t.wp = p.wp + n
      BY <1>1, <1>2, <1>5, <2>2, CapacityAssumption DEF Cells
    <3>2. t.rv
      BY <1>1, <1>2, <1>3, <2>2, CapacityAssumption DEF Cells
    <3> QED BY <1>1, <1>2, <1>3, <1>7, <1>8, <2>1, <2>2, <3>1, <3>2,
               CapacityAssumption DEF WellPlaced, Cells
  <2>3. CASE p.rv /\ p.wp + n >= Capacity
    <3>1. t.wp = p.wp + n - Capacity
      BY <1>1, <1>2, <1>5, <2>3, CapacityAssumption DEF Cells
    <3>2. t.rv
      BY <1>1, <1>2, <1>3, <2>3, CapacityAssumption DEF Cells
    <3> QED BY <1>1, <1>2, <1>3, <1>7, <1>8, <2>1, <2>3, <3>1, <3>2,
               CapacityAssumption DEF WellPlaced, Cells
  <2>4. CASE ~p.rv /\ p.wp + n < Capacity
    <3>1. t.wp = p.wp + n
      BY <1>1, <1>2, <1>5, <2>4, CapacityAssumption DEF Cells
    <3>2. ~t.rv
      BY <1>1, <1>2, <1>3, <2>4, CapacityAssumption DEF Cells
    <3> QED BY <1>1, <1>2, <1>3, <1>7, <1>8, <2>1, <2>4, <3>1, <3>2,
               CapacityAssumption DEF WellPlaced, Cells
  <2>5. CASE ~p.rv /\ p.wp + n >= Capacity
    <3>1. t.wp = p.wp + n - Capacity
      BY <1>1, <1>2, <1>5, <2>5, CapacityAssumption DEF Cells
    <3>2. t.rv
      BY <1>1, <1>2, <1>3, <2>5, CapacityAssumption DEF Cells
    <3> QED BY <1>1, <1>2, <1>3, <1>7, <1>8, <2>1, <2>5, <3>1, <3>2,
               CapacityAssumption DEF WellPlaced, Cells
  <2> QED BY <1>1, <1>2, <2>2, <2>3, <2>4, <2>5, CapacityAssumption
             DEF Cells
<1> QED BY <1>3, <1>4, <1>6, <1>9 DEF t

(* advance_rp within the data keeps the convention and removes n. *)
LEMMA AdvanceRpOK ==
    ASSUME NEW p \in Positions, WellPlaced(p),
           NEW n \in Nat, n <= DataSize(p)
    PROVE  /\ AdvanceRp(p, n) \in Positions
           /\ WellPlaced(AdvanceRp(p, n))
           /\ DataSize(AdvanceRp(p, n)) = DataSize(p) - n
           /\ AdvanceRp(p, n).wp = p.wp
           /\ AdvanceRp(p, n).rp = CellAt(p.rp, n)
<1>1. p.rp \in Cells /\ p.wp \in Cells /\ p.rv \in BOOLEAN
  BY DEF Positions
<1>2. n \in 0 .. Capacity
  BY DataSizeIs, CapacityAssumption
<1> DEFINE t == AdvanceRp(p, n)
<1>3. t.wp = p.wp /\ t.rv = (p.rv /\ ~(p.rp + n >= Capacity))
  BY DEF AdvanceRp
<1>4. t.rp = CellAt(p.rp, n)
  BY DEF AdvanceRp, CellAt
<1>5. t.rp = IF p.rp + n < Capacity THEN p.rp + n ELSE p.rp + n - Capacity
  BY <1>1, <1>2, <1>4, CellAtWrap
<1>6. t \in Positions
  BY <1>1, <1>2, CellAtWrap DEF AdvanceRp, Positions, CellAt
<1>7. DataSize(p) = IF p.rv THEN p.wp + Capacity - p.rp ELSE p.wp - p.rp
  BY DataSizeIs
<1>8. n <= DataSize(p)
  BY DataSizeIs, CapacityAssumption
<1> HIDE DEF t
<1>9. WellPlaced(t) /\ DataSize(t) = DataSize(p) - n
  <2>1. WellPlaced(t) => DataSize(t) = IF t.rv THEN t.wp + Capacity - t.rp
                                              ELSE t.wp - t.rp
    BY <1>6, DataSizeIs
  <2>2. CASE p.rv /\ p.rp + n < Capacity
    <3>1. t.rp = p.rp + n
      BY <1>1, <1>2, <1>5, <2>2, CapacityAssumption DEF Cells
    <3>2. t.rv
      <4>1. ~(p.rp + n >= Capacity)
        BY <1>1, <1>2, <2>2, CapacityAssumption DEF Cells
      <4> QED BY <1>3, <2>2, <4>1, Zenon
    <3> QED BY <1>1, <1>2, <1>3, <1>7, <1>8, <2>1, <2>2, <3>1, <3>2,
               CapacityAssumption DEF WellPlaced, Cells
  <2>3. CASE p.rv /\ p.rp + n >= Capacity
    <3>1. t.rp = p.rp + n - Capacity
      BY <1>1, <1>2, <1>5, <2>3, CapacityAssumption DEF Cells
    <3>2. ~t.rv
      BY <1>1, <1>2, <1>3, <2>3, CapacityAssumption DEF Cells
    <3> QED BY <1>1, <1>2, <1>3, <1>7, <1>8, <2>1, <2>3, <3>1, <3>2,
               CapacityAssumption DEF WellPlaced, Cells
  <2>4. CASE ~p.rv /\ p.rp + n < Capacity
    <3>1. t.rp = p.rp + n
      BY <1>1, <1>2, <1>5, <2>4, CapacityAssumption DEF Cells
    <3>2. ~t.rv
      BY <1>1, <1>2, <1>3, <2>4, CapacityAssumption DEF Cells
    <3> QED BY <1>1, <1>2, <1>3, <1>7, <1>8, <2>1, <2>4, <3>1, <3>2,
               CapacityAssumption DEF WellPlaced, Cells
  <2>5. CASE ~p.rv /\ p.rp + n >= Capacity
    <3>1. t.rp = p.rp + n - Capacity
      BY <1>1, <1>2, <1>5, <2>5, CapacityAssumption DEF Cells
    <3>2. ~t.rv
      BY <1>1, <1>2, <1>3, <2>5, CapacityAssumption DEF Cells
    <3> QED BY <1>1, <1>2, <1>3, <1>7, <1>8, <2>1, <2>5, <3>1, <3>2,
               CapacityAssumption DEF WellPlaced, Cells
  <2> QED BY <1>1, <1>2, <2>2, <2>3, <2>4, <2>5, CapacityAssumption
             DEF Cells
<1> QED BY <1>3, <1>4, <1>6, <1>9 DEF t

(* Different distances from one index are different cells. *)
LEMMA CellAtInjective ==
    ASSUME NEW r \in Cells, NEW i \in Cells, NEW j \in Cells,
           CellAt(r, i) = CellAt(r, j)
    PROVE  i = j
<1>1. i \in 0 .. Capacity /\ j \in 0 .. Capacity
  BY CapacityAssumption DEF Cells
<1>2. CellAt(r, i) = IF r + i < Capacity THEN r + i ELSE r + i - Capacity
  BY <1>1, CellAtWrap
<1>3. CellAt(r, j) = IF r + j < Capacity THEN r + j ELSE r + j - Capacity
  BY <1>1, CellAtWrap
<1>4. (IF r + i < Capacity THEN r + i ELSE r + i - Capacity)
        = (IF r + j < Capacity THEN r + j ELSE r + j - Capacity)
  BY <1>2, <1>3, Zenon
<1> QED BY <1>4, CapacityAssumption DEF Cells

(* The write position is where the data ends. *)
LEMMA WriteAfterData ==
    ASSUME NEW p \in Positions, WellPlaced(p),
           NEW j \in Nat, j < FreeSize(p)
    PROVE  /\ DataSize(p) + j \in Cells
           /\ CellAt(p.wp, j) = CellAt(p.rp, DataSize(p) + j)
<1>1. p.rp \in Cells /\ p.wp \in Cells
  BY DEF Positions
<1>2. /\ j \in 0 .. Capacity
      /\ DataSize(p) + j \in 0 .. Capacity
      /\ DataSize(p) + j \in Cells
  BY DataSizeIs, CapacityAssumption DEF Cells
<1>3. DataSize(p) = IF p.rv THEN p.wp + Capacity - p.rp ELSE p.wp - p.rp
  BY DataSizeIs
<1> DEFINE k == DataSize(p) + j
<1>4. CellAt(p.wp, j) = IF p.wp + j < Capacity THEN p.wp + j
                                               ELSE p.wp + j - Capacity
  BY <1>1, <1>2, CellAtWrap
<1>5. CellAt(p.rp, k) = IF p.rp + k < Capacity THEN p.rp + k
                                               ELSE p.rp + k - Capacity
  BY <1>1, <1>2, CellAtWrap
<1>6. CASE p.rv
  BY <1>1, <1>2, <1>3, <1>4, <1>5, <1>6, CapacityAssumption
     DEF WellPlaced, Cells
<1>7. CASE ~p.rv
  BY <1>1, <1>2, <1>3, <1>4, <1>5, <1>7, CapacityAssumption
     DEF WellPlaced, Cells
<1> QED BY <1>2, <1>6, <1>7

(* Walking n cells and then i more is walking n + i cells. *)
LEMMA CellAtShift ==
    ASSUME NEW r \in Cells, NEW n \in Nat, NEW i \in Nat, n + i <= Capacity
    PROVE  CellAt(CellAt(r, n), i) = CellAt(r, n + i)
<1>1. n \in 0 .. Capacity /\ i \in 0 .. Capacity /\ n + i \in 0 .. Capacity
  BY CapacityAssumption
<1> DEFINE c == CellAt(r, n)
<1>2. c \in Cells /\ c = IF r + n < Capacity THEN r + n ELSE r + n - Capacity
  BY <1>1, CellAtWrap
<1>3. CellAt(c, i) = IF c + i < Capacity THEN c + i ELSE c + i - Capacity
  <2> HIDE DEF c
  <2> QED BY <1>1, <1>2, CellAtWrap
<1>4. CellAt(r, n + i) = IF r + (n + i) < Capacity THEN r + (n + i)
                                              ELSE r + (n + i) - Capacity
  BY <1>1, CellAtWrap
<1> HIDE DEF c
<1>5. CellAt(c, i) = CellAt(r, n + i)
  BY <1>1, <1>2, <1>3, <1>4, CapacityAssumption DEF Cells
<1> QED BY <1>5 DEF c

(* The free cells and the data cells are disjoint: a region lent to a writer
   never overlaps one lent to a reader. *)
THEOREM RegionsDisjoint ==
    ASSUME NEW p \in Positions, WellPlaced(p),
           NEW m \in Nat, m <= FreeSize(p),
           NEW n \in Nat, n <= DataSize(p)
    PROVE  Region(p.wp, m) \cap Region(p.rp, n) = {}
<1> SUFFICES ASSUME NEW j \in 0 .. m - 1, NEW i \in 0 .. n - 1,
                    CellAt(p.wp, j) = CellAt(p.rp, i)
             PROVE  FALSE
  BY DEF Region
<1>1. p.rp \in Cells /\ DataSize(p) \in 0 .. Capacity /\ FreeSize(p) \in 0 .. Capacity
  BY DataSizeIs DEF Positions
<1>2. j \in Nat /\ j < FreeSize(p) /\ i \in Nat /\ i < DataSize(p) /\ i \in Cells
  BY <1>1, CapacityAssumption DEF Cells
<1>3. DataSize(p) + j \in Cells /\ CellAt(p.rp, DataSize(p) + j) = CellAt(p.rp, i)
  BY <1>2, WriteAfterData
<1>4. DataSize(p) + j = i
  BY <1>1, <1>2, <1>3, CellAtInjective
<1> QED BY <1>1, <1>2, <1>4

-----------------------------------------------------------------------------
(* Item numbers are kept modulo some m.                                    *)

(* A remainder is below the modulus. *)
LEMMA ModType ==
    ASSUME NEW m \in Nat \ {0}, NEW x \in Nat
    PROVE  x % m \in 0 .. m - 1
OBVIOUS

(* Below three times the modulus, the remainder is a subtraction. *)
LEMMA ModSmall ==
    ASSUME NEW m \in Nat \ {0}, NEW x \in Nat, x < 3 * m
    PROVE  x % m = IF x < m THEN x ELSE IF x < 2 * m THEN x - m ELSE x - 2 * m
OBVIOUS

(* Counting on from a number that was reduced, by less than the modulus. *)
LEMMA ModShift ==
    ASSUME NEW m \in Nat \ {0}, NEW a \in 0 .. m - 1, NEW n \in Nat, NEW i \in Nat,
           n + i <= m
    PROVE  (((a + n) % m) + i) % m = (a + (n + i)) % m
<1>1. PICK x \in Nat : x = a + n
  OBVIOUS
<1>2. PICK y \in Nat : y = a + (n + i)
  OBVIOUS
<1>3. PICK b \in Nat : b = x % m /\ b = IF x < m THEN x ELSE x - m
  <2>1. x < 3 * m /\ x < 2 * m
    BY <1>1
  <2>2. x % m = IF x < m THEN x ELSE x - m
    BY <2>1, ModSmall
  <2> QED BY <2>1, <2>2
<1>4. PICK c \in Nat : c = b + i
  OBVIOUS
<1>5. y < 3 * m /\ y < 2 * m /\ c < 3 * m /\ c < 2 * m
  BY <1>1, <1>2, <1>3, <1>4
<1>6. y % m = (IF y < m THEN y ELSE y - m) /\ c % m = (IF c < m THEN c ELSE c - m)
  BY <1>5, ModSmall
<1>7. c % m = y % m
  BY <1>1, <1>2, <1>3, <1>4, <1>6
<1> QED BY <1>1, <1>2, <1>3, <1>4, <1>7

(* Going back from a number that was reduced. *)
LEMMA ModBack ==
    ASSUME NEW m \in Nat \ {0}, NEW a \in 0 .. m - 1, NEW n \in 0 .. m - 1, NEW i \in 0 .. n - 1
    PROVE  (((a + n) % m) + m - n + i) % m = (a + i) % m
<1>1. PICK x \in Nat : x = a + n
  OBVIOUS
<1>2. PICK y \in Nat : y = a + i
  OBVIOUS
<1>3. PICK b \in Nat : b = x % m /\ b = IF x < m THEN x ELSE x - m
  <2>1. x < 3 * m /\ x < 2 * m
    BY <1>1
  <2>2. x % m = IF x < m THEN x ELSE x - m
    BY <2>1, ModSmall
  <2> QED BY <2>1, <2>2
<1>4. PICK c \in Nat : c = b + m - n + i
  BY <1>1, <1>3
<1>5. y < 3 * m /\ y < 2 * m /\ c < 3 * m
  BY <1>1, <1>2, <1>3, <1>4
<1>6. /\ y % m = (IF y < m THEN y ELSE y - m)
      /\ c % m = (IF c < m THEN c ELSE IF c < 2 * m THEN c - m ELSE c - 2 * m)
  BY <1>5, ModSmall
<1>7. c % m = y % m
  BY <1>1, <1>2, <1>3, <1>4, <1>6
<1> QED BY <1>1, <1>2, <1>3, <1>4, <1>7

-----------------------------------------------------------------------------
(* Queues of consecutive numbers.                                        *)

(* Appending a batch of n items to a queue of m. *)
LEMMA BatchAppend ==
    ASSUME NEW b \in Nat, NEW m \in Nat, NEW n \in Nat
    PROVE  [i \in 1 .. m + n |-> b + i]
             = [i \in 1 .. m |-> b + i] \o [i \in 1 .. n |-> (b + m) + i]
<1> DEFINE u == [i \in 1 .. m |-> b + i]
           v == [i \in 1 .. n |-> (b + m) + i]
<1>1. u \in Seq(Nat) /\ v \in Seq(Nat) /\ Len(u) = m /\ Len(v) = n
  OBVIOUS
<1>2. /\ DOMAIN (u \o v) = 1 .. m + n
      /\ \A i \in 1 .. m + n : (u \o v)[i] = b + i
  BY <1>1
<1> QED BY <1>1, <1>2

(* Removing the n oldest of m items. *)
LEMMA BatchRemove ==
    ASSUME NEW b \in Nat, NEW m \in Nat, NEW n \in 0 .. m
    PROVE  [i \in 1 .. m - n |-> (b + n) + i]
             = SubSeq([i \in 1 .. m |-> b + i], n + 1, m)
<1> DEFINE u == [i \in 1 .. m |-> b + i]
<1>1. u \in Seq(Nat) /\ Len(u) = m
  OBVIOUS
<1>2. /\ DOMAIN SubSeq(u, n + 1, m) = 1 .. m - n
      /\ \A i \in 1 .. m - n : SubSeq(u, n + 1, m)[i] = (b + n) + i
  BY <1>1
<1> QED BY <1>1, <1>2

=============================================================================
