-------------------------- MODULE CircActiveProofs --------------------------
(***************************************************************************)
(* What goes out is what came in, for every capacity: the circular buffer  *)
(* with a device at one end or at both, and the join of two buffers.       *)
(***************************************************************************)
EXTENDS CircPipeline, CircMixed, PipeJoin, IoPosProofs, SequenceTheorems, TLAPS

-----------------------------------------------------------------------------
(* Pipeline: both ends are devices.                                        *)

(* The cells that hold data hold the items between the last one delivered and
   the last one read. *)
PipeRing ==
    /\ WellPlaced(pos)
    /\ \A i \in 0 .. DataSize(pos) - 1 : cells[CellAt(pos.rp, i)] = (nOut + i) % Modulus
    /\ nIn = (nOut + DataSize(pos)) % Modulus

(* The ring is untouched when the input device is polled for the first time. *)
PipeStart == pc = "initIn" => pos = StartPos

PipeInv == TypeOK /\ PipeRing /\ PipeStart /\ DeliveredInOrder /\ SlotOnlyWhileParked

(* The constants, and what positions stand for. *)
LEMMA PipeFacts ==
    ASSUME pos \in Positions, WellPlaced(pos)
    PROVE  /\ Capacity \in Nat /\ Capacity >= 2
           /\ Modulus \in Nat \ {0} /\ Modulus > Capacity
           /\ pos.rp \in Cells /\ pos.wp \in Cells
           /\ DataSize(pos) \in 0 .. Capacity /\ FreeSize(pos) \in 0 .. Capacity
           /\ FreeSize(pos) = Capacity - DataSize(pos)
BY CapacityAssumption, ModulusAssumption, DataSizeIs DEF Positions

(* The input device fills n cells that lie before the physical end. *)
LEMMA FillKeepsRing ==
    ASSUME TypeOK, PipeRing, NEW n \in Nat, n <= FreeSize(pos), pos.wp + n <= Capacity,
           Fill(n), nOut' = nOut
    PROVE  /\ pos' \in Positions /\ cells' \in [Cells -> 0 .. Modulus - 1]
           /\ nIn' \in 0 .. Modulus - 1
           /\ PipeRing'
<1>1. pos \in Positions /\ WellPlaced(pos) /\ nOut \in 0 .. Modulus - 1 /\ nIn \in 0 .. Modulus - 1
  BY DEF TypeOK, PipeRing
<1>2. /\ Capacity \in Nat /\ Capacity >= 2
      /\ Modulus \in Nat \ {0} /\ Modulus > Capacity
      /\ pos.rp \in Cells /\ pos.wp \in Cells
      /\ DataSize(pos) \in 0 .. Capacity /\ FreeSize(pos) \in 0 .. Capacity
      /\ FreeSize(pos) = Capacity - DataSize(pos)
  BY <1>1, PipeFacts
<1>3. /\ pos' \in Positions /\ WellPlaced(pos') /\ DataSize(pos') = DataSize(pos) + n
      /\ pos'.rp = pos.rp
  BY <1>1, AdvanceWpOK DEF Fill
<1>4. PICK d \in Nat : d = DataSize(pos) /\ d + n <= Capacity
  BY <1>2
<1>5. ASSUME NEW j \in Nat, j <= n
      PROVE  (nIn + j) % Modulus = (nOut + (d + j)) % Modulus
  <2>1. nIn = (nOut + d) % Modulus
    BY <1>4 DEF PipeRing
  <2>2. d + j <= Modulus
    BY <1>2, <1>4, <1>5
  <2>3. (((nOut + d) % Modulus) + j) % Modulus = (nOut + (d + j)) % Modulus
    BY <1>1, <1>2, <2>2, ModShift
  <2> QED BY <2>1, <2>3
<1>6. ASSUME NEW j \in Nat, j < n
      PROVE  CellAt(pos.wp, j) = pos.wp + j /\ CellAt(pos.wp, j) = CellAt(pos.rp, d + j)
  <2>1. j \in 0 .. Capacity /\ pos.wp + j < Capacity /\ j < FreeSize(pos)
    BY <1>2, <1>6 DEF Cells
  <2> QED BY <1>1, <1>2, <1>4, <2>1, CellAtWrap, WriteAfterData
<1>7. ASSUME NEW i \in 0 .. d + n - 1
      PROVE  cells'[CellAt(pos.rp, i)] = (nOut + i) % Modulus
  <2>1. i \in 0 .. Capacity /\ CellAt(pos.rp, i) \in Cells
    BY <1>2, <1>4, CellAtWrap
  <2>2. CASE i < d
    <3>1. CellAt(pos.rp, i) \notin pos.wp .. pos.wp + n - 1
      <4> SUFFICES ASSUME CellAt(pos.rp, i) \in pos.wp .. pos.wp + n - 1
                   PROVE  FALSE
        OBVIOUS
      <4>0. PICK j \in 0 .. n - 1 : CellAt(pos.rp, i) = pos.wp + j
        <5>1. PICK c \in Cells : c = CellAt(pos.rp, i)
          BY <2>1
        <5>2. PICK j \in 0 .. n - 1 : c = pos.wp + j
          <6>1. c - pos.wp \in 0 .. n - 1 /\ c = pos.wp + (c - pos.wp)
            BY <1>2, <5>1 DEF Cells
          <6> QED BY <6>1
        <5> QED BY <5>1, <5>2
      <4>1. CellAt(pos.wp, j) = CellAt(pos.rp, i)
        BY <1>6, <4>0
      <4>2. CellAt(pos.wp, j) \in Region(pos.wp, n) /\ CellAt(pos.rp, i) \in Region(pos.rp, d)
        BY <2>2 DEF Region
      <4> QED BY <1>1, <1>2, <1>4, <4>1, <4>2, RegionsDisjoint
    <3>2. cells'[CellAt(pos.rp, i)] = cells[CellAt(pos.rp, i)]
      BY <2>1, <3>1 DEF Fill
    <3> QED BY <1>4, <2>2, <3>2 DEF PipeRing
  <2>3. CASE i >= d
    <3>1. PICK j \in Nat : j = i - d /\ j < n
      BY <1>4, <2>3
    <3>2. CellAt(pos.rp, i) = pos.wp + j
      BY <1>6, <3>1
    <3>3. pos.wp + j \in pos.wp .. pos.wp + n - 1 /\ (pos.wp + j) - pos.wp = j
      BY <1>2, <3>1 DEF Cells
    <3>4. cells'[pos.wp + j] = (nIn + ((pos.wp + j) - pos.wp)) % Modulus
      BY <2>1, <3>2, <3>3 DEF Fill
    <3>5. cells'[CellAt(pos.rp, i)] = (nIn + j) % Modulus
      BY <3>2, <3>3, <3>4
    <3> QED BY <1>5, <3>1, <3>5
  <2> QED BY <1>4, <2>2, <2>3
<1>8. cells' \in [Cells -> 0 .. Modulus - 1]
  <2>1. ASSUME NEW c \in Cells, c \in pos.wp .. pos.wp + n - 1
        PROVE  (nIn + (c - pos.wp)) % Modulus \in 0 .. Modulus - 1
    <3>1. PICK x \in Nat : x = nIn + (c - pos.wp)
      BY <1>1, <1>2, <2>1 DEF Cells
    <3> QED BY <1>2, <3>1, ModType
  <2> QED BY <2>1 DEF Fill, TypeOK
<1>9. nIn' \in 0 .. Modulus - 1
  <2>1. PICK x \in Nat : x = nIn + n
    BY <1>1
  <2> QED BY <1>2, <2>1, ModType DEF Fill
<1>10. PipeRing'
  <2>1. nIn' = (nOut + (d + n)) % Modulus
    BY <1>5 DEF Fill
  <2>2. DataSize(pos)' = d + n /\ WellPlaced(pos)' /\ CellAt(pos.rp, 0)' = CellAt(pos.rp, 0)
    BY <1>3, <1>4 DEF DataSize, WellPlaced, CellAt
  <2> QED BY <1>3, <1>4, <1>7, <2>1, <2>2 DEF PipeRing, CellAt
<1> QED BY <1>3, <1>8, <1>9, <1>10

(* The output device takes n items. *)
LEMMA DeliverKeepsRing ==
    ASSUME TypeOK, PipeRing, NEW n \in Nat, n <= DataSize(pos),
           Deliver(n), nIn' = nIn, cells' = cells
    PROVE  /\ pos' \in Positions /\ nOut' \in 0 .. Modulus - 1
           /\ batch' \in Seq(0 .. Modulus - 1)
           /\ PipeRing' /\ DeliveredInOrder'
<1>1. pos \in Positions /\ WellPlaced(pos) /\ nOut \in 0 .. Modulus - 1 /\ nIn \in 0 .. Modulus - 1
  BY DEF TypeOK, PipeRing
<1>2. /\ Capacity \in Nat /\ Capacity >= 2
      /\ Modulus \in Nat \ {0} /\ Modulus > Capacity
      /\ pos.rp \in Cells /\ pos.wp \in Cells
      /\ DataSize(pos) \in 0 .. Capacity
  BY <1>1, PipeFacts
<1>3. /\ pos' \in Positions /\ WellPlaced(pos') /\ DataSize(pos') = DataSize(pos) - n
      /\ pos'.rp = CellAt(pos.rp, n)
  BY <1>1, AdvanceRpOK DEF Deliver
<1>4. PICK d \in Nat : d = DataSize(pos) /\ n <= d /\ d <= Capacity
  BY <1>2
<1>5. nOut' = (nOut + n) % Modulus /\ nOut' \in 0 .. Modulus - 1
  <2>1. PICK x \in Nat : x = nOut + n
    BY <1>1
  <2> QED BY <1>2, <2>1, ModType DEF Deliver
<1>6. ASSUME NEW i \in 1 .. n
      PROVE  /\ batch'[i] = (nOut + (i - 1)) % Modulus /\ batch'[i] \in 0 .. Modulus - 1
             /\ batch'[i] = (nOut' + Modulus - n + (i - 1)) % Modulus
  <2>1. PICK j \in 0 .. n - 1 : j = i - 1
    OBVIOUS
  <2>2. batch'[i] = cells[CellAt(pos.rp, j)]
    BY <2>1 DEF Deliver
  <2>3. batch'[i] = (nOut + j) % Modulus
    BY <1>4, <2>2 DEF PipeRing
  <2>4. (((nOut + n) % Modulus) + Modulus - n + j) % Modulus = (nOut + j) % Modulus
    <3>1. n \in 0 .. Modulus - 1
      BY <1>2, <1>4
    <3> QED BY <1>1, <1>2, <2>1, <3>1, ModBack
  <2>5. (nOut + j) % Modulus \in 0 .. Modulus - 1
    <3>1. PICK x \in Nat : x = nOut + j
      BY <1>1
    <3> QED BY <1>2, <3>1, ModType
  <2> QED BY <1>5, <2>1, <2>3, <2>4, <2>5
<1>7. batch' \in Seq(0 .. Modulus - 1) /\ Len(batch') = n
  <2> DEFINE S == 0 .. Modulus - 1
  <2>1. ASSUME NEW i \in 1 .. n PROVE cells[CellAt(pos.rp, i - 1)] \in S
    BY <1>6 DEF Deliver
  <2> HIDE DEF S
  <2>2. /\ [i \in 1 .. n |-> cells[CellAt(pos.rp, i - 1)]] \in Seq(S)
        /\ Len([i \in 1 .. n |-> cells[CellAt(pos.rp, i - 1)]]) = n
    BY <2>1
  <2> QED BY <2>2 DEF Deliver, S
<1>8. DeliveredInOrder'
  BY <1>6, <1>7 DEF DeliveredInOrder
<1>9. ASSUME NEW i \in 0 .. (d - n) - 1
      PROVE  cells[CellAt(CellAt(pos.rp, n), i)] = (((nOut + n) % Modulus) + i) % Modulus
  <2>1. i \in Nat /\ n + i <= Capacity /\ n + i \in 0 .. d - 1
    BY <1>2, <1>4
  <2>2. CellAt(CellAt(pos.rp, n), i) = CellAt(pos.rp, n + i)
    BY <1>2, <2>1, CellAtShift
  <2>3. cells[CellAt(pos.rp, n + i)] = (nOut + (n + i)) % Modulus
    BY <1>4, <2>1 DEF PipeRing
  <2>4. (((nOut + n) % Modulus) + i) % Modulus = (nOut + (n + i)) % Modulus
    BY <1>1, <1>2, <2>1, ModShift
  <2> QED BY <2>2, <2>3, <2>4
<1>10. nIn = (((nOut + n) % Modulus) + (d - n)) % Modulus
  <2>1. PICK i \in Nat : i = d - n /\ n + i = d /\ n + i <= Modulus
    BY <1>2, <1>4
  <2>2. (((nOut + n) % Modulus) + i) % Modulus = (nOut + (n + i)) % Modulus
    BY <1>1, <1>2, <2>1, ModShift
  <2> QED BY <1>4, <2>1, <2>2 DEF PipeRing
<1>11. PipeRing'
  <2>1. DataSize(pos)' = d - n /\ WellPlaced(pos)'
    BY <1>3, <1>4 DEF DataSize, WellPlaced
  <2>2. \A i \in 0 .. (d - n) - 1 : cells'[CellAt(pos'.rp, i)] = (nOut' + i) % Modulus
    BY <1>3, <1>5, <1>9
  <2>3. nIn' = (nOut' + (d - n)) % Modulus
    BY <1>5, <1>10
  <2> QED BY <2>1, <2>2, <2>3 DEF PipeRing, CellAt
<1> QED BY <1>3, <1>5, <1>7, <1>8, <1>11

(* The task begins in the invariant. *)
LEMMA PipeInitInv == Init => PipeInv
<1> SUFFICES ASSUME Init PROVE PipeInv
  OBVIOUS
<1>1. /\ Capacity \in Nat /\ Capacity >= 2 /\ Modulus \in Nat \ {0} /\ Modulus > Capacity
  BY CapacityAssumption, ModulusAssumption
<1>2. StartPos \in Positions /\ WellPlaced(StartPos)
  BY <1>1 DEF StartPos, Positions, WellPlaced, Cells
<1>3. DataSize(StartPos) = 0
  <2>1. DataSize(StartPos) = IF StartPos.rv THEN StartPos.wp + Capacity - StartPos.rp
                                            ELSE StartPos.wp - StartPos.rp
    BY <1>2, DataSizeIs
  <2> QED BY <2>1 DEF StartPos
<1>4. TypeOK
  <2>1. 0 \in 0 .. Modulus - 1 /\ 0 \in 0 .. Capacity
    BY <1>1
  <2>2. pos \in Positions /\ cells \in [Cells -> 0 .. Modulus - 1]
    BY <1>2, <2>1 DEF Init
  <2>3. stndby \in [Ends -> BOOLEAN] /\ slot \in [Ends -> BOOLEAN]
    BY DEF Init
  <2>4. batch \in Seq(0 .. Modulus - 1)
    BY DEF Init
  <2> QED BY <2>1, <2>2, <2>3, <2>4 DEF Init, TypeOK
<1>5. PipeRing
  <2>1. (0 + 0) % Modulus = 0
    BY <1>1, ModSmall
  <2> QED BY <1>2, <1>3, <2>1 DEF Init, PipeRing
<1>6. PipeStart /\ DeliveredInOrder /\ SlotOnlyWhileParked
  BY DEF Init, PipeStart, DeliveredInOrder, SlotOnlyWhileParked, Ends
<1> QED BY <1>4, <1>5, <1>6 DEF PipeInv

(* A step that does not touch the ring. *)
LEMMA RingUntouched ==
    ASSUME PipeRing, DeliveredInOrder, UNCHANGED <<pos, cells, nIn, nOut, batch>>
    PROVE  PipeRing' /\ DeliveredInOrder'
BY DEF PipeRing, DeliveredInOrder, WellPlaced, DataSize, CellAt

(* Every step of the task, of its caller and of the devices keeps it. *)
LEMMA PipeStep == PipeInv /\ [Next]_vars => PipeInv'
<1> SUFFICES ASSUME PipeInv, [Next]_vars PROVE PipeInv'
  OBVIOUS
<1>1. TypeOK /\ PipeRing /\ PipeStart /\ DeliveredInOrder /\ SlotOnlyWhileParked
  BY DEF PipeInv
<1>2. pos \in Positions /\ WellPlaced(pos)
  BY <1>1 DEF TypeOK, PipeRing
<1>3. /\ Capacity \in Nat /\ Capacity >= 2
      /\ Modulus \in Nat \ {0} /\ Modulus > Capacity
      /\ pos.rp \in Cells /\ pos.wp \in Cells
      /\ DataSize(pos) \in 0 .. Capacity /\ FreeSize(pos) \in 0 .. Capacity
  BY <1>2, PipeFacts
<1> DEFINE Flags == /\ stndby' \in [Ends -> BOOLEAN] /\ slot' \in [Ends -> BOOLEAN]
                    /\ pc' \in {"initOut", "ready", "loop", "reading", "output",
                                "writing", "round", "parkedTx", "parkedRx", "pending"}
                    /\ inMoved' \in 0 .. Capacity /\ outMoved' \in 0 .. Capacity
                    /\ cancelled' \in BOOLEAN /\ blocking' = blocking
                    /\ SlotOnlyWhileParked'
<1>4. ASSUME Flags, UNCHANGED <<pos, cells, nIn, nOut, batch>> PROVE PipeInv'
  BY <1>1, <1>4, RingUntouched DEF PipeInv, TypeOK, PipeStart
<1>5. ASSUME Flags, NEW n \in Nat, n <= FreeSize(pos), pos.wp + n <= Capacity, Fill(n),
             UNCHANGED <<nOut, batch>>
      PROVE  PipeInv'
  <2>1. DeliveredInOrder'
    BY <1>1, <1>5 DEF DeliveredInOrder
  <2>2. /\ pos' \in Positions /\ cells' \in [Cells -> 0 .. Modulus - 1]
        /\ nIn' \in 0 .. Modulus - 1 /\ PipeRing'
    BY <1>1, <1>5, FillKeepsRing
  <2>3. TypeOK' /\ PipeStart'
    BY <1>1, <1>5, <2>2 DEF TypeOK, PipeStart
  <2> QED BY <1>5, <2>1, <2>2, <2>3 DEF PipeInv
<1>6. ASSUME Flags, NEW n \in Nat, n <= DataSize(pos), Deliver(n), UNCHANGED <<nIn, cells>>
      PROVE  PipeInv'
  <2>1. /\ pos' \in Positions /\ nOut' \in 0 .. Modulus - 1
        /\ batch' \in Seq(0 .. Modulus - 1) /\ PipeRing' /\ DeliveredInOrder'
    BY <1>1, <1>6, DeliverKeepsRing
  <2>2. TypeOK' /\ PipeStart'
    BY <1>1, <1>6, <2>1 DEF TypeOK, PipeStart
  <2> QED BY <1>6, <2>1, <2>2 DEF PipeInv
<1>a. CASE InitInput
  <2>1. PICK n \in 0 .. FreeSize(pos) : Fill(n)
    BY <1>a DEF InitInput
  <2>2. n \in Nat /\ n <= FreeSize(pos) /\ pos.wp + n <= Capacity
    BY <1>1, <1>3, <1>a DEF InitInput, PipeStart, StartPos
  <2>3. Flags /\ UNCHANGED <<nOut, batch>>
    BY <1>1, <1>a DEF InitInput, TypeOK, SlotOnlyWhileParked, Ends
  <2> QED BY <1>5, <2>1, <2>2, <2>3
<1>b. CASE InitOutput
  <2>1. PICK n \in 0 .. DataSize(pos) : Deliver(n)
    BY <1>b DEF InitOutput
  <2>2. n \in Nat /\ n <= DataSize(pos)
    BY <1>3
  <2>3. Flags /\ UNCHANGED <<nIn, cells>>
    BY <1>1, <1>b DEF InitOutput, TypeOK, SlotOnlyWhileParked, Ends
  <2> QED BY <1>6, <2>1, <2>2, <2>3
<1>c. CASE Pipe \/ Cancel
  <2>1. Flags /\ UNCHANGED <<pos, cells, nIn, nOut, batch>>
    BY <1>1, <1>c DEF Pipe, Cancel, TypeOK, SlotOnlyWhileParked, Ends
  <2> QED BY <1>4, <2>1
<1>d. CASE Loop \/ Output
  <2>1. Flags /\ UNCHANGED <<pos, cells, nIn, nOut, batch>>
    BY <1>1, <1>3, <1>d DEF Loop, Output, TypeOK, SlotOnlyWhileParked, Ends
  <2> QED BY <1>4, <2>1
<1>e. CASE InputAnswers
  <2>1. PICK n \in Answers(InTake(pos)) :
            /\ inMoved' = n /\ Fill(n)
            /\ slot' = [slot EXCEPT !["rx"] = @ /\ ~(stndby["rx"] /\ n > 0)]
    BY <1>e DEF InputAnswers
  <2>2. n \in Nat /\ n <= FreeSize(pos) /\ pos.wp + n <= Capacity
    BY <1>3, <2>1 DEF Answers, InTake, Cells
  <2>3. Flags /\ UNCHANGED <<nOut, batch>>
    BY <1>1, <1>3, <1>e, <2>1, <2>2 DEF InputAnswers, TypeOK, SlotOnlyWhileParked, Ends
  <2> QED BY <1>5, <2>1, <2>2, <2>3
<1>f. CASE OutputAnswers
  <2>1. PICK n \in Answers(OutTake(pos)) :
            /\ outMoved' = n /\ Deliver(n)
            /\ slot' = [slot EXCEPT !["tx"] = @ /\ ~(stndby["tx"] /\ n > 0)]
    BY <1>f DEF OutputAnswers
  <2>2. n \in Nat /\ n <= DataSize(pos)
    BY <1>3, <2>1 DEF Answers, OutTake, Cells
  <2>3. Flags /\ UNCHANGED <<nIn, cells>>
    BY <1>1, <1>3, <1>f, <2>1, <2>2 DEF OutputAnswers, TypeOK, SlotOnlyWhileParked, Ends
  <2> QED BY <1>6, <2>1, <2>2, <2>3
<1>g. CASE Round
  <2>1. Flags /\ UNCHANGED <<pos, cells, nIn, nOut, batch>>
    BY <1>1, <1>g DEF Round, TypeOK, SlotOnlyWhileParked, Ends
  <2> QED BY <1>4, <2>1
<1>h. CASE DropPipe
  <2>1. Flags /\ UNCHANGED <<pos, cells, nIn, nOut, batch>>
    BY <1>1, <1>h DEF DropPipe, TypeOK, SlotOnlyWhileParked, Ends
  <2> QED BY <1>4, <2>1
<1>i. CASE UNCHANGED vars
  <2>1. PipeRing' /\ DeliveredInOrder'
    BY <1>1, <1>i, RingUntouched DEF vars
  <2> QED BY <1>1, <1>i, <2>1 DEF vars, PipeInv, TypeOK, PipeStart, SlotOnlyWhileParked
<1> QED BY <1>a, <1>b, <1>c, <1>d, <1>e, <1>f, <1>g, <1>h, <1>i DEF Next, Task, Caller

(* The invariant of the pipeline holds throughout. *)
THEOREM PipeInvariance == Spec => []PipeInv
BY PipeInitInv, PipeStep, PTL DEF Spec

(* The output device receives the items the input device delivered, in order,
   none missing and none twice, however the devices split them and wherever
   the ring wraps. *)
THEOREM PipelineInOrder == Spec => []DeliveredInOrder
<1>1. PipeInv => DeliveredInOrder
  BY DEF PipeInv
<1> QED BY <1>1, PipeInvariance, PTL

(* No waiter of a pipeline future outlives its park. *)
THEOREM NoSlotLeft == Spec => []SlotOnlyWhileParked
<1>1. PipeInv => SlotOnlyWhileParked
  BY DEF PipeInv
<1> QED BY <1>1, PipeInvariance, PTL

-----------------------------------------------------------------------------
(* Mixed composition: one end is a device, the other a half.  The ring, with *)
(* the segment the device has open: items it has put in are in their cells  *)
(* and not committed yet, items it has taken are gone and not committed yet.*)

Taken(s) == IF mixMode = "out" THEN s ELSE 0
Held(p, s) == IF mixMode = "in" THEN DataSize(p) + s ELSE DataSize(p) - s

(* From the cell f units after the read index on, k cells hold the items
   numbered from l on. *)
Holds(cs, r, f, k, l) == \A j \in 0 .. k - 1 : cs[CellAt(r, f + j)] = Number(l + j)

(* The ring at position p with cells cs, of whose device segment s cells are
   used, l and e being the next item to leave and to enter. *)
RingAt(p, cs, s, l, e) ==
    /\ p \in Positions /\ WellPlaced(p)
    /\ cs \in [Cells -> 0 .. Capacity]
    /\ s \in Nat /\ s <= Room(DevEnd, p)
    /\ l \in 0 .. Capacity
    /\ Holds(cs, p.rp, Taken(s), Held(p, s), l)
    /\ e = Number(l + Held(p, s))

Ops == {"none", "build", "try", "async", "commit", "close", "drain"}
Pumps == {"none", "poll", "await"}
Calls == [op : Ops, min : Minima, pump : Pumps, moved : BOOLEAN]

MixPcs == {"build", "idle", "try", "retry", "holding", "pump", "react", "pumped",
           "parked", "drain", "drained", "gone"}

(* Types, and the ring. *)
MixRing == /\ mixMode \in {"in", "out"} /\ mixPc \in MixPcs /\ call \in Calls
           /\ token \in BOOLEAN /\ progress \in BOOLEAN /\ mixClosed \in BOOLEAN
           /\ refusals \in 0 .. 2
           /\ RingAt(mixPos, mixCells, segm, left, entered)

(* The device holds a segment only while it is lent, and one that is lent has
   a cell left. *)
SegmOnlyLent == /\ mixPc # "react" => segm = 0
                /\ mixPc = "react" => segm < Room(DevEnd, mixPos)

(* Which call is in progress, where the code goes by the place. *)
CallInv == /\ mixPc \in {"try", "retry"} => call.op \in {"try", "async"}
           /\ mixPc \in {"drain", "drained"} => call.op = "drain" /\ call.pump = "await"
           /\ call.op = "drain" => mixMode = "out"

(* Once the read end is closed, a pump is only begun by a commit or the close
   itself, and finds the end closed. *)
ClosedInv == mixMode = "in" /\ mixClosed =>
                 /\ mixPc \in {"idle", "try", "holding", "pump", "pumped", "gone"}
                 /\ mixPc \in {"pump", "pumped"} =>
                        call.op \in {"commit", "close"} /\ call.pump = "poll"

RingEmpty == DataSize(mixPos) = 0
MayGiveUp == refusals = 2 \/ (refusals = 1 /\ ~progress)

(* The drain of close_async: a turn of it that begins after some progress
   begins after a refusal, and ends with another one or with the ring empty. *)
DrainInv ==
    call.op = "drain" /\ call.pump = "await" =>
        /\ mixPc = "drain" => RingEmpty \/ ~progress \/ refusals >= 1
        /\ mixPc \in {"pump", "react"} /\ ~call.moved /\ segm = 0
              => RingEmpty \/ ~progress \/ refusals >= 1
        /\ mixPc = "pumped" => RingEmpty \/ (refusals >= 1 /\ (call.moved \/ MayGiveUp))
        /\ mixPc = "drained" => RingEmpty \/ token \/ MayGiveUp

MixInv == MixRing /\ SegmOnlyLent /\ CallInv /\ ClosedInv /\ DrainInv /\ MixInOrder

(* Item numbers of this composition. *)
LEMMA Numbers ==
    /\ Capacity \in Nat /\ Capacity >= 2
    /\ \A x \in Nat : Number(x) \in 0 .. Capacity
<1>1. Capacity \in Nat /\ Capacity >= 2
  BY CapacityAssumption
<1>2. PICK m \in Nat \ {0} : m = Capacity + 1
  BY <1>1
<1>3. ASSUME NEW x \in Nat PROVE Number(x) \in 0 .. Capacity
  <2>1. x % m \in 0 .. m - 1
    BY ModType
  <2> QED BY <1>1, <1>2, <2>1 DEF Number
<1> QED BY <1>1, <1>3

(* Counting on from an item number. *)
LEMMA NumberShift ==
    ASSUME NEW a \in 0 .. Capacity, NEW n \in Nat, NEW i \in Nat, n + i <= Capacity
    PROVE  Number(Number(a + n) + i) = Number(a + (n + i))
<1>1. PICK m \in Nat \ {0} : m = Capacity + 1 /\ a \in 0 .. m - 1 /\ n + i <= m
  BY CapacityAssumption
<1>2. (((a + n) % m) + i) % m = (a + (n + i)) % m
  BY <1>1, ModShift
<1> QED BY <1>1, <1>2 DEF Number

(* The cells after n items have entered at `from`, and the n items read at f. *)
Filled(p, cs, from, n, e) ==
    [c \in Cells |-> IF \E i \in 0 .. n - 1 : c = CellAt(p.wp, from + i)
                     THEN Number(e + CHOOSE i \in 0 .. n - 1 : c = CellAt(p.wp, from + i))
                     ELSE cs[c]]
Drawn(r, cs, f, n) == [i \in 1 .. n |-> cs[CellAt(r, f + i - 1)]]

(* n items enter the ring, `from` cells after its write index: they are found
   after the ones it holds, and no other cell changes. *)
LEMMA Entering ==
    ASSUME NEW p \in Positions, WellPlaced(p), NEW cs \in [Cells -> 0 .. Capacity],
           NEW from \in Nat, NEW n \in Nat, DataSize(p) + from + n <= Capacity,
           NEW l \in 0 .. Capacity, NEW e,
           Holds(cs, p.rp, 0, DataSize(p) + from, l), e = Number(l + (DataSize(p) + from)),
           NEW ds, ds = Filled(p, cs, from, n, e)
    PROVE  /\ ds \in [Cells -> 0 .. Capacity]
           /\ Holds(ds, p.rp, 0, DataSize(p) + from + n, l)
           /\ Number(e + n) = Number(l + (DataSize(p) + from + n))
<1>1. /\ Capacity \in Nat /\ Capacity >= 2 /\ p.rp \in Cells /\ p.wp \in Cells
      /\ FreeSize(p) = Capacity - DataSize(p) /\ DataSize(p) \in 0 .. Capacity
  BY CapacityAssumption, DataSizeIs DEF Positions
<1>2. PICK d \in Nat : d = DataSize(p)
  BY <1>1
<1>3. PICK k \in Nat : k = d + from
  OBVIOUS
<1>4. e \in 0 .. Capacity /\ e = Number(l + k) /\ k + n <= Capacity
  <2>1. PICK x \in Nat : x = l + k
    OBVIOUS
  <2> QED BY <1>1, <1>2, <1>3, <2>1, Numbers
<1>5. ASSUME NEW i \in Nat, i <= n PROVE Number(e + i) = Number(l + (k + i))
  <2>1. k + i <= Capacity
    BY <1>1, <1>4, <1>5
  <2>2. Number(Number(l + k) + i) = Number(l + (k + i))
    BY <2>1, NumberShift
  <2> QED BY <1>4, <2>2
<1>6. ASSUME NEW i \in 0 .. n - 1
      PROVE  from + i \in Cells /\ k + i \in Cells /\ CellAt(p.wp, from + i) = CellAt(p.rp, k + i)
  <2>1. PICK j \in Nat : j = from + i
    OBVIOUS
  <2>a. j < FreeSize(p) /\ d + j = k + i /\ j \in Cells /\ d + j \in Cells
    <3>1. d + j = k + i /\ k + i < Capacity
      BY <1>1, <1>3, <1>4, <2>1
    <3>2. FreeSize(p) = Capacity - d
      BY <1>1, <1>2
    <3> QED BY <1>1, <3>1, <3>2 DEF Cells
  <2>2. CellAt(p.wp, j) = CellAt(p.rp, DataSize(p) + j)
    BY <2>a, WriteAfterData
  <2> QED BY <1>2, <2>1, <2>a, <2>2
<1> DEFINE In(c) == \E i \in 0 .. n - 1 : c = CellAt(p.wp, from + i)
           At(c) == CHOOSE i \in 0 .. n - 1 : c = CellAt(p.wp, from + i)
<1>7. \A c \in Cells : ds[c] = IF In(c) THEN Number(e + At(c)) ELSE cs[c]
  BY DEF Filled
<1>8. \A c : In(c) => At(c) \in 0 .. n - 1 /\ c = CellAt(p.wp, from + At(c))
  OBVIOUS
<1>9. ds \in [Cells -> 0 .. Capacity]
  <2>1. ASSUME NEW c \in Cells, In(c) PROVE Number(e + At(c)) \in 0 .. Capacity
    <3>0. PICK h \in 0 .. n - 1 : h = At(c)
      BY <1>8, <2>1
    <3>1. PICK x \in Nat : x = e + h
      BY <1>4
    <3> QED BY <3>0, <3>1, Numbers
  <2> QED BY <2>1 DEF Filled
<1> HIDE DEF In, At
<1>10. ASSUME NEW j \in 0 .. k + n - 1 PROVE ds[CellAt(p.rp, j)] = Number(l + j)
  <2>1. j \in Cells /\ j \in 0 .. Capacity
    BY <1>1, <1>4 DEF Cells
  <2>2. CellAt(p.rp, j) \in Cells
    BY <1>1, <2>1, CellAtWrap
  <2>3. CASE j < k
    <3>1. ~In(CellAt(p.rp, j))
      <4> SUFFICES ASSUME NEW i \in 0 .. n - 1, CellAt(p.rp, j) = CellAt(p.wp, from + i)
                   PROVE  FALSE
        BY DEF In
      <4>1. CellAt(p.rp, j) = CellAt(p.rp, k + i) /\ k + i \in Cells
        BY <1>6
      <4>2. j = k + i
        BY <1>1, <2>1, <4>1, CellAtInjective
      <4> QED BY <2>3, <4>2
    <3>2. ds[CellAt(p.rp, j)] = cs[CellAt(p.rp, j)]
      BY <1>7, <2>2, <3>1
    <3>3. cs[CellAt(p.rp, 0 + j)] = Number(l + j)
      BY <1>2, <1>3, <2>3 DEF Holds
    <3> QED BY <3>2, <3>3
  <2>4. CASE j >= k
    <3>1. PICK i \in 0 .. n - 1 : j = k + i
      <4>1. j - k \in 0 .. n - 1 /\ j = k + (j - k)
        BY <2>4
      <4> QED BY <4>1
    <3>2. CellAt(p.rp, j) = CellAt(p.wp, from + i) /\ from + i \in Cells
      BY <1>6, <3>1
    <3>3. In(CellAt(p.rp, j))
      BY <3>2 DEF In
    <3>4. PICK h \in 0 .. n - 1 : h = At(CellAt(p.rp, j)) /\ CellAt(p.rp, j) = CellAt(p.wp, from + h)
      BY <1>8, <3>3
    <3>5. from + h = from + i
      <4>1. from + h \in Cells
        BY <1>6
      <4> QED BY <1>1, <3>2, <3>4, <4>1, CellAtInjective
    <3>6. h = i
      BY <3>5
    <3>7. ds[CellAt(p.rp, j)] = Number(e + i)
      BY <1>7, <2>2, <3>3, <3>4, <3>6
    <3> QED BY <1>5, <3>1, <3>7
  <2> QED BY <2>3, <2>4
<1>11. Holds(ds, p.rp, 0, DataSize(p) + from + n, l)
  <2> SUFFICES ASSUME NEW j \in 0 .. (DataSize(p) + from + n) - 1
               PROVE  ds[CellAt(p.rp, 0 + j)] = Number(l + j)
    BY DEF Holds
  <2>1. j \in 0 .. k + n - 1 /\ 0 + j = j
    BY <1>2, <1>3
  <2> QED BY <1>10, <2>1
<1> QED BY <1>2, <1>3, <1>5, <1>9, <1>11

(* g are the n oldest items of a ring that held k of them from number l on. *)
Left(cs, r, f, k, l, n, g) ==
    /\ Number(l + n) \in 0 .. Capacity
    /\ Holds(cs, r, f + n, k - n, Number(l + n))
    /\ Number(l + k) = Number(Number(l + n) + (k - n))
    /\ Len(g) = n
    /\ \A i \in 1 .. n : g[i] = Number(Number(l + n) + Capacity + 1 - n + i - 1)

(* n items leave the ring: they are the oldest ones it holds, in order. *)
LEMMA Leaving ==
    ASSUME NEW r \in Cells, NEW cs \in [Cells -> 0 .. Capacity],
           NEW f \in Nat, NEW k \in Nat, f + k <= Capacity, NEW n \in Nat, n <= k,
           NEW l \in 0 .. Capacity, Holds(cs, r, f, k, l),
           NEW g, g = Drawn(r, cs, f, n)
    PROVE  Left(cs, r, f, k, l, n, g)
<1>1. Capacity \in Nat /\ Capacity >= 2 /\ n <= Capacity
  BY CapacityAssumption
<1>2. PICK h \in 0 .. Capacity : h = Number(l + n)
  <2>1. PICK x \in Nat : x = l + n
    OBVIOUS
  <2> QED BY <2>1, Numbers
<1>3. ASSUME NEW i \in Nat, n + i <= k PROVE Number(h + i) = Number(l + (n + i))
  <2>1. n + i <= Capacity
    BY <1>1, <1>3
  <2> QED BY <1>2, <2>1, NumberShift
<1>4. Holds(cs, r, f + n, k - n, h)
  <2> SUFFICES ASSUME NEW j \in 0 .. (k - n) - 1
               PROVE  cs[CellAt(r, (f + n) + j)] = Number(h + j)
    BY DEF Holds
  <2>1. n + j \in 0 .. k - 1 /\ (f + n) + j = f + (n + j) /\ j \in Nat /\ n + j <= k
    OBVIOUS
  <2>2. cs[CellAt(r, f + (n + j))] = Number(l + (n + j))
    BY <2>1 DEF Holds
  <2> QED BY <1>3, <2>1, <2>2
<1>5. Number(l + k) = Number(h + (k - n))
  <2>1. PICK i \in Nat : i = k - n
    OBVIOUS
  <2>2. n + i = k
    BY <2>1
  <2>3. Number(h + i) = Number(l + (n + i))
    BY <1>3, <2>2
  <2> QED BY <2>1, <2>2, <2>3
<1>6. ASSUME NEW i \in 1 .. n PROVE g[i] = Number(h + Capacity + 1 - n + i - 1)
  <2>1. PICK j \in 0 .. n - 1 : j = i - 1 /\ f + i - 1 = f + j /\ j \in 0 .. k - 1
    OBVIOUS
  <2>2. g[i] = cs[CellAt(r, f + j)]
    BY <2>1 DEF Drawn
  <2>3. g[i] = Number(l + j)
    BY <2>1, <2>2 DEF Holds
  <2>4. PICK m \in Nat \ {0} : m = Capacity + 1 /\ l \in 0 .. m - 1 /\ n \in 0 .. m - 1
    BY <1>1
  <2>5. (((l + n) % m) + m - n + j) % m = (l + j) % m
    BY <2>4, ModBack
  <2>6. h = (l + n) % m
    BY <1>2, <2>4 DEF Number
  <2>7. h + Capacity + 1 - n + i - 1 = h + m - n + j
    BY <1>1, <2>1, <2>4
  <2> QED BY <2>3, <2>4, <2>5, <2>6, <2>7 DEF Number
<1>7. Len(g) = n
  BY DEF Drawn
<1> QED BY <1>2, <1>4, <1>5, <1>6, <1>7 DEF Left

(* The arithmetic of a ring with an open segment. *)
LEMMA RingFacts ==
    ASSUME mixMode \in {"in", "out"}, NEW p, NEW cs, NEW s, NEW l, NEW e, RingAt(p, cs, s, l, e)
    PROVE  /\ Capacity \in Nat /\ p.rp \in Cells /\ p.wp \in Cells /\ s \in Nat
           /\ DataSize(p) \in 0 .. Capacity /\ FreeSize(p) \in 0 .. Capacity
           /\ FreeSize(p) = Capacity - DataSize(p)
           /\ s <= IF mixMode = "in" THEN FreeSize(p) ELSE DataSize(p)
BY CapacityAssumption, DataSizeIs DEF RingAt, Positions, Room, DevEnd

(* Committing a segment: what was put in counts, what was taken is free. *)
LEMMA Committing ==
    ASSUME mixMode \in {"in", "out"}, NEW p, NEW cs, NEW s, NEW l, NEW e, RingAt(p, cs, s, l, e)
    PROVE  RingAt(AdvanceEnd(DevEnd, p, s), cs, 0, l, e)
<1>1. /\ p \in Positions /\ WellPlaced(p) /\ cs \in [Cells -> 0 .. Capacity]
      /\ l \in 0 .. Capacity /\ s \in Nat
  BY DEF RingAt
<1>2. /\ Capacity \in Nat /\ p.rp \in Cells /\ p.wp \in Cells
      /\ DataSize(p) \in 0 .. Capacity /\ FreeSize(p) \in 0 .. Capacity
      /\ FreeSize(p) = Capacity - DataSize(p)
      /\ s <= IF mixMode = "in" THEN FreeSize(p) ELSE DataSize(p)
  BY RingFacts
<1>3. CASE mixMode = "in"
  <2>1. PICK q : q = AdvanceWp(p, s)
    OBVIOUS
  <2>2. q \in Positions /\ WellPlaced(q) /\ DataSize(q) = DataSize(p) + s /\ q.rp = p.rp
    BY <1>1, <1>2, <1>3, <2>1, AdvanceWpOK
  <2>3. AdvanceEnd(DevEnd, p, s) = q /\ Room(DevEnd, q) = FreeSize(q) /\ FreeSize(q) \in 0 .. Capacity
    BY <1>3, <2>1, <2>2, DataSizeIs DEF AdvanceEnd, DevEnd, Room
  <2>4. Held(q, 0) = Held(p, s) /\ Taken(0) = Taken(s)
    BY <1>1, <1>2, <1>3, <2>2 DEF Held, Taken
  <2>5. Holds(cs, q.rp, Taken(0), Held(q, 0), l) /\ e = Number(l + Held(q, 0))
    BY <2>2, <2>4 DEF RingAt
  <2>6. 0 <= Room(DevEnd, q)
    BY <2>3
  <2> QED BY <1>1, <2>2, <2>3, <2>5, <2>6 DEF RingAt
<1>4. CASE mixMode = "out"
  <2>1. PICK q : q = AdvanceRp(p, s)
    OBVIOUS
  <2>2. /\ q \in Positions /\ WellPlaced(q) /\ DataSize(q) = DataSize(p) - s
        /\ q.rp = CellAt(p.rp, s)
    BY <1>1, <1>2, <1>4, <2>1, AdvanceRpOK
  <2>3. AdvanceEnd(DevEnd, p, s) = q /\ Room(DevEnd, q) = DataSize(q) /\ DataSize(q) \in 0 .. Capacity
    BY <1>4, <2>1, <2>2, DataSizeIs DEF AdvanceEnd, DevEnd, Room
  <2>4. PICK k \in Nat : k = DataSize(p) - s
    BY <1>1, <1>2, <1>4
  <2>5. Held(q, 0) = k /\ Held(p, s) = k /\ Taken(0) = 0 /\ Taken(s) = s
    BY <1>4, <2>2, <2>4 DEF Held, Taken
  <2>6. Holds(cs, q.rp, 0, k, l)
    <3> SUFFICES ASSUME NEW j \in 0 .. k - 1 PROVE cs[CellAt(q.rp, 0 + j)] = Number(l + j)
      BY DEF Holds
    <3>1. j \in Nat /\ s + j <= Capacity /\ 0 + j = j
      BY <1>1, <1>2, <1>4, <2>4
    <3>2. CellAt(CellAt(p.rp, s), j) = CellAt(p.rp, s + j)
      BY <1>1, <1>2, <3>1, CellAtShift
    <3>3. cs[CellAt(p.rp, s + j)] = Number(l + j)
      BY <2>5 DEF RingAt, Holds
    <3> QED BY <2>2, <3>1, <3>2, <3>3
  <2>7. e = Number(l + k) /\ 0 <= Room(DevEnd, q)
    BY <2>3, <2>5 DEF RingAt
  <2> QED BY <1>1, <2>2, <2>3, <2>5, <2>6, <2>7 DEF RingAt
<1> QED BY <1>3, <1>4

(* Items enter through the device. *)
LEMMA DeviceEnters ==
    ASSUME mixMode = "in", RingAt(mixPos, mixCells, segm, left, entered),
           NEW n \in Nat, segm + n <= FreeSize(mixPos), Cross("tx", segm, n)
    PROVE  RingAt(mixPos, mixCells', segm + n, left', entered')
<1>1. /\ mixPos \in Positions /\ WellPlaced(mixPos) /\ mixCells \in [Cells -> 0 .. Capacity]
      /\ left \in 0 .. Capacity /\ segm \in Nat
  BY DEF RingAt
<1>2. /\ Capacity \in Nat /\ DataSize(mixPos) \in 0 .. Capacity
      /\ FreeSize(mixPos) = Capacity - DataSize(mixPos)
  BY RingFacts
<1>3. PICK k \in Nat : k = DataSize(mixPos) + segm
  BY <1>1, <1>2
<1>4. Holds(mixCells, mixPos.rp, 0, k, left) /\ entered = Number(left + k)
  BY <1>3 DEF RingAt, Held, Taken
<1>5. DataSize(mixPos) + segm + n <= Capacity
  BY <1>1, <1>2
<1>6. /\ mixCells' \in [Cells -> 0 .. Capacity]
      /\ Holds(mixCells', mixPos.rp, 0, DataSize(mixPos) + segm + n, left)
      /\ Number(entered + n) = Number(left + (DataSize(mixPos) + segm + n))
  <2>1. mixCells' = Filled(mixPos, mixCells, segm, n, entered)
    BY DEF Cross, Index, Filled
  <2> QED BY <1>1, <1>3, <1>4, <1>5, <2>1, Entering
<1>7. entered' = Number(entered + n) /\ left' = left
  BY DEF Cross
<1>8. /\ Held(mixPos, segm + n) = DataSize(mixPos) + segm + n /\ Taken(segm + n) = 0
      /\ segm + n \in Nat /\ segm + n <= Room(DevEnd, mixPos)
  BY <1>1, <1>2 DEF Held, Taken, Room, DevEnd
<1> QED BY <1>1, <1>6, <1>7, <1>8 DEF RingAt

(* Items enter through the half. *)
LEMMA HalfEnters ==
    ASSUME mixMode = "out", RingAt(mixPos, mixCells, 0, left, entered),
           NEW n \in Nat, n <= FreeSize(mixPos), Cross("tx", 0, n)
    PROVE  RingAt(AdvanceWp(mixPos, n), mixCells', 0, left', entered')
<1>1. /\ mixPos \in Positions /\ WellPlaced(mixPos) /\ mixCells \in [Cells -> 0 .. Capacity]
      /\ left \in 0 .. Capacity
  BY DEF RingAt
<1>2. /\ Capacity \in Nat /\ DataSize(mixPos) \in 0 .. Capacity
      /\ FreeSize(mixPos) = Capacity - DataSize(mixPos)
  BY RingFacts
<1>3. PICK k \in Nat : k = DataSize(mixPos) + 0 /\ k = DataSize(mixPos)
  BY <1>2
<1>4. Holds(mixCells, mixPos.rp, 0, k, left) /\ entered = Number(left + k)
  <2>1. Held(mixPos, 0) = k /\ Taken(0) = 0
    BY <1>2, <1>3 DEF Held, Taken
  <2> QED BY <2>1 DEF RingAt
<1>5. DataSize(mixPos) + 0 + n <= Capacity
  BY <1>2
<1>6. /\ mixCells' \in [Cells -> 0 .. Capacity]
      /\ Holds(mixCells', mixPos.rp, 0, DataSize(mixPos) + 0 + n, left)
      /\ Number(entered + n) = Number(left + (DataSize(mixPos) + 0 + n))
  <2>1. mixCells' = Filled(mixPos, mixCells, 0, n, entered)
    BY DEF Cross, Index, Filled
  <2> QED BY <1>1, <1>3, <1>4, <1>5, <2>1, Entering
<1>7. entered' = Number(entered + n) /\ left' = left
  BY DEF Cross
<1>8. PICK q : q = AdvanceWp(mixPos, n)
  OBVIOUS
<1>9. q \in Positions /\ WellPlaced(q) /\ DataSize(q) = DataSize(mixPos) + n /\ q.rp = mixPos.rp
  BY <1>1, <1>2, <1>8, AdvanceWpOK
<1>10. Held(q, 0) = DataSize(mixPos) + 0 + n /\ Taken(0) = 0 /\ 0 <= Room(DevEnd, q)
  BY <1>2, <1>9 DEF Held, Taken, Room, DevEnd
<1> QED BY <1>1, <1>6, <1>7, <1>8, <1>9, <1>10 DEF RingAt

(* Items leave through the device. *)
LEMMA DeviceLeaves ==
    ASSUME mixMode = "out", RingAt(mixPos, mixCells, segm, left, entered),
           NEW n \in Nat, segm + n <= DataSize(mixPos), Cross("rx", segm, n)
    PROVE  RingAt(mixPos, mixCells', segm + n, left', entered') /\ MixInOrder'
<1>1. /\ mixPos \in Positions /\ WellPlaced(mixPos) /\ mixCells \in [Cells -> 0 .. Capacity]
      /\ left \in 0 .. Capacity /\ segm \in Nat /\ mixPos.rp \in Cells
  BY RingFacts DEF RingAt
<1>2. Capacity \in Nat /\ DataSize(mixPos) \in 0 .. Capacity
  BY RingFacts
<1>3. PICK k \in Nat : k = DataSize(mixPos) - segm
  BY <1>1, <1>2
<1>4. segm + k <= Capacity /\ n <= k
  BY <1>1, <1>2, <1>3
<1>5. Holds(mixCells, mixPos.rp, segm, k, left) /\ entered = Number(left + k)
  BY <1>3 DEF RingAt, Held, Taken
<1>6. /\ got' = Drawn(mixPos.rp, mixCells, segm, n)
      /\ left' = Number(left + n) /\ mixCells' = mixCells /\ entered' = entered
  BY DEF Cross, Index, Drawn
<1>7. /\ left' \in 0 .. Capacity
      /\ Holds(mixCells, mixPos.rp, segm + n, k - n, left')
      /\ Number(left + k) = Number(left' + (k - n))
      /\ Len(got') = n
      /\ \A i \in 1 .. n : got'[i] = Number(left' + Capacity + 1 - n + i - 1)
  <2>1. PICK g : g = Drawn(mixPos.rp, mixCells, segm, n)
    OBVIOUS
  <2>2. Left(mixCells, mixPos.rp, segm, k, left, n, g)
    BY <1>1, <1>4, <1>5, <2>1, Leaving
  <2>3. got' = g /\ left' = Number(left + n)
    BY <1>6, <2>1
  <2> QED BY <2>2, <2>3 DEF Left
<1>8. /\ Held(mixPos, segm + n) = k - n /\ Taken(segm + n) = segm + n
      /\ segm + n \in Nat /\ segm + n <= Room(DevEnd, mixPos)
  BY <1>1, <1>2, <1>3 DEF Held, Taken, Room, DevEnd
<1>9. RingAt(mixPos, mixCells', segm + n, left', entered')
  BY <1>1, <1>5, <1>6, <1>7, <1>8 DEF RingAt
<1>10. MixInOrder'
  BY <1>7 DEF MixInOrder, Number
<1> QED BY <1>9, <1>10

(* Read indices may be moved to the first item. *)
LEMMA Rebase ==
    ASSUME NEW r \in Cells, NEW f \in Nat, NEW k \in Nat, f + k <= Capacity, NEW cs, NEW l,
           Holds(cs, r, f, k, l)
    PROVE  Holds(cs, CellAt(r, f), 0, k, l)
<1> SUFFICES ASSUME NEW j \in 0 .. k - 1 PROVE cs[CellAt(CellAt(r, f), 0 + j)] = Number(l + j)
  BY DEF Holds
<1>1. j \in Nat /\ f + j <= Capacity /\ 0 + j = j
  BY CapacityAssumption
<1>2. CellAt(CellAt(r, f), j) = CellAt(r, f + j)
  BY <1>1, CellAtShift
<1> QED BY <1>1, <1>2 DEF Holds

(* Items leave through the half. *)
LEMMA HalfLeaves ==
    ASSUME mixMode = "in", RingAt(mixPos, mixCells, 0, left, entered),
           NEW n \in Nat, n <= DataSize(mixPos), Cross("rx", 0, n)
    PROVE  RingAt(AdvanceRp(mixPos, n), mixCells', 0, left', entered') /\ MixInOrder'
<1>1. /\ mixPos \in Positions /\ WellPlaced(mixPos) /\ mixCells \in [Cells -> 0 .. Capacity]
      /\ left \in 0 .. Capacity /\ mixPos.rp \in Cells
  BY RingFacts DEF RingAt
<1>2. Capacity \in Nat /\ DataSize(mixPos) \in 0 .. Capacity
  BY RingFacts
<1>3. PICK k \in Nat : k = DataSize(mixPos) /\ k = DataSize(mixPos) + 0 /\ 0 + k <= Capacity
  BY <1>2
<1>4. Holds(mixCells, mixPos.rp, 0, k, left) /\ entered = Number(left + k)
  <2>1. Held(mixPos, 0) = k /\ Taken(0) = 0
    BY <1>3 DEF Held, Taken
  <2> QED BY <2>1 DEF RingAt
<1>5. PICK g : g = Drawn(mixPos.rp, mixCells, 0, n)
  OBVIOUS
<1>6. got' = g /\ left' = Number(left + n) /\ mixCells' = mixCells /\ entered' = entered
  BY <1>5 DEF Cross, Index, Drawn
<1>7. Left(mixCells, mixPos.rp, 0, k, left, n, g)
  BY <1>1, <1>3, <1>4, <1>5, Leaving
<1>8. PICK q : q = AdvanceRp(mixPos, n)
  OBVIOUS
<1>9. q \in Positions /\ WellPlaced(q) /\ DataSize(q) = k - n /\ q.rp = CellAt(mixPos.rp, n)
  BY <1>1, <1>3, <1>8, AdvanceRpOK
<1>10. left' \in 0 .. Capacity /\ Holds(mixCells, q.rp, 0, k - n, left')
  <2>1. left' \in 0 .. Capacity /\ Holds(mixCells, mixPos.rp, n, k - n, left') /\ n + (k - n) <= Capacity
    <3>1. 0 + n = n /\ n + (k - n) <= Capacity
      BY <1>2, <1>3
    <3> QED BY <1>6, <1>7, <3>1 DEF Left
  <2>2. PICK d \in Nat : d = k - n
    BY <1>3
  <2> QED BY <1>1, <1>9, <2>1, <2>2, Rebase
<1>11. Held(q, 0) = k - n /\ Taken(0) = 0 /\ 0 <= Room(DevEnd, q)
  <2>1. FreeSize(q) \in 0 .. Capacity
    BY <1>9, DataSizeIs
  <2> QED BY <1>3, <1>9, <2>1 DEF Held, Taken, Room, DevEnd
<1>12. entered' = Number(left' + (k - n))
  BY <1>4, <1>6, <1>7 DEF Left
<1>13. RingAt(q, mixCells', 0, left', entered')
  BY <1>1, <1>6, <1>9, <1>10, <1>11, <1>12 DEF RingAt
<1>14. MixInOrder'
  BY <1>6, <1>7 DEF MixInOrder, Number, Left
<1> QED BY <1>8, <1>13, <1>14

(* The next state's ring. *)
LEMMA RingNext ==
    ASSUME mixMode' = mixMode, RingAt(mixPos', mixCells', segm', left', entered')
    PROVE  RingAt(mixPos, mixCells, segm, left, entered)'
BY DEF RingAt, Holds, Taken, Held, Room, DevEnd

(* A step that leaves the ring alone. *)
LEMMA RingStays ==
    ASSUME MixInv, UNCHANGED <<mixMode, mixPos, mixCells, segm, left, entered, got>>
    PROVE  /\ RingAt(mixPos, mixCells, segm, left, entered)' /\ MixInOrder'
           /\ mixMode' \in {"in", "out"}
           /\ Room(DevEnd, mixPos)' = Room(DevEnd, mixPos) /\ RingEmpty' = RingEmpty
<1>1. RingAt(mixPos', mixCells', segm', left', entered')
  BY DEF MixInv, MixRing
<1>2. RingAt(mixPos, mixCells, segm, left, entered)'
  BY <1>1, RingNext
<1> QED BY <1>2 DEF MixInv, MixRing, MixInOrder, Room, DevEnd, RingEmpty

(* The fields of a call. *)
LEMMA CallFields ==
    ASSUME NEW c \in Calls
    PROVE  c.op \in Ops /\ c.min \in Minima /\ c.pump \in Pumps /\ c.moved \in BOOLEAN
BY DEF Calls

(* What the pumps and the tries write in it. *)
LEMMA CallPump ==
    ASSUME NEW c \in Calls, NEW x \in Pumps
    PROVE  /\ [c EXCEPT !.pump = x] \in Calls
           /\ [c EXCEPT !.pump = x].op = c.op /\ [c EXCEPT !.pump = x].pump = x
           /\ [c EXCEPT !.pump = x].moved = c.moved
BY DEF Calls

(* A call remembers whether its pump moved anything. *)
LEMMA CallMoved ==
    ASSUME NEW c \in Calls, NEW b \in BOOLEAN
    PROVE  /\ [c EXCEPT !.moved = b] \in Calls
           /\ [c EXCEPT !.moved = b].op = c.op /\ [c EXCEPT !.moved = b].pump = c.pump
           /\ [c EXCEPT !.moved = b].moved = b
BY DEF Calls

(* A call whose pump awaits the device afresh. *)
LEMMA CallAwaits ==
    ASSUME NEW c \in Calls, NEW d, d = [c EXCEPT !.pump = "await", !.moved = FALSE]
    PROVE  d \in Calls /\ d.op = c.op /\ d.pump = "await" /\ d.moved = FALSE
<1>1. d = [op |-> c.op, min |-> c.min, pump |-> "await", moved |-> FALSE]
  BY DEF Calls
<1>2. "await" \in Pumps
  BY DEF Pumps
<1> QED BY <1>1, <1>2, CallFields DEF Calls

(* A call that has just been made, with its minimum. *)
LEMMA CallBegins ==
    ASSUME NEW o \in Ops, NEW m \in Minima, NEW d, d = [NoCall EXCEPT !.op = o, !.min = m]
    PROVE  d \in Calls /\ d.op = o /\ d.pump = "none"
<1>1. d = [op |-> o, min |-> m, pump |-> "none", moved |-> FALSE]
  BY DEF NoCall
<1>2. "none" \in Pumps
  BY DEF Pumps
<1>3. d \in Calls
  BY ONLY <1>1, <1>2, o \in Ops, m \in Minima DEF Calls
<1>4. d.op = o /\ d.pump = "none"
  BY ONLY <1>1
<1> QED BY <1>3, <1>4

(* A call that goes straight to a poll of its pump. *)
LEMMA CallPolls ==
    ASSUME NEW o \in Ops, NEW d, d = [NoCall EXCEPT !.op = o, !.pump = "poll"]
    PROVE  d \in Calls /\ d.op = o /\ d.pump = "poll"
<1>1. d = [op |-> o, min |-> 1, pump |-> "poll", moved |-> FALSE]
  BY DEF NoCall
<1>2. 1 \in Minima /\ "poll" \in Pumps
  BY CapacityAssumption DEF Minima, Pumps
<1>3. d \in Calls
  BY ONLY <1>1, <1>2, o \in Ops DEF Calls
<1>4. d.op = o /\ d.pump = "poll"
  BY ONLY <1>1
<1> QED BY <1>3, <1>4

(* The invariant holds initially. *)
LEMMA MixInitInv == MixInit => MixInv
<1> SUFFICES ASSUME MixInit PROVE MixInv
  OBVIOUS
<1>1. Capacity \in Nat /\ Capacity >= 2
  BY CapacityAssumption
<1>2. mixPos \in Positions /\ WellPlaced(mixPos) /\ mixPos.rp = 0 /\ DataSize(mixPos) = 0
  <2>1. mixPos = [rv |-> FALSE, rp |-> 0, wp |-> 0]
    BY DEF MixInit, StartPos
  <2>2. mixPos \in Positions /\ WellPlaced(mixPos)
    BY <1>1, <2>1 DEF Positions, Cells, WellPlaced
  <2>3. DataSize(mixPos) = 0
    BY <2>1, <2>2, DataSizeIs
  <2> QED BY <2>1, <2>2, <2>3
<1>3. FreeSize(mixPos) = Capacity
  BY <1>1, <1>2 DEF FreeSize
<1>4. mixCells \in [Cells -> 0 .. Capacity]
  BY <1>1 DEF MixInit, Cells
<1>5. Held(mixPos, segm) = 0 /\ segm = 0 /\ left = 0
  BY <1>2 DEF Held, MixInit
<1>6. entered = Number(left + 0)
  <2>1. PICK m \in Nat \ {0} : m = Capacity + 1
    BY <1>1
  <2>2. 0 % m = 0
    BY <2>1, <1>1, ModSmall
  <2> QED BY <1>5, <2>1, <2>2 DEF Number, MixInit
<1>7. RingAt(mixPos, mixCells, segm, left, entered)
  BY <1>1, <1>2, <1>3, <1>4, <1>5, <1>6 DEF RingAt, Room, DevEnd, Holds, MixInit
<1>8. call \in Calls /\ call.op = "build"
  <2>1. call = [op |-> "build", min |-> 1, pump |-> "none", moved |-> FALSE]
    BY DEF MixInit, NoCall
  <2>2. 1 \in Minima /\ "build" \in Ops /\ "none" \in Pumps
    BY <1>1 DEF Minima, Ops, Pumps
  <2>3. call \in Calls
    BY ONLY <2>1, <2>2 DEF Calls
  <2> QED BY <2>1, <2>3
<1>9. MixRing
  <2>1. mixPc \in MixPcs /\ refusals \in 0 .. 2
    BY DEF MixInit, MixPcs
  <2>2. token \in BOOLEAN /\ progress \in BOOLEAN /\ mixClosed \in BOOLEAN
    BY Zenon DEF MixInit
  <2>3. mixMode \in {"in", "out"}
    BY DEF MixInit
  <2> QED BY <1>7, <1>8, <2>1, <2>2, <2>3, Zenon DEF MixRing
<1>10. SegmOnlyLent /\ CallInv /\ ClosedInv /\ DrainInv
  BY <1>8 DEF SegmOnlyLent, CallInv, ClosedInv, DrainInv, MixInit
<1>11. MixInOrder
  BY DEF MixInOrder, MixInit
<1> QED BY <1>9, <1>10, <1>11 DEF MixInv

(* The types a step that leaves the ring alone has to keep. *)
LEMMA RingKept ==
    ASSUME MixInv, UNCHANGED <<mixMode, mixPos, mixCells, segm, left, entered, got>>,
           mixPc' \in MixPcs, call' \in Calls, token' \in BOOLEAN, progress' \in BOOLEAN,
           mixClosed' \in BOOLEAN, refusals' \in 0 .. 2
    PROVE  MixRing' /\ MixInOrder'
BY RingStays DEF MixRing

(* The head of the pump's loop and the first poll of the device. *)
LEMMA PumpInv == MixInv /\ (Build \/ Pump) => MixInv'
<1> SUFFICES ASSUME MixInv, Build \/ Pump PROVE MixInv'
  OBVIOUS
<1>0. /\ UNCHANGED <<mixMode, mixPos, mixCells, segm, left, entered, got>>
      /\ UNCHANGED <<token, progress, mixClosed, refusals>>
      /\ mixPc' \in {"react", "pumped"} /\ mixPc \in {"build", "pump"} /\ segm = 0
  BY DEF Build, Pump, MixInv, SegmOnlyLent
<1>1. call' \in Calls /\ call'.op = call.op /\ call'.moved = call.moved
  <2>1. CASE Build
    <3>1. "poll" \in Pumps
      BY DEF Pumps
    <3> QED BY <2>1, <3>1, CallPump DEF Build, MixInv, MixRing
  <2>2. CASE Pump
    BY <2>2 DEF Pump, MixInv, MixRing
  <2> QED BY <2>1, <2>2
<1>2. MixRing' /\ MixInOrder'
  <2>1. mixPc' \in MixPcs
    BY <1>0 DEF MixPcs
  <2> QED BY <1>0, <1>1, <2>1, RingKept DEF MixInv, MixRing
<1>3. Room(DevEnd, mixPos)' = Room(DevEnd, mixPos) /\ RingEmpty' = RingEmpty
  BY <1>0, RingStays
<1>4. SegmOnlyLent'
  <2>1. mixPc' = "react" => 0 < Room(DevEnd, mixPos)
    BY DEF Build, Pump, MayPump
  <2> QED BY <1>0, <1>3, <2>1 DEF SegmOnlyLent
<1>5. CallInv'
  BY <1>0, <1>1 DEF MixInv, CallInv
<1>6. ClosedInv'
  BY <1>0, <1>1 DEF MixInv, ClosedInv, Build, Pump, MayPump
<1>7. DrainInv'
  <2>1. CASE Build
    BY <2>1, <1>0, <1>1, CallPump DEF Build, DrainInv, MixInv, CallInv, MixRing, Pumps
  <2>2. CASE Pump
    <3>1. call.op = "drain" => mixMode = "out"
      BY DEF MixInv, CallInv
    <3>2. mixPc' = "pumped" /\ call.op = "drain" => RingEmpty
      <4>1. mixMode = "out" => DevEnd = "rx" /\ Room(DevEnd, mixPos) = DataSize(mixPos) /\ DataSize(mixPos) \in Nat
        BY RingFacts DEF DevEnd, Room, MixInv, MixRing
      <4> QED BY <2>2, <3>1, <4>1 DEF Pump, MayPump, RingEmpty
    <3> QED BY <2>2, <1>0, <1>3, <3>2 DEF Pump, DrainInv, MixInv, MayGiveUp
  <2> QED BY <2>1, <2>2
<1> QED BY <1>2, <1>4, <1>5, <1>6, <1>7 DEF MixInv

(* The end of react_async: m cells of the segment were used. *)
LEMMA ReactedFacts ==
    ASSUME MixInv, mixMode' = mixMode, NEW m, NEW o,
           RingAt(mixPos, mixCells', m, left', entered'), Reacted(m, o)
    PROVE  /\ RingAt(mixPos, mixCells, segm, left, entered)'
           /\ segm' = 0 /\ mixPc' \in {"pump", "pumped"}
           /\ call' \in Calls /\ call'.op = call.op /\ call'.pump = call.pump
           /\ call'.moved = (call.moved \/ m > 0)
           /\ mixMode = "out" => DataSize(mixPos)' = DataSize(mixPos) - m
<1>0. mixMode \in {"in", "out"} /\ call \in Calls
  BY DEF MixInv, MixRing
<1>1. mixPos' = AdvanceEnd(DevEnd, mixPos, m) /\ segm' = 0 /\ mixPc' \in {"pump", "pumped"}
  BY DEF Reacted, DropSegment
<1>2. RingAt(mixPos', mixCells', 0, left', entered')
  BY <1>0, <1>1, Committing
<1>3. RingAt(mixPos, mixCells, segm, left, entered)'
  BY <1>1, <1>2, RingNext
<1>4. /\ call' \in Calls /\ call'.op = call.op /\ call'.pump = call.pump
      /\ call'.moved = (call.moved \/ m > 0)
  <2>1. PICK b \in BOOLEAN : b = (call.moved \/ m > 0)
    OBVIOUS
  <2>2. call' = [call EXCEPT !.moved = b]
    BY <2>1 DEF Reacted, Moved
  <2> QED BY <1>0, <2>1, <2>2, CallMoved
<1>5. ASSUME mixMode = "out" PROVE DataSize(mixPos)' = DataSize(mixPos) - m
  <2>1. mixPos' = AdvanceRp(mixPos, m)
    BY <1>1, <1>5 DEF AdvanceEnd, DevEnd
  <2>2. mixPos \in Positions /\ WellPlaced(mixPos) /\ m \in Nat /\ m <= DataSize(mixPos)
    BY <1>5 DEF RingAt, Room, DevEnd
  <2>3. DataSize(AdvanceRp(mixPos, m)) = DataSize(mixPos) - m
    BY <2>2, AdvanceRpOK
  <2> QED BY <2>1, <2>3
<1> QED BY <1>1, <1>3, <1>4, <1>5

(* Where the device is being polled, an input end is open. *)
LEMMA ReactOpen == MixInv /\ mixPc = "react" => ~(mixMode = "in" /\ mixClosed)
BY DEF MixInv, ClosedInv

(* The device moves items. *)
LEMMA DeviceMovesInv ==
    ASSUME MixInv, NEW n \in 1 .. Capacity, DeviceMoves(n) PROVE MixInv'
<1>0. /\ mixMode \in {"in", "out"} /\ mixPc = "react" /\ call \in Calls
      /\ RingAt(mixPos, mixCells, segm, left, entered) /\ n \in 1 .. Piece
      /\ mixMode' = mixMode /\ token' = token /\ mixClosed' = mixClosed
      /\ refusals' = 0 /\ progress' = TRUE /\ Cross(DevEnd, segm, n)
  BY DEF MixInv, MixRing, DeviceMoves
<1>1. /\ Capacity \in Nat /\ segm \in Nat /\ n \in Nat /\ n > 0
      /\ segm + n <= Room(DevEnd, mixPos)
  <2>1. /\ Capacity \in Nat /\ segm \in Nat /\ n \in Nat /\ n > 0
        /\ FreeSize(mixPos) \in Nat /\ DataSize(mixPos) \in Nat
    BY <1>0, RingFacts
  <2>2. PICK r \in Nat : r = Room(DevEnd, mixPos)
    BY <2>1 DEF Room
  <2>3. PICK a : a = Capacity - CellAt(Index(DevEnd, mixPos), segm)
    OBVIOUS
  <2>4. Piece = IF r - segm < a THEN r - segm ELSE a
    BY <2>2, <2>3 DEF Piece
  <2>5. a \in Int
    <3>1. Index(DevEnd, mixPos) \in Cells
      BY <1>0, RingFacts DEF Index
    <3>2. CellAt(Index(DevEnd, mixPos), segm) \in Int
      BY <2>1, <3>1, CapacityAssumption DEF CellAt, Cells
    <3> QED BY <2>1, <2>3, <3>2
  <2>6. n <= r - segm
    BY <1>0, <2>1, <2>2, <2>4, <2>5
  <2> QED BY <2>1, <2>2, <2>6
<1>2. RingAt(mixPos, mixCells', segm + n, left', entered') /\ MixInOrder'
  <2>1. CASE mixMode = "in"
    <3>1. /\ DevEnd = "tx" /\ Room(DevEnd, mixPos) = FreeSize(mixPos)
      BY <2>1 DEF DevEnd, Room
    <3>2. RingAt(mixPos, mixCells', segm + n, left', entered')
      BY <1>0, <1>1, <2>1, <3>1, DeviceEnters
    <3>3. left' = left /\ got' = got
      BY <1>0, <3>1 DEF Cross
    <3> QED BY <3>2, <3>3 DEF MixInv, MixInOrder
  <2>2. CASE mixMode = "out"
    <3>1. /\ DevEnd = "rx" /\ Room(DevEnd, mixPos) = DataSize(mixPos)
      BY <2>2 DEF DevEnd, Room
    <3> QED BY <1>0, <1>1, <2>2, <3>1, DeviceLeaves
  <2> QED BY <1>0, <2>1, <2>2
<1>3. progress' \in BOOLEAN /\ refusals' \in 0 .. 2 /\ token' \in BOOLEAN /\ mixClosed' \in BOOLEAN
  BY <1>0 DEF MixInv, MixRing
<1>4. ASSUME segm + n < Room(DevEnd, mixPos), segm' = segm + n, UNCHANGED <<mixPos, call, mixPc>>
      PROVE  MixInv'
  <2>1. RingAt(mixPos, mixCells, segm, left, entered)'
    BY <1>0, <1>2, <1>4, RingNext
  <2>2. MixRing'
    BY <1>0, <1>3, <1>4, <2>1 DEF MixRing, MixPcs
  <2>3. SegmOnlyLent'
    BY <1>0, <1>4 DEF SegmOnlyLent, Room, DevEnd
  <2>4. CallInv' /\ ClosedInv'
    BY <1>0, <1>4 DEF MixInv, CallInv, ClosedInv
  <2>5. DrainInv'
    BY <1>0, <1>1, <1>4 DEF DrainInv
  <2> QED BY <1>2, <2>2, <2>3, <2>4, <2>5 DEF MixInv
<1>5. ASSUME segm + n = Room(DevEnd, mixPos), Reacted(segm + n, "ready")
      PROVE  MixInv'
  <2>0. PICK m \in Nat : m = segm + n
    BY <1>1
  <2>1. /\ RingAt(mixPos, mixCells, segm, left, entered)'
        /\ segm' = 0 /\ mixPc' \in {"pump", "pumped"}
        /\ call' \in Calls /\ call'.op = call.op /\ call'.pump = call.pump
        /\ mixMode = "out" => DataSize(mixPos)' = DataSize(mixPos) - m
    BY <1>0, <1>2, <1>5, <2>0, ReactedFacts
  <2>2. MixRing'
    <3>1. mixPc' \in MixPcs
      BY <2>1 DEF MixPcs
    <3> QED BY <1>0, <1>3, <2>1, <3>1 DEF MixRing
  <2>3. SegmOnlyLent'
    BY <2>1 DEF SegmOnlyLent
  <2>4. CallInv'
    BY <1>0, <2>1 DEF MixInv, CallInv
  <2>5. ClosedInv'
    BY <1>0, ReactOpen DEF ClosedInv
  <2>6. DrainInv'
    <3>1. call.op = "drain" => mixMode = "out"
      BY DEF MixInv, CallInv
    <3>2. mixMode = "out" => m = DataSize(mixPos)
      BY <1>5, <2>0 DEF Room, DevEnd
    <3>3. call'.op = "drain" => RingEmpty'
      BY <2>0, <2>1, <3>1, <3>2 DEF RingEmpty
    <3> QED BY <2>1, <3>3 DEF DrainInv
  <2> QED BY <1>2, <2>2, <2>3, <2>4, <2>5, <2>6 DEF MixInv
<1> QED BY <1>4, <1>5 DEF DeviceMoves

(* The device refuses, or its one poll is Pending. *)
LEMMA DeviceStopsInv == MixInv /\ (DeviceRefuses \/ DevicePends) => MixInv'
<1> SUFFICES ASSUME MixInv, DeviceRefuses \/ DevicePends PROVE MixInv'
  OBVIOUS
<1>0. /\ mixMode \in {"in", "out"} /\ mixPc = "react" /\ call \in Calls /\ refusals \in 0 .. 2
      /\ RingAt(mixPos, mixCells, segm, left, entered)
      /\ UNCHANGED <<mixMode, mixCells, mixClosed, token, entered, left, got, progress>>
  BY DEF MixInv, MixRing, DeviceRefuses, DevicePends
<1>1. PICK o : Reacted(segm, o) /\ (DeviceRefuses => o = "ready")
  BY DEF DeviceRefuses, DevicePends
<1>2. RingAt(mixPos, mixCells', segm, left', entered')
  BY <1>0
<1>3. /\ RingAt(mixPos, mixCells, segm, left, entered)'
      /\ segm' = 0 /\ mixPc' \in {"pump", "pumped"}
      /\ call' \in Calls /\ call'.op = call.op /\ call'.pump = call.pump
      /\ call'.moved = (call.moved \/ segm > 0)
      /\ mixMode = "out" => DataSize(mixPos)' = DataSize(mixPos) - segm
  BY <1>0, <1>1, <1>2, ReactedFacts
<1>4. MixRing'
  <2>1. mixPc' \in MixPcs
    BY <1>3 DEF MixPcs
  <2>2. refusals' \in 0 .. 2
    BY <1>0 DEF DeviceRefuses, DevicePends
  <2>3. token' \in BOOLEAN /\ progress' \in BOOLEAN /\ mixClosed' \in BOOLEAN
    BY <1>0 DEF MixInv, MixRing
  <2> QED BY <1>0, <1>3, <2>1, <2>2, <2>3 DEF MixRing
<1>5. SegmOnlyLent'
  BY <1>3 DEF SegmOnlyLent
<1>6. CallInv'
  BY <1>0, <1>3 DEF MixInv, CallInv
<1>7. ClosedInv'
  BY <1>0, ReactOpen DEF ClosedInv
<1>8. DrainInv'
  <2>1. CASE DevicePends
    BY <1>3, <2>1 DEF DrainInv, DevicePends
  <2>2. CASE DeviceRefuses
    <3> SUFFICES ASSUME call.op = "drain", call.pump = "await" PROVE DrainInv'
      BY <1>3 DEF DrainInv
    <3>1. mixMode = "out" /\ DataSize(mixPos) \in Nat /\ segm \in Nat
      BY <1>0, RingFacts DEF MixInv, CallInv
    <3>2. mixPc' = IF segm > 0 THEN "pump" ELSE "pumped"
      BY <1>1, <2>2 DEF Reacted, Moved
    <3>3. refusals' = IF refusals = 2 THEN 2 ELSE refusals + 1
      BY <2>2 DEF DeviceRefuses
    <3>4. CASE segm > 0
      BY <1>3, <3>2, <3>4 DEF DrainInv
    <3>5. CASE segm = 0
      <4>1. call.moved \/ RingEmpty \/ ~progress \/ refusals >= 1
        BY <1>0, <3>5 DEF MixInv, DrainInv
      <4>2. RingEmpty => RingEmpty'
        BY <1>3, <3>1, <3>5 DEF RingEmpty
      <4>3. refusals' >= 1 /\ (refusals >= 1 => refusals' = 2) /\ (refusals' = 1 \/ refusals' = 2)
        BY <1>0, <3>3
      <4>4. progress' = progress /\ mixPc' = "pumped" /\ (call.moved => call'.moved)
        <5>1. progress' = progress /\ mixPc' = "pumped"
          BY <1>0, <3>2, <3>5
        <5>2. call.moved => call'.moved
          BY <1>3, Zenon
        <5> QED BY <5>1, <5>2
      <4>5. RingEmpty' \/ (refusals' >= 1 /\ (call'.moved \/ MayGiveUp'))
        BY <4>1, <4>2, <4>3, <4>4 DEF MayGiveUp
      <4> QED BY <4>4, <4>5 DEF DrainInv
    <3> QED BY <3>1, <3>4, <3>5
  <2> QED BY <2>1, <2>2
<1>9. MixInOrder'
  BY <1>0 DEF MixInv, MixInOrder
<1> QED BY <1>4, <1>5, <1>6, <1>7, <1>8, <1>9 DEF MixInv

(* The tries of the half, and the turns of its pump. *)
LEMMA TryInv == MixInv /\ Try => MixInv'
<1> SUFFICES ASSUME MixInv, Try PROVE MixInv'
  OBVIOUS
<1>0. /\ UNCHANGED <<mixMode, mixPos, mixCells, segm, left, entered, got>>
      /\ UNCHANGED <<token, progress, mixClosed, refusals>>
      /\ mixPc' \in {"holding", "idle", "pump"} /\ mixPc \in {"try", "retry"} /\ segm = 0
      /\ mixMode \in {"in", "out"} /\ call \in Calls /\ call.op \in {"try", "async"}
  BY DEF Try, MixInv, MixRing, SegmOnlyLent, CallInv
<1>1. call' \in Calls /\ call'.op = call.op
  <2>1. CASE call' = call
    BY <1>0, <2>1
  <2>2. CASE call' = [call EXCEPT !.pump = "poll"]
    <3>1. "poll" \in Pumps
      BY DEF Pumps
    <3> QED BY <1>0, <2>2, <3>1, CallPump
  <2>3. CASE call' = [call EXCEPT !.pump = "await", !.moved = FALSE]
    BY <1>0, <2>3, CallAwaits
  <2> QED BY <2>1, <2>2, <2>3 DEF Try
<1>2. MixRing' /\ MixInOrder'
  <2>1. mixPc' \in MixPcs
    BY <1>0 DEF MixPcs
  <2> QED BY <1>0, <1>1, <2>1, RingKept DEF MixInv, MixRing
<1>3. SegmOnlyLent' /\ CallInv' /\ DrainInv'
  BY <1>0, <1>1 DEF SegmOnlyLent, CallInv, DrainInv
<1>4. ClosedInv'
  <2>1. mixMode = "in" /\ mixClosed => Succeeds \/ Terminates
    <3>1. mixMode = "in" => HalfEnd = "rx"
      BY DEF HalfEnd
    <3>2. Room("rx", mixPos) \in Nat
      BY <1>0, RingFacts DEF Room, MixInv, MixRing
    <3> QED BY <3>1, <3>2 DEF Succeeds, Terminates
  <2>2. Succeeds \/ Terminates => mixPc' \in {"holding", "idle"}
    BY DEF Try
  <2> QED BY <1>0, <2>1, <2>2 DEF ClosedInv
<1> QED BY <1>2, <1>3, <1>4 DEF MixInv

(* What follows a finished pump keeps the invariant. *)
LEMMA PumpedInv == MixInv /\ Pumped => MixInv'
<1> SUFFICES ASSUME MixInv, Pumped PROVE MixInv'
  OBVIOUS
<1>0. /\ UNCHANGED <<mixMode, mixPos, mixCells, segm, left, entered, got>>
      /\ UNCHANGED <<token, mixClosed>>
      /\ mixPc = "pumped" /\ segm = 0
      /\ mixMode \in {"in", "out"} /\ call \in Calls
      /\ call.op = "drain" => mixMode = "out"
  BY DEF Pumped, MixInv, MixRing, SegmOnlyLent, CallInv
<1>1. token' \in BOOLEAN /\ mixClosed' \in BOOLEAN /\ progress \in BOOLEAN /\ refusals \in 0 .. 2
  BY <1>0 DEF MixInv, MixRing
<1>2. ASSUME mixPc' \in MixPcs, mixPc' # "react", call' \in Calls, call'.op = call.op,
             progress' \in BOOLEAN, refusals' \in 0 .. 2
      PROVE  MixRing' /\ MixInOrder' /\ SegmOnlyLent'
  BY <1>0, <1>1, <1>2, RingKept DEF SegmOnlyLent
<1>3. RingEmpty' = RingEmpty
  BY <1>0, RingStays
<1>a. ASSUME call.op \in {"build", "commit", "close"}, mixPc' = "idle",
             UNCHANGED <<call, refusals, progress>>
      PROVE  MixInv'
  <2>1. mixPc' \in MixPcs /\ call' \in Calls /\ call'.op = call.op
    BY <1>0, <1>a DEF MixPcs
  <2>2. CallInv' /\ ClosedInv' /\ DrainInv'
    BY <1>0, <1>a DEF CallInv, ClosedInv, DrainInv
  <2> QED BY <1>1, <1>2, <1>a, <2>1, <2>2 DEF MixInv
<1>b. ASSUME call.op \in {"try", "async"}, mixPc' \in {"retry", "try", "idle", "parked"},
             UNCHANGED <<call, refusals, progress>>
      PROVE  MixInv'
  <2>1. mixPc' \in MixPcs /\ call' \in Calls /\ call'.op = call.op
    BY <1>0, <1>b DEF MixPcs
  <2>2. CallInv' /\ DrainInv'
    BY <1>0, <1>b DEF CallInv, DrainInv
  <2>3. ClosedInv'
    BY <1>0, <1>b DEF ClosedInv, MixInv
  <2> QED BY <1>1, <1>2, <1>b, <2>1, <2>2, <2>3 DEF MixInv
<1>c. ASSUME call.op = "drain", mixPc' = "drain",
             call' = [call EXCEPT !.pump = "await", !.moved = FALSE],
             refusals' = 0, progress' = FALSE
      PROVE  MixInv'
  <2>1. mixPc' \in MixPcs /\ call' \in Calls /\ call'.op = call.op /\ call'.pump = "await"
    BY <1>0, <1>c, CallAwaits DEF MixPcs
  <2>2. CallInv' /\ ClosedInv' /\ DrainInv'
    BY <1>0, <1>c, <2>1 DEF CallInv, ClosedInv, DrainInv
  <2>3. progress' \in BOOLEAN
    BY <1>c
  <2>4. refusals' \in 0 .. 2
    BY <1>c
  <2> QED BY <1>2, <1>c, <2>1, <2>2, <2>3, <2>4 DEF MixInv
<1>d. ASSUME call.op = "drain", call.pump = "await",
             mixPc' = IF call.moved THEN "drain" ELSE "drained",
             call' = [call EXCEPT !.moved = FALSE], UNCHANGED <<refusals, progress>>
      PROVE  MixInv'
  <2>1. mixPc' \in MixPcs /\ mixPc' \in {"drain", "drained"}
    BY <1>d DEF MixPcs
  <2>2. call' \in Calls /\ call'.op = call.op /\ call'.pump = call.pump
    BY <1>0, <1>d, CallMoved
  <2>3. CallInv' /\ ClosedInv'
    BY <1>0, <1>d, <2>1, <2>2 DEF CallInv, ClosedInv
  <2>4. RingEmpty \/ (refusals >= 1 /\ (call.moved \/ MayGiveUp))
    BY <1>0, <1>d DEF DrainInv, MixInv
  <2>5. DrainInv'
    BY <1>3, <1>d, <2>1, <2>2, <2>4 DEF DrainInv, MayGiveUp
  <2> QED BY <1>1, <1>2, <1>d, <2>1, <2>2, <2>3, <2>5 DEF MixInv
<1> QED BY <1>a, <1>b, <1>c, <1>d DEF Pumped

(* The steps that only move the call along. *)
LEMMA CallStepInv ==
    MixInv /\ (EndPark \/ Drain \/ CloseReturns \/ CancelCall \/ DropHalf) => MixInv'
<1> SUFFICES ASSUME MixInv, EndPark \/ Drain \/ CloseReturns \/ CancelCall \/ DropHalf
             PROVE  MixInv'
  OBVIOUS
<1>0. /\ UNCHANGED <<mixMode, mixPos, mixCells, segm, left, entered, got>>
      /\ UNCHANGED <<call, progress, mixClosed, refusals>>
      /\ mixMode \in {"in", "out"} /\ call \in Calls
  BY DEF EndPark, Drain, CloseReturns, CancelCall, DropHalf, MixInv, MixRing
<1>1. mixPc' \in MixPcs
  BY DEF EndPark, Drain, CloseReturns, CancelCall, DropHalf, MixPcs, MixInv, MixRing
<1>2. token' \in BOOLEAN
  BY DEF EndPark, Drain, CloseReturns, CancelCall, DropHalf, MixInv, MixRing
<1>3. MixRing' /\ MixInOrder'
  BY <1>0, <1>1, <1>2, RingKept DEF MixInv, MixRing
<1>4. Room(DevEnd, mixPos)' = Room(DevEnd, mixPos) /\ RingEmpty' = RingEmpty
  BY <1>0, RingStays
<1>5. CASE CancelCall
  <2>1. mixPc' = mixPc /\ token' = TRUE
    BY <1>5 DEF CancelCall
  <2>2. SegmOnlyLent' /\ CallInv' /\ ClosedInv'
    BY <1>0, <1>4, <2>1 DEF SegmOnlyLent, CallInv, ClosedInv, MixInv
  <2>3. DrainInv'
    BY <1>0, <1>4, <2>1 DEF DrainInv, MayGiveUp, MixInv
  <2> QED BY <1>3, <2>2, <2>3 DEF MixInv
<1>6. CASE EndPark \/ CloseReturns \/ DropHalf
  <2>1. mixPc' \in {"idle", "gone"} /\ mixPc # "react" /\ segm = 0
    BY <1>6 DEF EndPark, CloseReturns, DropHalf, MixInv, SegmOnlyLent
  <2>2. SegmOnlyLent' /\ CallInv' /\ DrainInv' /\ ClosedInv'
    BY <1>0, <2>1 DEF SegmOnlyLent, CallInv, DrainInv, ClosedInv, MixInv
  <2> QED BY <1>3, <2>2 DEF MixInv
<1>7. CASE Drain
  <2>1. /\ mixPc = "drain" /\ token' = token /\ segm = 0
        /\ mixPc' = IF token THEN "drained" ELSE "pump"
        /\ call.op = "drain" /\ call.pump = "await" /\ mixMode = "out"
    BY <1>7 DEF Drain, MixInv, CallInv, SegmOnlyLent
  <2>2. SegmOnlyLent' /\ CallInv' /\ ClosedInv'
    BY <1>0, <2>1 DEF SegmOnlyLent, CallInv, ClosedInv
  <2>3. RingEmpty \/ ~progress \/ refusals >= 1
    BY <2>1 DEF MixInv, DrainInv
  <2>4. DrainInv'
    BY <1>0, <1>4, <2>1, <2>3 DEF DrainInv
  <2> QED BY <1>3, <2>2, <2>4 DEF MixInv
<1> QED BY <1>5, <1>6, <1>7

(* A call begins, or the end is closed. *)
LEMMA BeginInv ==
    ASSUME MixInv, NEW op \in {"try", "async"}, NEW min \in Minima, Begin(op, min) PROVE MixInv'
<1>0. /\ UNCHANGED <<mixMode, mixPos, mixCells, segm, left, entered, got>>
      /\ UNCHANGED <<progress, mixClosed, refusals>> /\ mixPc = "idle" /\ mixPc' = "try"
      /\ token' = FALSE /\ segm = 0
  BY DEF Begin, MixInv, SegmOnlyLent
<1>1. call' \in Calls /\ call'.op = op
  <2>1. op \in Ops
    BY DEF Ops
  <2> QED BY <2>1, CallBegins DEF Begin
<1>2. MixRing' /\ MixInOrder'
  <2>1. mixPc' \in MixPcs
    BY <1>0 DEF MixPcs
  <2>2. token' \in BOOLEAN
    BY <1>0, Zenon
  <2> QED BY <1>0, <1>1, <2>1, <2>2, RingKept DEF MixInv, MixRing
<1>3. SegmOnlyLent' /\ CallInv' /\ ClosedInv' /\ DrainInv'
  BY <1>0, <1>1 DEF SegmOnlyLent, CallInv, ClosedInv, DrainInv
<1> QED BY <1>2, <1>3 DEF MixInv

(* close and drain keep the invariant. *)
LEMMA CloseInv ==
    ASSUME MixInv, NEW op \in {"close", "drain"}, Close(op) PROVE MixInv'
<1>0. /\ UNCHANGED <<mixMode, mixPos, mixCells, segm, left, entered, got>>
      /\ UNCHANGED <<progress, refusals>> /\ mixPc = "idle" /\ mixPc' \in {"pumped", "pump"}
      /\ token' = FALSE /\ segm = 0 /\ mixClosed' = TRUE /\ (mixMode = "in" => op = "close")
      /\ mixMode \in {"in", "out"}
  BY DEF Close, MixInv, MixRing, SegmOnlyLent
<1>1. call' \in Calls /\ call'.op = op /\ call'.pump = "poll"
  <2>1. op \in Ops
    BY DEF Ops
  <2> QED BY <2>1, CallPolls DEF Close
<1>2. MixRing' /\ MixInOrder'
  <2>1. mixPc' \in MixPcs
    BY <1>0 DEF MixPcs
  <2>2. token' \in BOOLEAN /\ mixClosed' \in BOOLEAN
    BY <1>0, Zenon
  <2> QED BY <1>0, <1>1, <2>1, <2>2, RingKept DEF MixInv, MixRing
<1>3. SegmOnlyLent' /\ CallInv' /\ ClosedInv' /\ DrainInv'
  BY <1>0, <1>1 DEF SegmOnlyLent, CallInv, ClosedInv, DrainInv
<1> QED BY <1>2, <1>3 DEF MixInv

(* The half commits its segment. *)
LEMMA DropHalfSegmentInv ==
    ASSUME MixInv, NEW n \in 0 .. Capacity, DropHalfSegment(n) PROVE MixInv'
<1>0. /\ mixMode \in {"in", "out"} /\ mixPc = "holding" /\ segm = 0 /\ segm' = 0
      /\ RingAt(mixPos, mixCells, 0, left, entered) /\ n \in 0 .. Room(HalfEnd, mixPos)
      /\ UNCHANGED <<mixMode, mixClosed, token, refusals, progress>> /\ mixPc' = "pump"
      /\ Cross(HalfEnd, 0, n) /\ mixPos' = AdvanceEnd(HalfEnd, mixPos, n)
  BY DEF MixInv, MixRing, SegmOnlyLent, DropHalfSegment
<1>1. n \in Nat /\ FreeSize(mixPos) \in Nat /\ DataSize(mixPos) \in Nat
  BY <1>0, RingFacts
<1>2. RingAt(mixPos', mixCells', 0, left', entered') /\ MixInOrder'
  <2>1. CASE mixMode = "out"
    <3>1. HalfEnd = "tx" /\ Room(HalfEnd, mixPos) = FreeSize(mixPos)
          /\ AdvanceEnd(HalfEnd, mixPos, n) = AdvanceWp(mixPos, n)
      BY <2>1 DEF HalfEnd, Room, AdvanceEnd
    <3>2. RingAt(AdvanceWp(mixPos, n), mixCells', 0, left', entered')
      BY <1>0, <1>1, <2>1, <3>1, HalfEnters
    <3>3. left' = left /\ got' = got
      BY <1>0, <3>1 DEF Cross
    <3> QED BY <1>0, <3>1, <3>2, <3>3 DEF MixInv, MixInOrder
  <2>2. CASE mixMode = "in"
    <3>1. HalfEnd = "rx" /\ Room(HalfEnd, mixPos) = DataSize(mixPos)
          /\ AdvanceEnd(HalfEnd, mixPos, n) = AdvanceRp(mixPos, n)
      BY <2>2 DEF HalfEnd, Room, AdvanceEnd
    <3> QED BY <1>0, <1>1, <2>2, <3>1, HalfLeaves
  <2> QED BY <1>0, <2>1, <2>2
<1>3. RingAt(mixPos, mixCells, segm, left, entered)'
  BY <1>0, <1>2, RingNext
<1>4. call' \in Calls /\ call'.op = "commit" /\ call'.pump = "poll"
  <2>1. "commit" \in Ops
    BY DEF Ops
  <2> QED BY <2>1, CallPolls DEF DropHalfSegment
<1>5. MixRing'
  <2>1. mixPc' \in MixPcs
    BY <1>0 DEF MixPcs
  <2> QED BY <1>0, <1>3, <1>4, <2>1 DEF MixInv, MixRing
<1>6. SegmOnlyLent' /\ CallInv' /\ ClosedInv' /\ DrainInv'
  BY <1>0, <1>4 DEF SegmOnlyLent, CallInv, ClosedInv, DrainInv
<1> QED BY <1>2, <1>5, <1>6 DEF MixInv

(* A future dropped where it waits commits what the device had moved. *)
LEMMA DropFutureInv == MixInv /\ DropFuture => MixInv'
<1> SUFFICES ASSUME MixInv, DropFuture PROVE MixInv'
  OBVIOUS
<1>0. /\ mixMode \in {"in", "out"} /\ segm' = 0 /\ mixPc' = "idle"
      /\ RingAt(mixPos, mixCells, segm, left, entered)
      /\ UNCHANGED <<mixMode, mixCells, mixClosed, call, token, entered, left,
                     got, refusals, progress>>
      /\ mixPos' = AdvanceEnd(DevEnd, mixPos, segm)
  BY DEF MixInv, MixRing, DropFuture, DropSegment
<1>1. RingAt(mixPos', mixCells', segm', left', entered')
  BY <1>0, Committing
<1>2. RingAt(mixPos, mixCells, segm, left, entered)'
  BY <1>0, <1>1, RingNext
<1>3. MixRing'
  <2>1. mixPc' \in MixPcs
    BY <1>0 DEF MixPcs
  <2> QED BY <1>0, <1>2, <2>1 DEF MixInv, MixRing
<1>4. SegmOnlyLent' /\ CallInv' /\ ClosedInv' /\ DrainInv'
  BY <1>0 DEF SegmOnlyLent, CallInv, ClosedInv, DrainInv, MixInv
<1>5. MixInOrder'
  BY <1>0 DEF MixInv, MixInOrder
<1> QED BY <1>3, <1>4, <1>5 DEF MixInv

(* Every step keeps the invariant. *)
LEMMA MixStep == MixInv /\ [MixNext]_mixVars => MixInv'
<1> SUFFICES ASSUME MixInv, [MixNext]_mixVars PROVE MixInv'
  OBVIOUS
<1>1. CASE Device \/ DevicePends
  BY <1>1, DeviceMovesInv, DeviceStopsInv DEF Device
<1>2. CASE Half
  BY <1>2, PumpInv, TryInv, PumpedInv, CallStepInv DEF Half
<1>3. CASE User
  BY <1>3, BeginInv, DropHalfSegmentInv, CloseInv, CallStepInv, DropFutureInv DEF User
<1>4. CASE UNCHANGED mixVars
  <2>0. /\ UNCHANGED <<mixMode, mixPos, mixCells, segm, left, entered, got>>
        /\ UNCHANGED <<mixPc, call, token, progress, mixClosed, refusals>>
    BY <1>4 DEF mixVars
  <2>1. MixRing' /\ MixInOrder'
    BY <2>0, RingKept DEF MixInv, MixRing
  <2>2. Room(DevEnd, mixPos)' = Room(DevEnd, mixPos) /\ RingEmpty' = RingEmpty
    BY <2>0, RingStays
  <2>3. SegmOnlyLent' /\ CallInv' /\ ClosedInv'
    BY <2>0, <2>2 DEF SegmOnlyLent, CallInv, ClosedInv, MixInv
  <2>4. DrainInv'
    BY <2>0, <2>2 DEF DrainInv, MayGiveUp, MixInv
  <2> QED BY <2>1, <2>3, <2>4 DEF MixInv
<1> QED BY <1>1, <1>2, <1>3, <1>4 DEF MixNext

(* The invariant of the mixed composition holds throughout, in both modes. *)
THEOREM MixInvariance == MixSpec => []MixInv
BY MixInitInv, MixStep, PTL DEF MixSpec

(* Whatever crosses the ring between a device and a half leaves it in order,
   none missing and none twice: through short moves, a wrap inside a segment,
   a Pending or refusing device and a future dropped in the middle. *)
THEOREM MixAlwaysInOrder == MixSpec => []MixInOrder
<1>1. MixInv => MixInOrder
  BY DEF MixInv
<1> QED BY <1>1, MixInvariance, PTL

(* drain_output_async_ gives up only when it is cancelled, when the device has
   refused twice in a row, or refused without having taken anything. *)
THEOREM DrainAlwaysPatient == MixSpec => []DrainIsPatient
<1>1. MixInv => DrainIsPatient
  BY DEF MixInv, CallInv, DrainInv, RingEmpty, MayGiveUp, DrainIsPatient
<1> QED BY <1>1, MixInvariance, PTL

(* No step takes an item from the input device once the read end is closed:
   each pump that still runs finds RX_CLOSED before it lends a segment. *)
THEOREM NothingPulledAfterClose == MixSpec => NoPullAfterClose
<1>1. MixInv /\ [MixNext]_mixVars => (mixMode = "in" /\ mixClosed => entered' = entered)
  <2> SUFFICES ASSUME MixInv, [MixNext]_mixVars, mixMode = "in", mixClosed
               PROVE  entered' = entered
    OBVIOUS
  <2>1. CASE Device \/ DevicePends
    BY <2>1, ReactOpen DEF Device, DevicePends, DeviceRefuses, DeviceMoves
  <2>2. CASE Half
    BY <2>2 DEF Half, Build, Pump, Try, Pumped, EndPark, Drain, CloseReturns
  <2>3. CASE User
    <3>1. ASSUME NEW n \in 0 .. Capacity, DropHalfSegment(n) PROVE entered' = entered
      BY <3>1 DEF DropHalfSegment, HalfEnd, Cross
    <3> QED BY <2>3, <3>1 DEF User, Begin, Close, CancelCall, DropFuture, DropHalf
  <2>4. CASE UNCHANGED mixVars
    BY <2>4 DEF mixVars
  <2> QED BY <2>1, <2>2, <2>3, <2>4 DEF MixNext
<1> QED BY <1>1, MixInvariance, PTL DEF MixSpec, NoPullAfterClose

-----------------------------------------------------------------------------
(* The join of two buffers.                                                *)

Places == {"idle", "head", "read", "inner", "write", "after"}
Kinds == {"none", "NoOps", "SizeLimit", "TxBlocked", "RxDrained", "TxErr", "RxErr"}

Sources == [ready : Nat, pos : Nat, closed : BOOLEAN]
Sinks == [free : Nat, closed : BOOLEAN]
Joins == [at : Places, c : Nat, lent : Nat, off : Nat, err : Errors \cup {"none"}]
JoinResults == [kind : Kinds, count : Nat]

(* Types. *)
JoinTypeOK ==
    /\ source \in Sources /\ sink \in Sinks /\ sunk \in Seq(Nat)
    /\ join \in Joins /\ result \in JoinResults /\ sunkBefore \in Nat

(* The read segment: none is open before the read has answered, what is moved
   out of it is part of it, and it asks for no more than the largest count. *)
SegmInv ==
    /\ join.at \in {"idle", "head", "read"} => join.off = 0 /\ join.lent = 0
    /\ join.off <= join.lent
    /\ join.c + (join.lent - join.off) <= SizeMax

(* What was written is the source's items, one after the other. *)
SunkInv == /\ \A i \in 1..Len(sunk) : sunk[i] = i
           /\ source.pos + join.off = Len(sunk)

(* The counts of the join. *)
CountInv ==
    /\ join.at = "idle" /\ result.kind # "none" => result.count = Len(sunk) - sunkBefore
    /\ join.at # "idle" => join.c = Len(sunk) - sunkBefore

JoinInv == JoinTypeOK /\ SegmInv /\ SunkInv /\ CountInv

(* Appending the next n items. *)
LEMMA AppendItems ==
    ASSUME NEW s \in Seq(Nat), NEW n \in Nat, NEW t,
           \A i \in 1..Len(s) : s[i] = i,
           t = s \o [i \in 1..n |-> Len(s) + i]
    PROVE  /\ t \in Seq(Nat) /\ Len(t) = Len(s) + n
           /\ \A i \in 1..Len(t) : t[i] = i
<1> DEFINE u == [i \in 1..n |-> Len(s) + i]
<1>1. Len(s) \in Nat /\ \A i \in 1..n : Len(s) + i \in Nat
  OBVIOUS
<1>2. u \in Seq(Nat) /\ Len(u) = n
  BY <1>1
<1>3. \A i \in 1..n : u[i] = Len(s) + i
  OBVIOUS
<1> HIDE DEF u
<1>4. t = s \o u
  BY DEF u
<1>5. t \in Seq(Nat) /\ Len(t) = Len(s) + n
  BY <1>2, <1>4
<1>6. \A i \in 1..(Len(s) + n) : t[i] = IF i <= Len(s) THEN s[i] ELSE u[i - Len(s)]
  BY <1>2, <1>4, ConcatProperties, ZenonT(60)
<1>7. ASSUME NEW i \in 1..(Len(s) + n) PROVE t[i] = i
  <2>1. CASE i <= Len(s)
    BY <1>1, <1>6, <1>7, <2>1
  <2>2. CASE i > Len(s)
    <3>1. i - Len(s) \in 1..n
      BY <1>1, <2>2
    <3> QED BY <1>1, <1>3, <1>6, <1>7, <2>2, <3>1
  <2> QED BY <1>1, <2>1, <2>2
<1> QED BY <1>5, <1>7

(* A join begins in the invariant. *)
LEMMA JoinInitInv == JoinInit => JoinInv
BY PipeJoinAssumption DEF JoinInit, JoinInv, JoinTypeOK, SegmInv, SunkInv, CountInv,
   NoJoin, NoResult, Places, Kinds, Errors, Sources, Sinks, Joins, JoinResults

(* The fields of the records the task keeps. *)
LEMMA JoinFields ==
    ASSUME JoinTypeOK
    PROVE  /\ source.ready \in Nat /\ source.pos \in Nat /\ sink.free \in Nat
           /\ join.at \in Places /\ join.c \in Nat /\ join.lent \in Nat /\ join.off \in Nat
           /\ join.err \in Errors \cup {"none"}
           /\ Len(sunk) \in Nat /\ sunkBefore \in Nat
           /\ NoJoin \in Joins /\ NoResult \in JoinResults
           /\ NoJoin.at = "idle" /\ NoJoin.c = 0 /\ NoJoin.off = 0 /\ NoJoin.lent = 0
BY DEF JoinTypeOK, Sources, Sinks, Joins, JoinResults, NoJoin, NoResult, Places, Kinds, Errors

(* Records of the buffers and of the task with some fields changed. *)
LEMMA SourceUpdates ==
    ASSUME NEW s \in Sources, NEW n \in Nat
    PROVE  /\ [s EXCEPT !.pos = n] \in Sources /\ [s EXCEPT !.pos = n].pos = n
           /\ [s EXCEPT !.ready = n] \in Sources /\ [s EXCEPT !.ready = n].pos = s.pos
           /\ [s EXCEPT !.closed = TRUE] \in Sources /\ [s EXCEPT !.closed = TRUE].pos = s.pos
BY DEF Sources

(* Updates of the sink, field by field. *)
LEMMA SinkUpdates ==
    ASSUME NEW s \in Sinks, NEW n \in Nat
    PROVE  [s EXCEPT !.free = n] \in Sinks /\ [s EXCEPT !.closed = TRUE] \in Sinks
BY DEF Sinks

(* A batch of n items counted by the join. *)
LEMMA JoinMoves ==
    ASSUME join \in Joins, NEW n \in Nat,
           join' = [join EXCEPT !.at = "inner", !.c = @ + n, !.off = @ + n]
    PROVE  /\ join' \in Joins
           /\ join'.at = "inner" /\ join'.c = join.c + n /\ join'.off = join.off + n
           /\ join'.lent = join.lent
<1>1. /\ join.c \in Nat /\ join.off \in Nat /\ join.lent \in Nat
      /\ join.err \in Errors \cup {"none"}
  BY DEF Joins
<1>2. join' = [at |-> "inner", c |-> join.c + n, lent |-> join.lent, off |-> join.off + n,
               err |-> join.err]
  BY DEF Joins
<1>3. join.c + n \in Nat /\ join.off + n \in Nat /\ "inner" \in Places
  BY <1>1 DEF Places
<1> QED BY <1>1, <1>2, <1>3 DEF Joins

(* A join that ends with the count it has reached leaves the invariant, once
   what was moved out of its segment is consumed. *)
LEMMA EndsInInv ==
    ASSUME JoinTypeOK, NEW kind \in Kinds, NEW n \in Nat, Ended(kind, n),
           source' \in Sources, sink' \in Sinks, sunk' \in Seq(Nat), sunkBefore' = sunkBefore,
           \A i \in 1..Len(sunk') : sunk'[i] = i,
           source'.pos = Len(sunk'), n = Len(sunk') - sunkBefore
    PROVE  JoinInv'
<1>1. join' = NoJoin /\ result' \in JoinResults /\ result'.count = n
  BY DEF Ended, JoinResults
<1>2. JoinTypeOK'
  BY <1>1, JoinFields DEF JoinTypeOK
<1>3. SegmInv'
  BY <1>1, JoinFields, PipeJoinAssumption DEF SegmInv
<1>4. SunkInv' /\ CountInv'
  BY <1>1, <1>2, JoinFields DEF SunkInv, CountInv, JoinTypeOK, Sources
<1> QED BY <1>2, <1>3, <1>4 DEF JoinInv

(* Every step of the task and of the buffers' other users keeps it. *)
LEMMA JoinStep == JoinInv /\ [JoinNext]_joinVars => JoinInv'
<1> SUFFICES ASSUME JoinInv, [JoinNext]_joinVars PROVE JoinInv'
  OBVIOUS
<1>1. SizeMax \in Nat /\ Supply \in Nat
  BY PipeJoinAssumption
<1>2. JoinTypeOK /\ SegmInv /\ SunkInv /\ CountInv
  BY DEF JoinInv
<1>3. /\ source.ready \in Nat /\ source.pos \in Nat /\ sink.free \in Nat
      /\ join.at \in Places /\ join.c \in Nat /\ join.lent \in Nat /\ join.off \in Nat
      /\ join.err \in Errors \cup {"none"}
      /\ Len(sunk) \in Nat /\ sunkBefore \in Nat
      /\ NoJoin \in Joins /\ NoResult \in JoinResults
      /\ NoJoin.at = "idle" /\ NoJoin.c = 0 /\ NoJoin.off = 0 /\ NoJoin.lent = 0
  BY <1>2, JoinFields
<1>4. source \in Sources /\ sink \in Sinks /\ join \in Joins /\ sunk \in Seq(Nat) /\ result \in JoinResults
  BY <1>2 DEF JoinTypeOK
<1>a. CASE PipeAsync
  <2>1. CASE itemSize = 0
    <3>1. Ended("NoOps", 0) /\ UNCHANGED <<source, sink, sunk>> /\ sunkBefore' = Len(sunk)
      BY <1>a, <2>1 DEF PipeAsync
    <3>2. join' = NoJoin /\ result' \in JoinResults /\ result'.count = 0
      BY <3>1 DEF Ended, JoinResults, Kinds
    <3>3. join.off = 0
      BY <1>2, <1>a DEF SegmInv, PipeAsync
    <3>4. JoinTypeOK'
      BY <1>3, <1>4, <3>1, <3>2 DEF JoinTypeOK
    <3> QED BY <1>1, <1>2, <1>3, <3>1, <3>2, <3>3, <3>4 DEF JoinInv, SegmInv, SunkInv, CountInv
  <2>2. CASE itemSize # 0
    <3>1. /\ join' = [NoJoin EXCEPT !.at = "head"] /\ result' = NoResult
          /\ UNCHANGED <<source, sink, sunk>> /\ sunkBefore' = Len(sunk)
      BY <1>a, <2>2 DEF PipeAsync
    <3>2. /\ join' \in Joins /\ join'.at = "head"
          /\ join'.c = 0 /\ join'.off = 0 /\ join'.lent = 0
      BY <3>1 DEF Joins, NoJoin, Places, Errors
    <3>3. join.off = 0
      BY <1>2, <1>a DEF SegmInv, PipeAsync
    <3>4. JoinTypeOK'
      BY <1>3, <1>4, <3>1, <3>2 DEF JoinTypeOK
    <3> QED BY <1>1, <1>2, <1>3, <3>1, <3>2, <3>3, <3>4 DEF JoinInv, SegmInv, SunkInv, CountInv
  <2> QED BY <2>1, <2>2
<1>b. CASE LoopHead
  <2>1. /\ UNCHANGED <<source, sink, sunk, sunkBefore>>
        /\ join.at = "head" /\ join.off = 0 /\ join.lent = 0
    BY <1>2, <1>b DEF LoopHead, SegmInv
  <2>2. CASE \E kind \in Kinds : Ended(kind, join.c)
    BY <1>2, <1>3, <1>4, <2>1, <2>2, EndsInInv DEF SunkInv, CountInv
  <2>3. CASE join' = [join EXCEPT !.at = "read"] /\ UNCHANGED result
    <3>1. /\ join' \in Joins /\ join'.at = "read" /\ join'.c = join.c
          /\ join'.off = 0 /\ join'.lent = 0
      BY <1>4, <2>1, <2>3 DEF Joins, Places
    <3>2. JoinTypeOK'
      BY <1>3, <1>4, <2>1, <2>3, <3>1 DEF JoinTypeOK
    <3> QED BY <1>1, <1>2, <1>3, <2>1, <3>1, <3>2 DEF JoinInv, SegmInv, SunkInv, CountInv
  <2> QED BY <1>b, <2>2, <2>3 DEF LoopHead, Kinds
<1>c. ASSUME NEW n \in 0..Supply, NEW err \in Errors \cup {"none"}, ReadAnswers(n, err)
      PROVE  JoinInv'
  <2>1. /\ UNCHANGED <<source, sink, sunk, sunkBefore, result>>
        /\ join.at = "read" /\ join.off = 0
        /\ join' = [join EXCEPT !.at = IF n > 0 THEN "inner" ELSE "after",
                                !.lent = n, !.off = 0, !.err = err]
    BY <1>2, <1>c DEF ReadAnswers, SegmInv
  <2>2. n \in Nat /\ n <= SizeMax - join.c
    BY <1>1, <1>3, <1>c DEF ReadAnswers, Lesser, ReadDemand
  <2>3. /\ join' \in Joins /\ join'.at \in {"inner", "after"} /\ join'.c = join.c
        /\ join'.off = 0 /\ join'.lent = n
    BY <1>4, <2>1, <2>2 DEF Joins, Places
  <2>4. JoinTypeOK'
    BY <1>3, <1>4, <2>1, <2>3 DEF JoinTypeOK
  <2> QED BY <1>1, <1>2, <1>3, <2>1, <2>2, <2>3, <2>4 DEF JoinInv, SegmInv, SunkInv, CountInv
<1>d. CASE InnerHead
  <2>1. UNCHANGED <<source, sink, sunk, sunkBefore, result>> /\ join.at = "inner"
    BY <1>d DEF InnerHead
  <2>2. /\ join' \in Joins /\ join'.at \in {"write", "after"} /\ join'.c = join.c
        /\ join'.off = join.off /\ join'.lent = join.lent
    BY <1>4, <1>d DEF InnerHead, Joins, Places
  <2>3. JoinTypeOK'
    BY <1>3, <1>4, <2>1, <2>2 DEF JoinTypeOK
  <2> QED BY <1>2, <2>1, <2>2, <2>3 DEF JoinInv, SegmInv, SunkInv, CountInv
<1>e. ASSUME NEW n \in 0..Supply, NEW err \in Errors \cup {"none"}, WriteAnswers(n, err)
      PROVE  JoinInv'
  <2>1. n \in Nat /\ n <= sink.free /\ n <= join.lent - join.off
    BY <1>1, <1>3, <1>e DEF WriteAnswers, Lesser
  <2>2. sunk' = sunk \o [i \in 1..n |-> Len(sunk) + i]
    BY <1>2, <1>e DEF WriteAnswers, SunkInv
  <2>3. /\ sunk' \in Seq(Nat) /\ Len(sunk') = Len(sunk) + n
        /\ \A i \in 1..Len(sunk') : sunk'[i] = i
    BY <1>2, <1>4, <2>1, <2>2, AppendItems DEF SunkInv
  <2>4. sink' \in Sinks /\ sunkBefore' = sunkBefore /\ join.at = "write"
    BY <1>4, <1>e, <2>1 DEF WriteAnswers, Sinks
  <2>5. CASE ShouldTerminate(err)
    <3>1. Ended("TxErr", join.c + n) /\ source' = [source EXCEPT !.pos = @ + join.off + n]
      BY <1>e, <2>5 DEF WriteAnswers
    <3>2. source' \in Sources /\ source'.pos = source.pos + join.off + n
      <4>1. source.pos + join.off + n \in Nat
        BY <1>3, <2>1
      <4> QED BY <1>4, <3>1, <4>1, SourceUpdates
    <3>3. "TxErr" \in Kinds /\ join.c + n \in Nat
      BY <1>3, <2>1 DEF Kinds
    <3>4. source'.pos = Len(sunk') /\ join.c + n = Len(sunk') - sunkBefore
      BY <1>2, <1>3, <2>1, <2>3, <2>4, <3>2, SMTT(60) DEF SunkInv, CountInv
    <3> QED BY <1>2, <2>3, <2>4, <3>1, <3>2, <3>3, <3>4, EndsInInv
  <2>6. CASE ~ShouldTerminate(err)
    <3>1. /\ UNCHANGED <<source, result>>
          /\ join' = [join EXCEPT !.at = "inner", !.c = @ + n, !.off = @ + n]
      BY <1>e, <2>6 DEF WriteAnswers
    <3>2. /\ join' \in Joins /\ join'.at = "inner" /\ join'.c = join.c + n
          /\ join'.off = join.off + n /\ join'.lent = join.lent
      BY <1>4, <2>1, <3>1, JoinMoves
    <3>3. JoinTypeOK'
      BY <1>3, <1>4, <2>3, <2>4, <3>1, <3>2 DEF JoinTypeOK
    <3>4. SegmInv'
      BY <1>1, <1>2, <1>3, <2>1, <2>4, <3>2 DEF SegmInv
    <3>5. source'.pos + join'.off = Len(sunk') /\ join'.c = Len(sunk') - sunkBefore'
      <4>1. source.pos + join.off = Len(sunk) /\ join.c = Len(sunk) - sunkBefore
        BY <1>2, <2>4 DEF SunkInv, CountInv
      <4>2. Len(sunk') = Len(sunk) + n /\ sunkBefore' = sunkBefore
        BY <2>3, <2>4
      <4>3. source' = source /\ join'.c = join.c + n /\ join'.off = join.off + n
        BY <3>1, <3>2
      <4>4. source'.pos + join'.off = (source.pos + join.off) + n
        BY <1>3, <2>1, <4>3
      <4>5. join'.c = (Len(sunk) + n) - sunkBefore
        BY <1>3, <2>1, <4>1, <4>3
      <4> QED BY <4>1, <4>2, <4>4, <4>5
    <3>6. SunkInv' /\ CountInv'
      BY <2>3, <3>2, <3>5 DEF SunkInv, CountInv
    <3> QED BY <3>3, <3>4, <3>6 DEF JoinInv
  <2> QED BY <2>5, <2>6
<1>f. ASSUME DropSegm
      PROVE  source' \in Sources /\ source'.pos = source.pos + join.off
  <2>1. source.pos + join.off \in Nat
    BY <1>3
  <2> QED BY <1>4, <1>f, <2>1, SourceUpdates DEF DropSegm
<1>g. CASE AfterRead
  <2>1. /\ UNCHANGED <<sink, sunk, sunkBefore>> /\ join.at = "after"
        /\ source' \in Sources /\ source'.pos = source.pos + join.off
    BY <1>f, <1>g DEF AfterRead
  <2>2. CASE Ended("RxErr", join.c)
    <3>1. "RxErr" \in Kinds
      BY DEF Kinds
    <3> QED BY <1>2, <1>3, <1>4, <2>1, <2>2, <3>1, EndsInInv DEF SunkInv, CountInv
  <2>3. CASE join' = [NoJoin EXCEPT !.at = "head", !.c = join.c] /\ UNCHANGED result
    <3>1. /\ join' \in Joins /\ join'.at = "head" /\ join'.c = join.c
          /\ join'.off = 0 /\ join'.lent = 0
      BY <1>3, <2>3 DEF Joins, NoJoin, Places, Errors
    <3>2. JoinTypeOK'
      BY <1>3, <1>4, <2>1, <2>3, <3>1 DEF JoinTypeOK
    <3> QED BY <1>1, <1>2, <1>3, <2>1, <3>1, <3>2 DEF JoinInv, SegmInv, SunkInv, CountInv
  <2> QED BY <1>g, <2>2, <2>3 DEF AfterRead
<1>h. CASE DropJoin
  <2>1. /\ UNCHANGED <<sink, sunk, sunkBefore>> /\ join' = NoJoin /\ result' = NoResult
        /\ source' \in Sources /\ source'.pos = source.pos + join.off
    BY <1>f, <1>h DEF DropJoin
  <2>2. JoinTypeOK' /\ NoResult.kind = "none"
    BY <1>3, <1>4, <2>1 DEF JoinTypeOK, NoResult
  <2> QED BY <1>1, <1>2, <1>3, <2>1, <2>2 DEF JoinInv, SegmInv, SunkInv, CountInv
<1>i. CASE Refill \/ CloseSource
  <2>1. source' \in Sources /\ source'.pos = source.pos
    <3>1. source.ready + 1 \in Nat
      BY <1>3
    <3>2. \/ source' = [source EXCEPT !.ready = source.ready + 1]
          \/ source' = [source EXCEPT !.closed = TRUE]
      BY <1>i DEF Refill, CloseSource
    <3>3. CASE source' = [source EXCEPT !.ready = source.ready + 1]
      BY <1>4, <3>1, <3>3, SourceUpdates
    <3>4. CASE source' = [source EXCEPT !.closed = TRUE]
      BY <1>4, <3>1, <3>4, SourceUpdates
    <3> QED BY <3>2, <3>3, <3>4
  <2>2. UNCHANGED <<sink, sunk, join, result, sunkBefore>>
    BY <1>i DEF Refill, CloseSource
  <2> QED BY <1>2, <2>1, <2>2 DEF JoinInv, JoinTypeOK, SegmInv, SunkInv, CountInv
<1>j. CASE MakeRoom \/ CloseSink
  <2>1. sink' \in Sinks
    <3>1. sink.free + 1 \in Nat
      BY <1>3
    <3> QED BY <1>4, <1>j, <3>1, SinkUpdates DEF MakeRoom, CloseSink
  <2>2. UNCHANGED <<source, sunk, join, result, sunkBefore>>
    BY <1>j DEF MakeRoom, CloseSink
  <2> QED BY <1>2, <2>1, <2>2 DEF JoinInv, JoinTypeOK, SegmInv, SunkInv, CountInv
<1>k. CASE UNCHANGED joinVars
  BY <1>2, <1>k DEF joinVars, JoinInv, JoinTypeOK, SegmInv, SunkInv, CountInv
<1> QED BY <1>a, <1>b, <1>c, <1>d, <1>e, <1>g, <1>h, <1>i, <1>j, <1>k
        DEF JoinNext, JoinLocal, JoinAnswers

(* Through any sequence of joins that fail, are cancelled, dropped at an await
   or stopped by the largest count, every item is moved once and in order, the
   source has consumed exactly what was moved, and the count a join returns is
   what it moved. *)
THEOREM JoinsKeepItems == JoinSpec => []JoinKeepsItems
<1>1. JoinInv => JoinKeepsItems
  <2> SUFFICES ASSUME JoinInv PROVE JoinKeepsItems
    OBVIOUS
  <2>1. sunk = [i \in 1..Len(sunk) |-> i]
    BY DEF JoinInv, JoinTypeOK, SunkInv
  <2>2. join.c <= SizeMax
    BY JoinFields, PipeJoinAssumption DEF JoinInv, SegmInv
  <2> QED BY <2>1, <2>2 DEF JoinKeepsItems, JoinInv, SunkInv, CountInv
<1> QED BY <1>1, JoinInitInv, JoinStep, PTL DEF JoinSpec

=============================================================================
