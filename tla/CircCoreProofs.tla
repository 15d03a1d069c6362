--------------------------- MODULE CircCoreProofs ---------------------------
(* The safety of the circular buffer core, for every capacity, every set of
   demands and every number of items. *)
EXTENDS CircCore, IoPosProofs, Sequences

(* The part of the invariant about positions, segments and cells. *)
DataInv ==
    /\ PositionsCount
    /\ SegmentsFit
    /\ CellsInOrder
    /\ FifoOrder

-----------------------------------------------------------------------------
(* The two halves are distinct and there is no third. *)
LEMMA Peers ==
    /\ \A s \in Sides : Peer(s) \in Sides /\ Peer(s) # s /\ Peer(Peer(s)) = s
    /\ \A s, t \in Sides : t = s \/ t = Peer(s)
BY DEF Sides, Peer

(* The room either half is offered is between nothing and the capacity. *)
LEMMA RoomType ==
    ASSUME TypeOK, PositionsCount
    PROVE  /\ \A s \in Sides : Room(s) \in 0 .. Capacity
           /\ Room("tx") + Room("rx") = Capacity
BY DataSizeIs, CapacityAssumption DEF TypeOK, PositionsCount, Room, Sides

(* A demand that is met is lent a segment of at least one cell that fits. *)
LEMMA TakeFits ==
    ASSUME TypeOK, PositionsCount, NEW s \in Sides, NEW d \in Demands,
           CanLend(s, d)
    PROVE  Take(s, d) \in 0 .. Capacity /\ Take(s, d) <= Room(s)
<1>1. d.max \in Nat
  BY DemandsAssumption
<1> QED BY <1>1, RoomType, CapacityAssumption DEF Take

(* A step that leaves the buffer alone, and borrows or returns no segment,
   keeps the data part. *)
LEMMA DataFrame ==
    ASSUME DataInv,
           UNCHANGED <<pos, cells, seg, nw, nr, lastOut>>,
           \A t \in Sides : (pc'[t] = "seg") <=> (pc[t] = "seg")
    PROVE  DataInv'
BY DEF DataInv, PositionsCount, SegmentsFit, CellsInOrder, FifoOrder, Room

(* Lending a segment keeps the data part. *)
LEMMA LendData ==
    ASSUME TypeOK, DataInv, NEW s \in Sides, NEW d \in Demands,
           CanLend(s, d), pc[s] # "seg", Lend(s, d),
           UNCHANGED <<pos, cells, nw, nr, lastOut>>
    PROVE  DataInv' /\ seg' \in [Sides -> [start : Cells, len : 0 .. Capacity,
                                           off : 0 .. Capacity]]
<1>1. Take(s, d) \in 0 .. Capacity /\ Take(s, d) <= Room(s)
  BY TakeFits DEF DataInv
<1>2. seg[s] = NoSeg
  BY DEF DataInv, SegmentsFit
<1>3. seg'[s] = [start |-> IF s = "tx" THEN pos.wp ELSE pos.rp,
                 len |-> Take(s, d), off |-> 0]
  BY DEF Lend, TypeOK
<1>4. \A t \in Sides : t # s => seg'[t] = seg[t] /\ pc'[t] = pc[t]
  BY DEF Lend, TypeOK, Goto
<1>5. pc'[s] = "seg"
  BY DEF Lend, TypeOK, Goto
<1>6. PositionsCount'
  BY DEF DataInv, PositionsCount
<1>7. \A t \in Sides : seg'[t].off = seg[t].off
  BY <1>2, <1>3, <1>4 DEF NoSeg
<1>8. SegmentsFit'
  BY <1>1, <1>3, <1>4, <1>5, CapacityAssumption DEF DataInv, SegmentsFit, Room
<1>9. CellsInOrder' /\ FifoOrder'
  BY <1>7 DEF DataInv, CellsInOrder, FifoOrder, Sides
<1>10. seg' \in [Sides -> [start : Cells, len : 0 .. Capacity,
                           off : 0 .. Capacity]]
  BY <1>1, CapacityAssumption DEF Lend, TypeOK, Positions
<1> QED BY <1>6, <1>8, <1>9, <1>10 DEF DataInv

(* Moving an item into the next cell of a write segment, or out of the next
   cell of a read segment, keeps the data part. *)
LEMMA MoveData ==
    ASSUME TypeOK, DataInv, NEW s \in Sides, MoveItem(s)
    PROVE  /\ DataInv'
           /\ cells' \in [Cells -> Nat]
           /\ lastOut' \in Nat
           /\ seg' \in [Sides -> [start : Cells, len : 0 .. Capacity,
                                  off : 0 .. Capacity]]
<1> DEFINE off == seg[s].off
           c   == CellAt(seg[s].start, off)
<1>1. /\ off \in Nat /\ off < seg[s].len /\ seg[s].len <= Room(s)
      /\ seg[s].len \in 0 .. Capacity
      /\ seg[s].start = IF s = "tx" THEN pos.wp ELSE pos.rp
      /\ pc[s] = "seg"
  BY DEF MoveItem, DataInv, SegmentsFit, TypeOK
<1>2. /\ pos \in Positions /\ WellPlaced(pos)
      /\ pos.rp \in Cells /\ pos.wp \in Cells
      /\ DataSize(pos) \in 0 .. Capacity /\ FreeSize(pos) \in 0 .. Capacity
      /\ FreeSize(pos) = Capacity - DataSize(pos)
  BY DataSizeIs DEF TypeOK, DataInv, PositionsCount, Positions
<1>3. /\ \A t \in Sides : t # s => seg'[t] = seg[t]
      /\ seg'[s].start = seg[s].start /\ seg'[s].len = seg[s].len
      /\ seg'[s].off = off + 1
  BY DEF MoveItem, TypeOK
<1>4. PositionsCount'
  BY DEF MoveItem, DataInv, PositionsCount, word
<1>5. SegmentsFit'
  <2>1. UNCHANGED <<pos, pc>>
    BY DEF MoveItem, word
  <2>2. off + 1 <= seg[s].len
    BY <1>1
  <2> QED BY <1>1, <1>3, <2>1, <2>2 DEF DataInv, SegmentsFit, Room
<1>6. seg' \in [Sides -> [start : Cells, len : 0 .. Capacity,
                         off : 0 .. Capacity]]
  <2>1. off + 1 \in 0 .. Capacity
    BY <1>1, CapacityAssumption DEF TypeOK
  <2> QED BY <2>1 DEF MoveItem, TypeOK
<1>7. CASE s = "tx"
  <2>1. /\ cells' = [cells EXCEPT ![c] = nw + off + 1]
        /\ lastOut' = lastOut
        /\ UNCHANGED <<pos, nw, nr>>
    BY <1>7 DEF MoveItem, word
  <2>2. off < FreeSize(pos)
    <3>1. Room(s) = FreeSize(pos)
      BY <1>7 DEF Room
    <3> QED BY <1>1, <1>2, <3>1, CapacityAssumption
  <2>3. /\ DataSize(pos) + off \in Cells
        /\ c = CellAt(pos.rp, DataSize(pos) + off)
    BY <1>1, <1>2, <1>7, <2>2, WriteAfterData
  <2>4. c \in Cells
    <3>1. DataSize(pos) + off \in 0 .. Capacity
      BY <2>3, CapacityAssumption DEF Cells
    <3> QED BY <1>2, <2>3, <3>1, CellAtWrap
  <2>5. nw = nr + DataSize(pos) /\ nw \in Nat /\ nr \in Nat
    BY <1>2 DEF DataInv, PositionsCount, TypeOK
  <2>6. ASSUME NEW i \in Cells, i < DataSize(pos) + (off + 1)
        PROVE  cells'[CellAt(pos.rp, i)] = nr + i + 1
    <3> HIDE DEF c
    <3>1. CASE i = DataSize(pos) + off
      <4>1. cells'[c] = nw + off + 1
        BY <2>1, <2>4 DEF TypeOK
      <4> QED BY <1>1, <1>2, <2>3, <2>5, <3>1, <4>1
    <3>2. CASE i # DataSize(pos) + off
      <4>1. CellAt(pos.rp, i) # c
        BY <1>2, <2>3, <3>2, CellAtInjective
      <4>2. CellAt(pos.rp, i) \in Cells
        <5>1. i \in 0 .. Capacity
          BY CapacityAssumption DEF Cells
        <5> QED BY <1>2, <5>1, CellAtWrap
      <4>3. cells'[CellAt(pos.rp, i)] = cells[CellAt(pos.rp, i)]
        BY <2>1, <4>1, <4>2 DEF TypeOK
      <4>4. i < DataSize(pos) + seg["tx"].off
        BY <1>1, <1>2, <1>7, <2>6, <3>2 DEF Cells
      <4> QED BY <4>3, <4>4 DEF DataInv, CellsInOrder
    <3> QED BY <3>1, <3>2
  <2>7. CellsInOrder'
    BY <1>3, <1>7, <2>1, <2>6 DEF CellsInOrder
  <2>8. FifoOrder'
    BY <1>3, <1>7, <2>1 DEF DataInv, FifoOrder, Sides
  <2>9. cells' \in [Cells -> Nat] /\ lastOut' \in Nat
    <3>1. nw + off + 1 \in Nat
      BY <1>1, <2>5
    <3> QED BY <2>1, <3>1 DEF TypeOK
  <2> QED BY <1>4, <1>5, <1>6, <2>7, <2>8, <2>9 DEF DataInv
<1>8. CASE s = "rx"
  <2>1. /\ cells' = cells
        /\ lastOut' = cells[c]
        /\ UNCHANGED <<pos, nw, nr>>
    BY <1>8 DEF MoveItem, word
  <2>2. off < DataSize(pos) /\ seg[s].start = pos.rp /\ off \in Cells
    <3>1. Room(s) = DataSize(pos)
      BY <1>8 DEF Room
    <3>2. seg[s].start = pos.rp
      BY <1>1, <1>8
    <3>3. off < DataSize(pos) /\ off \in Cells
      BY <1>1, <1>2, <3>1, CapacityAssumption DEF Cells
    <3> QED BY <3>2, <3>3
  <2>3. off < DataSize(pos) + seg["tx"].off
    BY <1>1, <1>2, <2>2 DEF TypeOK, Sides
  <2>4. cells[c] = nr + off + 1
    BY <2>2, <2>3 DEF DataInv, CellsInOrder
  <2>5. FifoOrder'
    BY <1>3, <1>8, <1>1, <2>1, <2>4 DEF FifoOrder, TypeOK
  <2>6. CellsInOrder'
    BY <1>3, <1>8, <2>1 DEF DataInv, CellsInOrder, Sides
  <2>7. cells' \in [Cells -> Nat] /\ lastOut' \in Nat
    BY <1>1, <2>1, <2>4 DEF TypeOK
  <2> QED BY <1>4, <1>5, <1>6, <2>5, <2>6, <2>7 DEF DataInv
<1> QED BY <1>7, <1>8 DEF Sides

(* Committing what was moved, and returning the segment, keeps the data
   part: the other half's segment still fits. *)
LEMMA CommitData ==
    ASSUME TypeOK, DataInv, NEW s \in Sides, Commit(s)
    PROVE  /\ DataInv'
           /\ pos' \in Positions /\ nw' \in Nat /\ nr' \in Nat
           /\ Room(s)' <= Room(s) /\ Room(Peer(s))' >= Room(Peer(s))
<1> DEFINE off == seg[s].off
<1>1. /\ off \in Nat /\ off <= seg[s].len /\ seg[s].len <= Room(s)
      /\ seg[s].len \in Nat
      /\ seg[s].start = IF s = "tx" THEN pos.wp ELSE pos.rp
      /\ pc[s] = "seg"
  BY DEF Commit, DataInv, SegmentsFit, TypeOK
<1>2. /\ pos \in Positions /\ WellPlaced(pos)
      /\ pos.rp \in Cells /\ pos.wp \in Cells
      /\ DataSize(pos) \in 0 .. Capacity /\ FreeSize(pos) \in 0 .. Capacity
      /\ FreeSize(pos) = Capacity - DataSize(pos)
      /\ DataSize(pos) = nw - nr /\ nw \in Nat /\ nr \in Nat
  BY DataSizeIs DEF TypeOK, DataInv, PositionsCount, Positions
<1>3. /\ \A t \in Sides : t # s => seg'[t] = seg[t] /\ pc'[t] = pc[t]
      /\ seg'[s] = NoSeg /\ pc'[s] = "event"
      /\ cells' = cells /\ lastOut' = lastOut
  BY DEF Commit, TypeOK, Goto
<1>4. CASE s = "tx"
  <2>1. pos' = AdvanceWp(pos, off) /\ nw' = nw + off /\ nr' = nr
    BY <1>4 DEF Commit
  <2>2. off <= FreeSize(pos)
    BY <1>1, <1>2, <1>4 DEF Room
  <2>3. /\ pos' \in Positions /\ WellPlaced(pos')
        /\ DataSize(pos') = DataSize(pos) + off
        /\ pos'.rp = pos.rp
    BY <1>1, <1>2, <2>1, <2>2, AdvanceWpOK
  <2>4. FreeSize(pos') = FreeSize(pos) - off
    BY <1>1, <1>2, <2>2, <2>3, DataSizeIs, CapacityAssumption
  <2>5. PositionsCount'
    BY <1>1, <1>2, <2>1, <2>3 DEF PositionsCount
  <2>6. SegmentsFit'
    <3>1. IF pc["rx"] = "seg"
          THEN /\ seg["rx"].start = pos.rp /\ seg["rx"].off <= seg["rx"].len
               /\ seg["rx"].len <= DataSize(pos) /\ seg["rx"].len \in Nat
          ELSE seg["rx"] = NoSeg
      BY DEF DataInv, SegmentsFit, Room, Sides, TypeOK
    <3>2. seg'["rx"] = seg["rx"] /\ pc'["rx"] = pc["rx"]
      BY <1>3, <1>4 DEF Sides
    <3> QED BY <1>1, <1>2, <1>3, <1>4, <2>3, <3>1, <3>2
               DEF SegmentsFit, Room, Sides
  <2>7. CellsInOrder'
    <3>1. DataSize(pos') + seg'["tx"].off = DataSize(pos) + seg["tx"].off
      BY <1>1, <1>2, <1>3, <1>4, <2>3 DEF NoSeg
    <3> QED BY <1>3, <2>1, <2>3, <3>1 DEF DataInv, CellsInOrder
  <2>8. FifoOrder'
    BY <1>3, <1>4, <2>1 DEF DataInv, FifoOrder, Sides
  <2>9. Room(s)' <= Room(s) /\ Room(Peer(s))' >= Room(Peer(s))
    BY <1>1, <1>2, <1>4, <2>2, <2>3, <2>4 DEF Room, Peer
  <2> QED BY <1>1, <1>2, <2>1, <2>3, <2>5, <2>6, <2>7, <2>8, <2>9 DEF DataInv
<1>5. CASE s = "rx"
  <2>1. pos' = AdvanceRp(pos, off) /\ nr' = nr + off /\ nw' = nw
    BY <1>5 DEF Commit
  <2>2. off <= DataSize(pos)
    BY <1>1, <1>2, <1>5 DEF Room
  <2>3. /\ pos' \in Positions /\ WellPlaced(pos')
        /\ DataSize(pos') = DataSize(pos) - off
        /\ pos'.wp = pos.wp
        /\ pos'.rp = CellAt(pos.rp, off)
    BY <1>1, <1>2, <2>1, <2>2, AdvanceRpOK
  <2>4. FreeSize(pos') = FreeSize(pos) + off
    BY <1>1, <1>2, <2>2, <2>3, DataSizeIs, CapacityAssumption
  <2>5. PositionsCount'
    BY <1>1, <1>2, <2>1, <2>3 DEF PositionsCount
  <2>6. SegmentsFit' /\ seg["tx"].off <= FreeSize(pos) /\ seg["tx"].off \in Nat
    <3>1. IF pc["tx"] = "seg"
          THEN /\ seg["tx"].start = pos.wp /\ seg["tx"].off <= seg["tx"].len
               /\ seg["tx"].len <= FreeSize(pos)
          ELSE seg["tx"] = NoSeg
      BY DEF DataInv, SegmentsFit, Room, Sides, TypeOK
    <3>2. seg["tx"].len \in Nat /\ seg["tx"].off \in Nat
      BY DEF Sides, TypeOK
    <3>3. seg'["tx"] = seg["tx"] /\ pc'["tx"] = pc["tx"]
      BY <1>3, <1>5 DEF Sides
    <3>4. SegmentsFit'
      BY <1>1, <1>2, <1>3, <1>5, <2>3, <2>4, <3>1, <3>2, <3>3
         DEF SegmentsFit, Room, Sides
    <3>5. seg["tx"].off <= FreeSize(pos)
      BY <1>2, <3>1, <3>2 DEF NoSeg
    <3> QED BY <3>2, <3>4, <3>5
  <2>7. CellsInOrder'
    <3> SUFFICES ASSUME NEW i \in Cells,
                        i < DataSize(pos') + seg'["tx"].off
                 PROVE  cells[CellAt(pos'.rp, i)] = nr' + i + 1
      BY <1>3 DEF CellsInOrder
    <3>1. seg'["tx"].off = seg["tx"].off
      BY <1>3, <1>5 DEF Sides
    <3>2. /\ off + i \in Cells /\ off + i <= Capacity /\ i \in Nat
          /\ off + i < DataSize(pos) + seg["tx"].off
      BY <1>1, <1>2, <2>2, <2>3, <2>6, <3>1, CapacityAssumption DEF Cells
    <3>3. CellAt(pos'.rp, i) = CellAt(pos.rp, off + i)
      <4>1. CellAt(CellAt(pos.rp, off), i) = CellAt(pos.rp, off + i)
        BY <1>1, <1>2, <3>2, CellAtShift
      <4> QED BY <2>3, <4>1
    <3>4. cells[CellAt(pos.rp, off + i)] = nr + (off + i) + 1
      BY <3>2 DEF DataInv, CellsInOrder
    <3> QED BY <1>1, <1>2, <2>1, <3>2, <3>3, <3>4
  <2>8. FifoOrder'
    BY <1>1, <1>2, <1>3, <1>5, <2>1 DEF DataInv, FifoOrder, NoSeg
  <2>9. Room(s)' <= Room(s) /\ Room(Peer(s))' >= Room(Peer(s))
    BY <1>1, <1>2, <1>5, <2>2, <2>3, <2>4 DEF Room, Peer
  <2> QED BY <1>1, <1>2, <2>1, <2>3, <2>5, <2>6, <2>7, <2>8, <2>9 DEF DataInv
<1> QED BY <1>4, <1>5 DEF Sides

(* Publishing the demand, arming, and registering the waiter. *)
LEMMA RegisterSteps ==
    ASSUME IInv, NEW s \in Sides,
           SetDemand(s) \/ Arm(s) \/ Poll(s) \/ Register(s)
    PROVE  IInv'
<1>0. TypeOK /\ DataInv /\ ArmedProtocol /\ WakeupInv
  BY DEF IInv, DataInv
<1>1. CASE SetDemand(s)
  <2>1. TypeOK'
    BY <1>0, <1>1 DEF SetDemand, TypeOK, Goto, word, hist, Labels
  <2>2. DataInv'
    BY <1>0, <1>1, DataFrame DEF SetDemand, TypeOK, Goto, word, hist
  <2>3. ArmedProtocol'
    BY <1>0, <1>1, Peers
       DEF SetDemand, TypeOK, Goto, word, hist, ArmedProtocol, Armed, Published
  <2>4. WakeupInv'
    BY <1>0, <1>1, Peers
       DEF SetDemand, TypeOK, Goto, word, hist, ArmedProtocol, WakeupInv,
           WakeupOwed, CanLend, Ended, Room
  <2> QED BY <2>1, <2>2, <2>3, <2>4 DEF IInv, DataInv
<1>2. CASE Arm(s)
  <2>1. TypeOK'
    BY <1>0, <1>2 DEF Arm, TypeOK, Goto, word, hist, Labels
  <2>2. DataInv'
    BY <1>0, <1>2, DataFrame DEF Arm, TypeOK, Goto, word, hist
  <2>3. ArmedProtocol'
    BY <1>0, <1>2, Peers
       DEF Arm, TypeOK, Goto, word, hist, ArmedProtocol, Armed, Published
  <2>4. WakeupInv'
    BY <1>0, <1>2, Peers
       DEF Arm, TypeOK, Goto, word, hist, ArmedProtocol, WakeupInv,
           WakeupOwed, CanLend, Ended, Room
  <2> QED BY <2>1, <2>2, <2>3, <2>4 DEF IInv, DataInv
<1>3. CASE Poll(s)
  <2>1. TypeOK'
    BY <1>0, <1>3 DEF Poll, TypeOK, Goto, word, hist, Labels
  <2>2. DataInv'
    BY <1>0, <1>3, DataFrame DEF Poll, TypeOK, Goto, word, hist
  <2>3. ArmedProtocol'
    BY <1>0, <1>3, Peers
       DEF Poll, TypeOK, Goto, word, hist, ArmedProtocol, Armed, Published
  <2>4. WakeupInv'
    <3>1. \E l \in {"dereg", "reg"} : pc' = [pc EXCEPT ![s] = l]
      BY <1>3 DEF Poll, Goto
    <3> QED BY <1>0, <1>3, <3>1, Peers
            DEF Poll, TypeOK, word, WakeupInv, WakeupOwed, CanLend, Ended, Room
  <2> QED BY <2>1, <2>2, <2>3, <2>4 DEF IInv, DataInv
<1>4. CASE Register(s)
  <2>1. TypeOK'
    BY <1>0, <1>4 DEF Register, TypeOK, Goto, word, hist, Labels
  <2>2. DataInv'
    BY <1>0, <1>4, DataFrame DEF Register, TypeOK, Goto, word, hist
  <2>3. ArmedProtocol'
    BY <1>0, <1>4, Peers
       DEF Register, TypeOK, Goto, word, hist, ArmedProtocol, Armed, Published
  <2>4. WakeupInv'
    BY <1>0, <1>4, Peers
       DEF Register, TypeOK, Goto, word, hist, ArmedProtocol, WakeupInv,
           WakeupOwed, CanLend, Ended, Room
  <2> QED BY <2>1, <2>2, <2>3, <2>4 DEF IInv, DataInv
<1> QED BY <1>1, <1>2, <1>3, <1>4

(* The re-check that decides to park, and leaving the park. *)
LEMMA ParkSteps ==
    ASSUME IInv, NEW s \in Sides,
           Recheck(s) \/ Resume(s) \/ Repoll(s) \/ DropFuture(s)
    PROVE  IInv'
<1>0. TypeOK /\ DataInv /\ ArmedProtocol /\ WakeupInv
  BY DEF IInv, DataInv
<1>1. CASE Recheck(s)
  <2>1. TypeOK'
    BY <1>0, <1>1 DEF Recheck, TypeOK, Goto, word, hist, Labels
  <2>2. DataInv'
    BY <1>0, <1>1, DataFrame DEF Recheck, TypeOK, Goto, word, hist
  <2>3. ArmedProtocol'
    <3>1. pc'[s] = "parked" => ~Ended(s)
      BY <1>0, <1>1 DEF Recheck, TypeOK, Goto, CanStop
    <3>2. pc'[s] = "parked" => ~closed'[s]
      BY <1>0, <1>1, <3>1 DEF Recheck, Ended, word, Sides
    <3> QED BY <1>0, <1>1, <3>2, Peers
            DEF Recheck, TypeOK, Goto, word, hist, ArmedProtocol, Armed,
                Published
  <2>4. WakeupInv'
    <3>1. pc'[s] = "parked" => ~CanLend(s, arg[s])'
      BY <1>0, <1>1 DEF Recheck, TypeOK, Goto, CanStop, CanLend, Ended, Room,
                        word
    <3> SUFFICES ASSUME NEW t \in Sides, t = Peer(s), pc'[t] = "parked",
                        ~woken'[t], CanLend(t, arg[t])', ~closed'[Peer(t)]
                 PROVE  FALSE
      BY <3>1, Peers DEF WakeupInv
    <3>2. /\ pc[t] = "parked" /\ ~woken[t] /\ CanLend(t, arg[t])
          /\ ~closed[Peer(t)] /\ pc[Peer(t)] = "recheck"
      BY <1>0, <1>1, Peers
         DEF Recheck, TypeOK, Goto, word, CanLend, Ended, Room
    <3> QED BY <1>0, <3>2 DEF WakeupInv, WakeupOwed
  <2> QED BY <2>1, <2>2, <2>3, <2>4 DEF IInv, DataInv
<1>2. CASE Resume(s)
  <2>1. TypeOK'
    BY <1>0, <1>2 DEF Resume, TypeOK, Goto, word, hist, Labels
  <2>2. DataInv'
    BY <1>0, <1>2, DataFrame DEF Resume, TypeOK, Goto, word, hist
  <2>3. ArmedProtocol'
    BY <1>0, <1>2, Peers
       DEF Resume, TypeOK, Goto, word, hist, ArmedProtocol, Armed, Published
  <2>4. WakeupInv'
    BY <1>0, <1>2, Peers
       DEF Resume, TypeOK, Goto, word, hist, ArmedProtocol, WakeupInv,
           WakeupOwed, CanLend, Ended, Room
  <2> QED BY <2>1, <2>2, <2>3, <2>4 DEF IInv, DataInv
<1>3. CASE Repoll(s)
  <2>1. TypeOK'
    BY <1>0, <1>3 DEF Repoll, TypeOK, Goto, word, hist, Labels
  <2>2. DataInv'
    BY <1>0, <1>3, DataFrame DEF Repoll, TypeOK, Goto, word, hist
  <2>3. ArmedProtocol'
    BY <1>0, <1>3, Peers
       DEF Repoll, TypeOK, Goto, word, hist, ArmedProtocol, Armed, Published
  <2>4. WakeupInv'
    BY <1>0, <1>3, Peers
       DEF Repoll, TypeOK, Goto, word, hist, ArmedProtocol, WakeupInv,
           WakeupOwed, CanLend, Ended, Room
  <2> QED BY <2>1, <2>2, <2>3, <2>4 DEF IInv, DataInv
<1>4. CASE DropFuture(s)
  <2>1. TypeOK'
    BY <1>0, <1>4 DEF DropFuture, TypeOK, Goto, word, hist, Labels
  <2>2. DataInv'
    BY <1>0, <1>4, DataFrame DEF DropFuture, TypeOK, Goto, word, hist
  <2>3. ArmedProtocol'
    BY <1>0, <1>4, Peers
       DEF DropFuture, TypeOK, Goto, word, hist, ArmedProtocol, Armed,
           Published
  <2>4. WakeupInv'
    BY <1>0, <1>4, Peers
       DEF DropFuture, TypeOK, Goto, word, hist, ArmedProtocol, WakeupInv,
           WakeupOwed, CanLend, Ended, Room
  <2> QED BY <2>1, <2>2, <2>3, <2>4 DEF IInv, DataInv
<1> QED BY <1>1, <1>2, <1>3, <1>4

(* The three steps of the wait guard's drop. *)
LEMMA GuardDropSteps ==
    ASSUME IInv, NEW s \in Sides,
           Deregister(s) \/ Unarm(s) \/ ResetDemand(s)
    PROVE  IInv'
<1>0. TypeOK /\ DataInv /\ ArmedProtocol /\ WakeupInv
  BY DEF IInv, DataInv
<1>1. CASE Deregister(s)
  <2>1. TypeOK'
    BY <1>0, <1>1 DEF Deregister, TypeOK, Goto, word, hist, Labels
  <2>2. DataInv'
    BY <1>0, <1>1, DataFrame DEF Deregister, TypeOK, Goto, word, hist
  <2>3. ArmedProtocol'
    BY <1>0, <1>1, Peers
       DEF Deregister, TypeOK, Goto, word, hist, ArmedProtocol, Armed,
           Published
  <2>4. WakeupInv'
    BY <1>0, <1>1, Peers
       DEF Deregister, TypeOK, Goto, word, hist, ArmedProtocol, WakeupInv,
           WakeupOwed, CanLend, Ended, Room
  <2> QED BY <2>1, <2>2, <2>3, <2>4 DEF IInv, DataInv
<1>2. CASE Unarm(s)
  <2>1. TypeOK'
    BY <1>0, <1>2 DEF Unarm, TypeOK, Goto, word, hist, Labels
  <2>2. DataInv'
    BY <1>0, <1>2, DataFrame DEF Unarm, TypeOK, Goto, word, hist
  <2>3. ArmedProtocol'
    <3>1. ~stndby'[s] /\ \A t \in Sides : t # s => stndby'[t] = stndby[t]
      BY <1>0, <1>2 DEF Unarm, TypeOK
    <3>2. \A t \in Sides : stndby'[t] <=> pc'[t] \in Armed
      BY <1>0, <1>2, <3>1 DEF Unarm, TypeOK, Goto, ArmedProtocol, Armed
    <3> QED BY <1>0, <1>2, <3>2, Peers
           
               DEF Unarm, TypeOK, Goto, word, hist, ArmedProtocol, Armed,
                   Published
  <2>4. WakeupInv'
    BY <1>0, <1>2, Peers
       DEF Unarm, TypeOK, Goto, word, hist, ArmedProtocol, WakeupInv,
           WakeupOwed, CanLend, Ended, Room
  <2> QED BY <2>1, <2>2, <2>3, <2>4 DEF IInv, DataInv
<1>3. CASE ResetDemand(s)
  <2>1. TypeOK'
    BY <1>0, <1>3 DEF ResetDemand, TypeOK, Goto, word, hist, Labels
  <2>2. DataInv'
    BY <1>0, <1>3, DataFrame DEF ResetDemand, TypeOK, Goto, word, hist
  <2>3. ArmedProtocol'
    BY <1>0, <1>3, Peers
       DEF ResetDemand, TypeOK, Goto, word, hist, ArmedProtocol, Armed,
           Published
  <2>4. WakeupInv'
    <3> SUFFICES ASSUME NEW t \in Sides,
                        pc'[t] = "parked", ~woken'[t], CanLend(t, arg[t])',
                        ~closed'[Peer(t)]
                 PROVE  FALSE
      BY DEF WakeupInv
    <3>1. t = Peer(s) /\ s = Peer(t) /\ pc[t] = "parked"
      BY <1>0, <1>3, Peers DEF ResetDemand, TypeOK, Goto
    <3>2. ~woken[t] /\ CanLend(t, arg[t]) /\ ~closed[Peer(t)]
      BY <1>3 DEF ResetDemand, word, CanLend, Ended, Room
    <3>3. WakeupOwed(t)
      BY <1>0, <3>1, <3>2 DEF WakeupInv
    <3> QED BY <1>3, <3>1, <3>3 DEF ResetDemand, WakeupOwed
  <2> QED BY <2>1, <2>2, <2>3, <2>4 DEF IInv, DataInv
<1> QED BY <1>1, <1>2, <1>3

(* Firing the event that may wake the other half. *)
LEMMA FireSteps ==
    ASSUME IInv, NEW s \in Sides,
           \/ BuildEvent(s) \/ Gate(s) \/ Check(s)
           \/ Deref(s) \/ Signal(s) \/ Wake(s)
    PROVE  IInv'
<1>0. TypeOK /\ DataInv /\ ArmedProtocol /\ WakeupInv
  BY DEF IInv, DataInv
<1>e. NoEv \in [close : BOOLEAN, room : 0 .. Capacity]
  BY CapacityAssumption DEF NoEv
<1>1. CASE BuildEvent(s)
  <2>1. TypeOK'
    <3>1. Room(Peer(s)) \in 0 .. Capacity
      BY <1>0, Peers, RoomType DEF DataInv
    <3> QED BY <1>0, <1>1, <3>1
       DEF BuildEvent, TypeOK, Goto, word, hist, Labels
  <2>2. DataInv'
    BY <1>0, <1>1, DataFrame DEF BuildEvent, TypeOK, Goto, word, hist
  <2>3. ArmedProtocol'
    BY <1>0, <1>1, Peers
       DEF BuildEvent, TypeOK, Goto, word, hist, ArmedProtocol, Armed,
           Published
  <2>4. WakeupInv'
    BY <1>0, <1>1, Peers
       DEF BuildEvent, TypeOK, Goto, word, hist, ArmedProtocol, WakeupInv,
           WakeupOwed, CanLend, Ended, Room
  <2> QED BY <2>1, <2>2, <2>3, <2>4 DEF IInv, DataInv
<1>2. CASE Gate(s)
  <2>1. TypeOK'
    BY <1>0, <1>e, <1>2, ZenonT(60) DEF Gate, TypeOK, Goto, word, hist, Labels
  <2>2. DataInv'
    BY <1>0, <1>2, DataFrame DEF Gate, TypeOK, Goto, word, hist
  <2>3. ArmedProtocol'
    BY <1>0, <1>2, Peers
       DEF Gate, TypeOK, Goto, word, hist, ArmedProtocol, Armed, Published
  <2>4. WakeupInv'
    <3> SUFFICES ASSUME NEW t \in Sides, pc'[t] = "parked", ~woken'[t],
                        CanLend(t, arg[t])', ~closed'[Peer(t)]
                 PROVE  WakeupOwed(t)'
      BY DEF WakeupInv
    <3>1. t = Peer(s) /\ Peer(t) = s
      BY <1>0, <1>2, Peers DEF Gate, TypeOK, Goto
    <3>2. /\ pc[t] = "parked" /\ ~woken[t] /\ CanLend(t, arg[t])
          /\ ~closed[Peer(t)] /\ Room(t)' = Room(t)
      BY <1>0, <1>2, <3>1, Peers
         DEF Gate, TypeOK, Goto, word, CanLend, Ended, Room
    <3>3. WakeupOwed(t)
      BY <1>0, <3>2 DEF WakeupInv
    <3>4. stndby[t]
      BY <1>0, <3>2 DEF ArmedProtocol, Armed
    <3> QED BY <1>0, <1>2, <3>1, <3>2, <3>3, <3>4
            DEF Gate, TypeOK, Goto, word, hist, WakeupOwed
  <2> QED BY <2>1, <2>2, <2>3, <2>4 DEF IInv, DataInv
<1>3. CASE Check(s)
  <2>1. TypeOK'
    <3>1. dm' \in [Sides -> Demands \cup {None}]
      BY <1>0, <1>3, Peers DEF Check, TypeOK
    <3>2. \E l \in {"idle", "deref"} : pc' = [pc EXCEPT ![s] = l]
      BY <1>3 DEF Check, Goto
    <3>3. pc' \in [Sides -> Labels]
      BY <1>0, <3>2 DEF TypeOK, Labels
    <3> QED BY <1>0, <1>e, <1>3, <3>1, <3>3 DEF Check, TypeOK, word, hist
  <2>2. DataInv'
    BY <1>0, <1>3, DataFrame DEF Check, TypeOK, Goto, word, hist
  <2>3. ArmedProtocol'
    BY <1>0, <1>3, Peers
       DEF Check, TypeOK, Goto, word, hist, ArmedProtocol, Armed, Published
  <2>4. WakeupInv'
    <3> SUFFICES ASSUME NEW t \in Sides, pc'[t] = "parked", ~woken'[t],
                        CanLend(t, arg[t])', ~closed'[Peer(t)]
                 PROVE  WakeupOwed(t)'
      BY DEF WakeupInv
    <3>1. t = Peer(s) /\ Peer(t) = s
      BY <1>0, <1>3, Peers DEF Check, TypeOK, Goto
    <3>2. /\ pc[t] = "parked" /\ ~woken[t] /\ CanLend(t, arg[t])
          /\ ~closed[Peer(t)] /\ Room(t)' = Room(t)
      BY <1>0, <1>3, <3>1, Peers
         DEF Check, TypeOK, Goto, word, CanLend, Ended, Room
    <3>3. WakeupOwed(t)
      BY <1>0, <3>2 DEF WakeupInv
    <3>4. demand[t] = arg[t] /\ arg[t] \in Demands
      BY <1>0, <3>2 DEF ArmedProtocol, Armed, Published
    <3>5. demand[t] # None
      BY <3>4, DemandsAssumption
    <3>6. Room(t) > 0
      BY <3>2 DEF CanLend
    <3>7. ~ev[s].close /\ ev[s].room = Room(t)
      BY <1>3, <3>1, <3>3 DEF Check, WakeupOwed
    <3>8. pc'[s] = "deref" /\ dm'[s] = arg[t] /\ ev' = ev /\ arg' = arg
      BY <1>0, <1>3, <3>1, <3>4, <3>5, <3>6, <3>7 DEF Check, TypeOK, Goto
    <3> QED BY <3>1, <3>2, <3>7, <3>8 DEF WakeupOwed
  <2> QED BY <2>1, <2>2, <2>3, <2>4 DEF IInv, DataInv
<1>4. CASE Deref(s)
  <2>1. TypeOK'
    BY <1>0, <1>e, <1>4 DEF Deref, TypeOK, Goto, word, hist, Labels
  <2>2. DataInv'
    BY <1>0, <1>4, DataFrame DEF Deref, TypeOK, Goto, word, hist
  <2>3. ArmedProtocol'
    BY <1>0, <1>4, Peers
       DEF Deref, TypeOK, Goto, word, hist, ArmedProtocol, Armed, Published
  <2>4. WakeupInv'
    <3> SUFFICES ASSUME NEW t \in Sides, pc'[t] = "parked", ~woken'[t],
                        CanLend(t, arg[t])', ~closed'[Peer(t)]
                 PROVE  WakeupOwed(t)'
      BY DEF WakeupInv
    <3>1. t = Peer(s) /\ Peer(t) = s
      BY <1>0, <1>4, Peers DEF Deref, TypeOK, Goto
    <3>2. /\ pc[t] = "parked" /\ ~woken[t] /\ CanLend(t, arg[t])
          /\ ~closed[Peer(t)] /\ Room(t)' = Room(t)
      BY <1>0, <1>4, <3>1, Peers
         DEF Deref, TypeOK, Goto, word, CanLend, Ended, Room
    <3>3. WakeupOwed(t)
      BY <1>0, <3>2 DEF WakeupInv
    <3>4. demand[t] = arg[t]
      BY <1>0, <3>2 DEF ArmedProtocol, Armed, Published
    <3>5. ev[s].room = Room(t) /\ dm[s] = arg[t]
      BY <1>4, <3>1, <3>3 DEF Deref, WakeupOwed
    <3>6. ~Ended(t)
      <4>1. ~closed[t] /\ ~closed[Peer(t)]
        BY <1>0, <3>2 DEF ArmedProtocol
      <4> QED BY <4>1 DEF Ended, Sides, Peer
    <3>7. ev[s].room >= arg[t].min
      BY <3>2, <3>5, <3>6 DEF CanLend
    <3>8. pc'[s] = "signal"
      BY <1>0, <1>4, <3>1, <3>4, <3>5, <3>7 DEF Deref, TypeOK, Goto
    <3> QED BY <3>1, <3>8 DEF WakeupOwed
  <2> QED BY <2>1, <2>2, <2>3, <2>4 DEF IInv, DataInv
<1>5. CASE Signal(s)
  <2>1. TypeOK'
    BY <1>0, <1>5 DEF Signal, TypeOK, Goto, word, hist, Labels
  <2>2. DataInv'
    BY <1>0, <1>5, DataFrame DEF Signal, TypeOK, Goto, word, hist
  <2>3. ArmedProtocol'
    BY <1>0, <1>5, Peers
       DEF Signal, TypeOK, Goto, word, hist, ArmedProtocol, Armed, Published
  <2>4. WakeupInv'
    BY <1>0, <1>5, Peers
       DEF Signal, TypeOK, Goto, word, hist, ArmedProtocol, WakeupInv,
           WakeupOwed, CanLend, Ended, Room
  <2> QED BY <2>1, <2>2, <2>3, <2>4 DEF IInv, DataInv
<1>6. CASE Wake(s)
  <2>0. /\ WaiterTaken(Peer(s)) => woken'[Peer(s)]
        /\ woken[Peer(s)] => woken'[Peer(s)]
        /\ woken'[s] = woken[s]
    BY <1>0, <1>6, Peers DEF Wake, TypeOK
  <2>1. TypeOK'
    BY <1>0, <1>6 DEF Wake, TypeOK, Goto, word, hist, Labels
  <2>2. DataInv'
    BY <1>0, <1>6, DataFrame DEF Wake, TypeOK, Goto, word, hist
  <2>3. ArmedProtocol'
    BY <1>0, <1>6, <2>0, Peers
       DEF Wake, TypeOK, Goto, word, hist, ArmedProtocol, Armed, Published,
           WaiterTaken
  <2>4. WakeupInv'
    <3> SUFFICES ASSUME NEW t \in Sides,
                        pc'[t] = "parked", ~woken'[t], CanLend(t, arg[t])',
                        ~closed'[Peer(t)]
                 PROVE  FALSE
      BY DEF WakeupInv
    <3>1. t = Peer(s) /\ s = Peer(t) /\ pc[t] = "parked"
      BY <1>0, <1>6, Peers DEF Wake, TypeOK, Goto
    <3>2. ~woken[t] /\ slot[t]
      BY <2>0, <3>1 DEF WaiterTaken
    <3>3. CanLend(t, arg[t]) /\ ~closed[Peer(t)]
      BY <1>6 DEF Wake, word, CanLend, Ended, Room
    <3>4. WakeupOwed(t)
      BY <1>0, <3>1, <3>2, <3>3 DEF WakeupInv
    <3> QED BY <1>6, <3>1, <3>2, <3>4 DEF Wake, WakeupOwed
  <2> QED BY <2>1, <2>2, <2>3, <2>4 DEF IInv, DataInv
<1> QED BY <1>1, <1>2, <1>3, <1>4, <1>5, <1>6

(* Starting an operation, using a segment, closing and dropping. *)
LEMMA CallerSteps ==
    ASSUME IInv, NEW s \in Sides,
           MoveItem(s) \/ Commit(s) \/ Close(s) \/ DropHalf(s)
    PROVE  IInv'
<1>0. TypeOK /\ DataInv /\ ArmedProtocol /\ WakeupInv
  BY DEF IInv, DataInv
<1>1. CASE MoveItem(s)
  <2>1. TypeOK'
    BY <1>0, <1>1, MoveData DEF MoveItem, TypeOK, word
  <2>2. DataInv'
    BY <1>0, <1>1, MoveData
  <2>3. ArmedProtocol'
    BY <1>0, <1>1, Peers
       DEF MoveItem, TypeOK, Goto, word, hist, ArmedProtocol, Armed, Published
  <2>4. WakeupInv'
    BY <1>0, <1>1, Peers
       DEF MoveItem, TypeOK, Goto, word, hist, ArmedProtocol, WakeupInv,
           WakeupOwed, CanLend, Ended, Room
  <2> QED BY <2>1, <2>2, <2>3, <2>4 DEF IInv, DataInv
<1>2. CASE Commit(s)
  <2>1. TypeOK'
    <3>1. pos' \in Positions /\ nw' \in Nat /\ nr' \in Nat
      BY <1>0, <1>2, CommitData
    <3>2. seg' \in [Sides -> [start : Cells, len : 0 .. Capacity,
                               off : 0 .. Capacity]]
      BY <1>0, <1>2, CapacityAssumption DEF Commit, TypeOK, NoSeg, Cells
    <3> QED BY <1>0, <1>2, <3>1, <3>2 DEF Commit, TypeOK, Goto, Labels
  <2>2. DataInv'
    BY <1>0, <1>2, CommitData
  <2>3. ArmedProtocol'
    BY <1>0, <1>2, Peers
       DEF Commit, TypeOK, Goto, word, hist, ArmedProtocol, Armed, Published
  <2>4. WakeupInv'
    BY <1>0, <1>2, Peers
       DEF Commit, TypeOK, Goto, word, hist, ArmedProtocol, WakeupInv,
           WakeupOwed, CanLend, Ended, Room
  <2> QED BY <2>1, <2>2, <2>3, <2>4 DEF IInv, DataInv
<1>3. CASE Close(s)
  <2>1. TypeOK'
    BY <1>0, <1>3 DEF Close, TypeOK, Goto, word, hist, Labels
  <2>2. DataInv'
    BY <1>0, <1>3, DataFrame DEF Close, TypeOK, Goto, word, hist
  <2>3. ArmedProtocol'
    BY <1>0, <1>3, Peers
       DEF Close, TypeOK, Goto, word, hist, ArmedProtocol, Armed, Published
  <2>4. WakeupInv'
    BY <1>0, <1>3, Peers
       DEF Close, TypeOK, Goto, word, hist, ArmedProtocol, WakeupInv,
           WakeupOwed, CanLend, Ended, Room
  <2> QED BY <2>1, <2>2, <2>3, <2>4 DEF IInv, DataInv
<1>4. CASE DropHalf(s)
  <2>1. TypeOK'
    BY <1>0, <1>4 DEF DropHalf, TypeOK, Goto, word, hist, Labels
  <2>2. DataInv'
    BY <1>0, <1>4, DataFrame DEF DropHalf, TypeOK, Goto, word, hist
  <2>3. ArmedProtocol'
    <3>1. ~stndby'[s] /\ \A t \in Sides : t # s => stndby'[t] = stndby[t]
      BY <1>0, <1>4 DEF DropHalf, TypeOK
    <3>2. \A t \in Sides : stndby'[t] <=> pc'[t] \in Armed
      BY <1>0, <1>4, <3>1 DEF DropHalf, TypeOK, Goto, ArmedProtocol, Armed
    <3> QED BY <1>0, <1>4, <3>2, Peers
           
               DEF DropHalf, TypeOK, Goto, word, hist, ArmedProtocol, Armed,
                   Published
  <2>4. WakeupInv'
    BY <1>0, <1>4, Peers
       DEF DropHalf, TypeOK, Goto, word, hist, ArmedProtocol, WakeupInv,
           WakeupOwed, CanLend, Ended, Room
  <2> QED BY <2>1, <2>2, <2>3, <2>4 DEF IInv, DataInv
<1> QED BY <1>1, <1>2, <1>3, <1>4

(* Lending a segment, to a try or to the loop of a waiting future. *)
LEMMA LendStep ==
    ASSUME IInv, NEW s \in Sides, NEW d \in Demands,
           CanLend(s, d), pc[s] \in {"idle", "try"}, Lend(s, d),
           UNCHANGED <<word, demand, slot, cells, arg, ret, ev, dm, woken, hist>>
    PROVE  IInv'
<1>0. TypeOK /\ DataInv /\ ArmedProtocol /\ WakeupInv
  BY DEF IInv, DataInv
<1>1. /\ DataInv'
      /\ seg' \in [Sides -> [start : Cells, len : 0 .. Capacity,
                             off : 0 .. Capacity]]
  BY <1>0, LendData DEF word, hist
<1>2. /\ pc' = [pc EXCEPT ![s] = "seg"]
      /\ UNCHANGED <<word, demand, slot, cells, arg, ret, ev, dm, woken, hist>>
  BY DEF Lend, Goto
<1>3. TypeOK'
  BY <1>0, <1>1, <1>2 DEF TypeOK, Labels, word, hist
<1>4. ArmedProtocol'
  BY <1>0, <1>2, Peers DEF TypeOK, word, ArmedProtocol, Armed, Published
<1>5. WakeupInv'
  BY <1>0, <1>2, Peers DEF TypeOK, word, WakeupInv, WakeupOwed, CanLend, Ended,
                           Room
<1> QED BY <1>1, <1>3, <1>4, <1>5 DEF IInv, DataInv

(* A try, and the start and the head of a waiting future's loop. *)
LEMMA TrySteps ==
    ASSUME IInv, NEW s \in Sides,
           (\E d \in Demands : Try(s, d) \/ StartAsync(s, d)) \/ TryAgain(s)
    PROVE  IInv'
<1>0. TypeOK /\ DataInv /\ ArmedProtocol /\ WakeupInv
  BY DEF IInv, DataInv
<1>1. ASSUME NEW d \in Demands, Try(s, d)
      PROVE  IInv'
  BY <1>1, LendStep DEF Try
<1>2. ASSUME NEW d \in Demands, StartAsync(s, d)
      PROVE  IInv'
  <2>1. TypeOK'
    BY <1>0, <1>2 DEF StartAsync, TypeOK, Goto, word, hist, Labels
  <2>2. DataInv'
    BY <1>0, <1>2, DataFrame DEF StartAsync, TypeOK, Goto, word, hist
  <2>3. ArmedProtocol'
    BY <1>0, <1>2, Peers
       DEF StartAsync, TypeOK, Goto, word, hist, ArmedProtocol, Armed,
           Published
  <2>4. WakeupInv'
    BY <1>0, <1>2, Peers
       DEF StartAsync, TypeOK, Goto, word, hist, ArmedProtocol, WakeupInv,
           WakeupOwed, CanLend, Ended, Room
  <2> QED BY <2>1, <2>2, <2>3, <2>4 DEF IInv, DataInv
<1>3. CASE TryAgain(s)
  <2>1. CASE CanLend(s, arg[s]) /\ Lend(s, arg[s])
    <3>1. arg[s] \in Demands
      BY <1>0, <1>3 DEF TryAgain, ArmedProtocol
    <3> QED BY <1>3, <2>1, <3>1, LendStep DEF TryAgain
  <2>2. CASE \E l \in {"idle", "demand"} : Goto(s, l) /\ UNCHANGED seg
    <3>0. PICK l \in {"idle", "demand"} : Goto(s, l) /\ UNCHANGED seg
      BY <2>2
    <3>1. TypeOK'
      BY <1>0, <1>3, <3>0 DEF TryAgain, TypeOK, Goto, word, hist, Labels
    <3>2. DataInv'
      BY <1>0, <1>3, <3>0, DataFrame DEF TryAgain, TypeOK, Goto, word, hist
    <3>3. ArmedProtocol'
      BY <1>0, <1>3, <3>0, Peers
        
            DEF TryAgain, TypeOK, Goto, word, hist, ArmedProtocol, Armed,
                Published
    <3>4. WakeupInv'
      BY <1>0, <1>3, <3>0, Peers
        
            DEF TryAgain, TypeOK, Goto, word, hist, WakeupInv, WakeupOwed,
                CanLend,
             Ended, Room
    <3> QED BY <3>1, <3>2, <3>3, <3>4 DEF IInv, DataInv
  <2> QED BY <1>3, <2>1, <2>2 DEF TryAgain
<1> QED BY <1>1, <1>2, <1>3

-----------------------------------------------------------------------------
(* The invariant is inductive. *)
LEMMA InitInv == Init => IInv
<1> SUFFICES ASSUME Init PROVE IInv
  OBVIOUS
<1>1. pos \in Positions /\ WellPlaced(pos) /\ DataSize(pos) = 0
  BY CapacityAssumption
     DEF Init, StartPos, Positions, WellPlaced, DataSize, Cells
<1>2. TypeOK
  BY <1>1, CapacityAssumption DEF Init, TypeOK, NoSeg, NoEv, Cells, Labels
<1>3. PositionsCount /\ SegmentsFit /\ FifoOrder
  BY <1>1 DEF Init, PositionsCount, SegmentsFit, FifoOrder, NoSeg, Sides
<1>4. CellsInOrder
  BY <1>1 DEF Init, CellsInOrder, NoSeg, Sides, Cells
<1>5. \A s \in Sides : pc[s] = "idle" /\ demand[s] = None /\ ~stndby[s]
  BY DEF Init
<1>6. ArmedProtocol /\ WakeupInv
  BY <1>5 DEF ArmedProtocol, WakeupInv, Armed, Published
<1> QED BY <1>2, <1>3, <1>4, <1>6 DEF IInv

(* Every step, of either half and of its caller, keeps the invariant. *)
LEMMA NextInv == IInv /\ [Next]_vars => IInv'
<1> SUFFICES ASSUME IInv, [Next]_vars PROVE IInv'
  OBVIOUS
<1>1. ASSUME NEW s \in Sides, Internal(s)
      PROVE  IInv'
  BY <1>1, TrySteps, RegisterSteps, ParkSteps, GuardDropSteps, FireSteps
     DEF Internal, GuardDrop, Fire
<1>2. ASSUME NEW s \in Sides, External(s)
      PROVE  IInv'
  BY <1>2, TrySteps, CallerSteps, ParkSteps DEF External
<1>3. CASE UNCHANGED vars
  BY <1>3 DEF vars, IInv, TypeOK, PositionsCount, SegmentsFit, CellsInOrder,
              FifoOrder, ArmedProtocol, WakeupInv, WakeupOwed, CanLend, Ended,
              Room
<1> QED BY <1>1, <1>2, <1>3 DEF Next

(* The invariant holds in every reachable state. *)
THEOREM Invariance == Spec => []IInv
BY InitInv, NextInv, PTL DEF Spec

(* Type correctness. *)
THEOREM TypeCorrect == Spec => []TypeOK
<1>1. IInv => TypeOK
  BY DEF IInv
<1> QED BY <1>1, Invariance, PTL

(* The packed positions count the items in the ring, at every capacity. *)
THEOREM PositionsAlwaysCount == Spec => []PositionsCount
<1>1. IInv => PositionsCount
  BY DEF IInv
<1> QED BY <1>1, Invariance, PTL

(* Items leave the ring in the order in which they entered it. *)
THEOREM FifoAlways == Spec => []FifoOrder
<1>1. IInv => FifoOrder
  BY DEF IInv
<1> QED BY <1>1, Invariance, PTL

(* The writer and the reader never hold the same cell. *)
THEOREM NoAliasing == Spec => []SegmentsDisjoint
<1>1. IInv => SegmentsDisjoint
  <2> SUFFICES ASSUME IInv PROVE SegmentsDisjoint
    OBVIOUS
  <2>1. pos \in Positions /\ WellPlaced(pos)
    BY DEF IInv, TypeOK, PositionsCount
  <2>2. \A s \in Sides : seg[s].len \in Nat
    BY DEF IInv, TypeOK
  <2>3. CASE pc["tx"] = "seg" /\ pc["rx"] = "seg"
    <3>1. /\ seg["tx"].start = pos.wp /\ seg["tx"].len <= FreeSize(pos)
          /\ seg["rx"].start = pos.rp /\ seg["rx"].len <= DataSize(pos)
      BY <2>3 DEF IInv, SegmentsFit, Room, Sides
    <3> QED BY <2>1, <2>2, <3>1, RegionsDisjoint DEF SegmentsDisjoint, Sides
  <2>4. CASE \E s \in Sides : pc[s] # "seg"
    <3>1. PICK s \in Sides : seg[s].len = 0
      BY <2>4 DEF IInv, SegmentsFit, NoSeg
    <3>2. Region(seg[s].start, 0) = {}
      BY DEF Region
    <3> QED BY <3>1, <3>2 DEF SegmentsDisjoint, Sides
  <2> QED BY <2>3, <2>4 DEF Sides
<1> QED BY <1>1, Invariance, PTL

(* The unreachable!() of the waiting futures is unreachable. *)
THEOREM DemandAlwaysFree == Spec => []DemandFree
<1>1. IInv => DemandFree
  BY DEF IInv, DemandFree, ArmedProtocol, Armed, Published
<1> QED BY <1>1, Invariance, PTL

(* No wake-up is lost while both halves are open. *)
THEOREM WakeupNeverLost == Spec => []NoLostWakeup
<1>1. IInv => NoLostWakeup
  BY DEF IInv, WakeupInv, WakeupOwed, NoLostWakeup
<1> QED BY <1>1, Invariance, PTL

(* The two halves of an open ring are never both asleep. *)
THEOREM NeverBothAsleep == Spec => []NoMutualPark
<1>1. IInv => NoMutualPark
  <2> SUFFICES ASSUME IInv, DemandsFit,
                      \A s \in Sides : pc[s] = "parked" /\ ~woken[s] /\ ~closed[s]
               PROVE  FALSE
    BY DEF NoMutualPark
  <2>1. \A s \in Sides : ~CanLend(s, arg[s])
    BY Peers DEF IInv, WakeupInv, WakeupOwed
  <2>2. \A s \in Sides : Room(s) = 0 \/ ~(Room(s) >= arg[s].min)
    BY <2>1, RoomType DEF IInv, CanLend
  <2>3. /\ Room("tx") \in 0 .. Capacity /\ Room("rx") \in 0 .. Capacity
        /\ Room("tx") + Room("rx") = Capacity
    BY RoomType DEF IInv, Sides
  <2>4. arg["tx"] \in Demands /\ arg["rx"] \in Demands
    BY DEF IInv, ArmedProtocol, Armed, Published, Sides
  <2>5. /\ arg["tx"].min \in Nat /\ arg["rx"].min \in Nat
        /\ arg["tx"].min <= Capacity /\ arg["rx"].min <= Capacity
        /\ arg["tx"].min + arg["rx"].min <= Capacity + 1
    BY <2>4, DemandsAssumption DEF DemandsFit
  <2>6. /\ Room("tx") = 0 \/ Room("tx") < arg["tx"].min
        /\ Room("rx") = 0 \/ Room("rx") < arg["rx"].min
    BY <2>2, <2>3, <2>5 DEF Sides
  <2> QED BY <2>3, <2>5, <2>6, CapacityAssumption
<1> QED BY <1>1, Invariance, PTL

-----------------------------------------------------------------------------
(* Refinement: what the ring holds, as a function of the two counts alone. *)
LEMMA ContentsAre ==
    ASSUME IInv
    PROVE  /\ Contents = [i \in 1 .. nw - nr |-> nr + i]
           /\ nw \in Nat /\ nr \in Nat /\ nw - nr \in 0 .. Capacity
<1>1. DataSize(pos) = nw - nr /\ DataSize(pos) \in 0 .. Capacity
  BY DataSizeIs DEF IInv, TypeOK, PositionsCount
<1>2. nw \in Nat /\ nr \in Nat /\ seg["tx"].off \in Nat
  BY DEF IInv, TypeOK, Sides
<1>3. ASSUME NEW i \in 1 .. nw - nr
      PROVE  cells[CellAt(pos.rp, i - 1)] = nr + i
  <2>1. i - 1 \in Cells /\ i - 1 < DataSize(pos) + seg["tx"].off
    BY <1>1, <1>2, CapacityAssumption DEF Cells
  <2>2. cells[CellAt(pos.rp, i - 1)] = nr + (i - 1) + 1
    BY <2>1 DEF IInv, CellsInOrder
  <2> QED BY <1>2, <2>2
<1> QED BY <1>1, <1>2, <1>3 DEF Contents

(* Only a commit changes the two counts, and by what its segment moved. *)
LEMMA OnlyCommitCounts ==
    ASSUME IInv, [Next]_vars
    PROVE  \/ UNCHANGED <<nw, nr>>
           \/ \E n \in 0 .. Capacity : n <= Capacity - (nw - nr)
                                       /\ nw' = nw + n /\ nr' = nr
           \/ \E n \in 0 .. Capacity : n <= nw - nr /\ nr' = nr + n /\ nw' = nw
<1>1. ASSUME NEW s \in Sides, Commit(s)
      PROVE  \/ \E n \in 0 .. Capacity : n <= Capacity - (nw - nr)
                                         /\ nw' = nw + n /\ nr' = nr
             \/ \E n \in 0 .. Capacity : n <= nw - nr /\ nr' = nr + n /\ nw' = nw
  <2>1. /\ seg[s].off \in 0 .. Capacity /\ seg[s].len \in 0 .. Capacity
        /\ seg[s].off <= seg[s].len /\ seg[s].len <= Room(s)
    BY <1>1 DEF Commit, IInv, TypeOK, SegmentsFit
  <2>2. /\ Room(s) \in 0 .. Capacity
        /\ Room(s) = IF s = "tx" THEN Capacity - (nw - nr) ELSE nw - nr
    BY RoomType DEF IInv, PositionsCount, Room, FreeSize
  <2>3. /\ seg[s].off <= Room(s)
        /\ \/ s = "tx" /\ nw' = nw + seg[s].off /\ nr' = nr
           \/ s = "rx" /\ nr' = nr + seg[s].off /\ nw' = nw
    BY <1>1, <2>1, <2>2, CapacityAssumption DEF Commit
  <2> QED BY <2>1, <2>2, <2>3
<1>2. ASSUME NEW s \in Sides, Internal(s) PROVE UNCHANGED <<nw, nr>>
  BY <1>2 DEF Internal, GuardDrop, Fire, TryAgain, SetDemand, Arm, Poll,
     Register, Recheck, Resume, Deregister, Unarm, ResetDemand, BuildEvent,
     Gate, Check, Deref, Signal, Wake, hist
<1>3. ASSUME NEW s \in Sides, External(s), ~Commit(s) PROVE UNCHANGED <<nw, nr>>
  BY <1>3 DEF External, Try, StartAsync, MoveItem, Close, DropHalf, Repoll,
     DropFuture, hist
<1> QED BY <1>1, <1>2, <1>3 DEF Next, vars

(* The circular buffer implements the bounded first-in first-out queue. *)
THEOREM ImplementsFifo == Spec => FifoSpec
<1>1. Init => Fifo!Init
  <2> SUFFICES ASSUME Init PROVE Contents = << >> /\ nw = 0
    BY DEF Fifo!Init
  <2>1. IInv /\ nw = 0 /\ nr = 0
    BY InitInv DEF Init
  <2> QED BY <2>1, ContentsAre
<1> DEFINE C == /\ Contents = [i \in 1 .. nw - nr |-> nr + i]
                /\ nw \in Nat /\ nr \in Nat /\ nw - nr \in 0 .. Capacity
<1>2. IInv => C
  BY ContentsAre
<1>3. IInv' => C'
  <2> HIDE DEF C
  <2> QED BY <1>2, PTL
<1>4. IInv /\ IInv' /\ [Next]_vars => [Fifo!Next]_<<Contents, nw>>
  <2> SUFFICES ASSUME IInv, IInv', [Next]_vars
               PROVE  Fifo!Next \/ UNCHANGED <<Contents, nw>>
    OBVIOUS
  <2>0. Len(Contents) = nw - nr
    BY <1>2
  <2>1. CASE UNCHANGED <<nw, nr>>
    BY <1>2, <1>3, <2>1
  <2>2. ASSUME NEW n \in 0 .. Capacity, n <= Capacity - (nw - nr),
               nw' = nw + n, nr' = nr
        PROVE  Fifo!Next \/ UNCHANGED <<Contents, nw>>
    <3>1. CASE n = 0
      BY <1>2, <2>1, <2>2, <3>1
    <3>2. CASE n # 0
      <4>1. nw' - nr' = (nw - nr) + n /\ nr + (nw - nr) = nw
        BY <1>2, <2>2
      <4>2. Contents' = Contents \o [i \in 1 .. n |-> nw + i]
        <5>1. [i \in 1 .. (nw - nr) + n |-> nr + i]
                = [i \in 1 .. nw - nr |-> nr + i]
                    \o [i \in 1 .. n |-> (nr + (nw - nr)) + i]
          <6>1. nr \in Nat /\ nw - nr \in Nat /\ n \in Nat
            BY <1>2, CapacityAssumption
          <6> QED BY <6>1, BatchAppend
        <5> QED BY <1>2, <1>3, <2>2, <4>1, <5>1
      <4>3. n \in 1 .. Capacity /\ Fifo!Put(n)
        BY <2>0, <2>2, <3>2, <4>2, CapacityAssumption DEF Fifo!Put
      <4> QED BY <4>3 DEF Fifo!Next
    <3> QED BY <3>1, <3>2
  <2>3. ASSUME NEW n \in 0 .. Capacity, n <= nw - nr, nr' = nr + n, nw' = nw
        PROVE  Fifo!Next \/ UNCHANGED <<Contents, nw>>
    <3>1. CASE n = 0
      BY <1>2, <2>1, <2>3, <3>1
    <3>2. CASE n # 0
      <4>1. nw' - nr' = (nw - nr) - n /\ n \in 0 .. nw - nr
        BY <1>2, <2>3
      <4>2. Contents' = SubSeq(Contents, n + 1, nw - nr)
        BY <1>2, <1>3, <2>3, <4>1, BatchRemove, SMTT(60)
      <4>3. n \in 1 .. Capacity /\ Fifo!Get(n)
        BY <2>0, <2>3, <3>2, <4>2, CapacityAssumption DEF Fifo!Get
      <4> QED BY <4>3 DEF Fifo!Next
    <3> QED BY <3>1, <3>2
  <2> QED BY <2>1, <2>2, <2>3, OnlyCommitCounts
<1> QED BY <1>1, <1>4, Invariance, PTL DEF Spec, FifoSpec, Fifo!Spec

=============================================================================
