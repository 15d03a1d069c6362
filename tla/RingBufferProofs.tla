-------------------------- MODULE RingBufferProofs --------------------------
(***************************************************************************)
(* The single-gap ring, for every capacity, every set of demands and every *)
(* choice of actors: borrowed and reserved regions never overlap, what is  *)
(* read is what was written, and no wake-up is lost.                       *)
(***************************************************************************)
EXTENDS RingBuffer, IoPosProofs

-----------------------------------------------------------------------------
(* The invariant.                                                          *)

(* The actor has a region, or is about to be handed one. *)
Live(a) == pc[a] \in {"seg", "short"} \/ (pc[a] = "dereg" /\ ret[a] = "seg")

(* What the program counter of one actor says of its own variables. *)
UserControl(a) ==
    /\ mode[a] # "wait"
    /\ pc[a] \in {"signal", "wake"} => ret[a] \in {"idle", "gone"}
    /\ pc[a] = "dereg" => ret[a] # "gone"
    /\ Live(a) /\ ~(pc[a] = "seg" /\ mode[a] = "borrow") => seg[a].off = 0

RuntimeControl(a) ==
    /\ mode[a] # "peek"
    /\ pc[a] \notin {"try", "short", "blocked"}
    /\ pc[a] \in {"check", "reg", "recheck", "parked"} => mode[a] = "wait"
    /\ pc[a] \in {"dereg", "signal", "wake"} => ret[a] = "idle"

Control ==
    /\ \A a \in Users : UserControl(a)
    /\ \A a \in Runtime : RuntimeControl(a)
    /\ \A a \in Actors : pc[a] \notin {"signal", "wake"} => sig[a] = 1

(* A region begins at the index of its end and fits in what that end may use;
   where there is none, nothing is left of the last one. *)
Start(a) == IF a \in Writers THEN wp ELSE rp

SegmentFits(a) ==
    IF Live(a) THEN /\ seg[a].start = Start(a)
                    /\ seg[a].off <= seg[a].len /\ seg[a].len <= Room(a)
               ELSE seg[a] = NoSeg

SegmentsFit == \A a \in Actors : SegmentFits(a)

(* A user half and the runtime never hold a region of the same end. *)
OneHolder == \A a \in Users : Live(a) => pc[Mate(a)] # "seg"

(* How far the writers are in what they have not committed. *)
Written == seg["txUser"].off + seg["rxRt"].off

(* Cells in use hold consecutive items: the committed ones, then the ones a
   writer has put in its region. *)
CellsInOrder ==
    \A i \in Cells : i < Data + Written => cells[CellAt(rp, i)] = nr + i + 1

(* Somebody is about to wake the task of b. *)
Waking(b) == \E a \in Actors : pc[a] = "wake" /\ SlotOrder[sig[a]] = b

(* Somebody is still to look into the slot of b. *)
WillVisit(b) ==
    \E a \in Actors : \E i \in 1 .. 4 :
        /\ SlotOrder[i] = b
        /\ \/ pc[a] = "signal" /\ sig[a] <= i
           \/ pc[a] = "wake" /\ sig[a] < i

(* A waiter that is not in its slot has been taken by somebody who wakes it;
   one that is in it, and whose check holds, is still to be found. *)
WakeTaken ==
    \A b \in Actors :
        pc[b] \in {"recheck", "parked"} /\ ~woken[b] /\ ~slot[b] => Waking(b)
WakeDue ==
    \A b \in Actors :
        pc[b] = "parked" /\ ~woken[b] /\ slot[b] /\ ParkCheck(b) => WillVisit(b)

RingInv ==
    /\ TypeOK /\ Control /\ NoDanglingWaiter
    /\ SegmentsFit /\ OneHolder /\ FlightMatches
    /\ PositionsCount /\ CellsInOrder /\ FifoOrder
    /\ WakeTaken /\ WakeDue

-----------------------------------------------------------------------------
(* The indices: a ring with a gap is a ring of IoPos that is never full.   *)

Place == IF wp < rp THEN [rv |-> TRUE, rp |-> rp, wp |-> wp]
                    ELSE [rv |-> FALSE, rp |-> rp, wp |-> wp]

(* The positions of such a ring are well placed, and say how much is free. *)
LEMMA Gap ==
    ASSUME rp \in Cells, wp \in Cells
    PROVE  /\ Capacity \in Nat /\ Capacity >= 2
           /\ Place \in Positions /\ WellPlaced(Place) /\ Place.rp = rp /\ Place.wp = wp
           /\ DataSize(Place) = Data /\ FreeSize(Place) = Free + 1
           /\ Data \in 0 .. Capacity - 1 /\ Free \in 0 .. Capacity - 1
           /\ Free = Capacity - 1 - Data
<1>1. Capacity \in Nat /\ Capacity >= 2 /\ rp \in Nat /\ wp \in Nat /\ rp < Capacity /\ wp < Capacity
  BY CapacityAssumption DEF Cells
<1>2. /\ Place \in Positions /\ WellPlaced(Place) /\ Place.rp = rp /\ Place.wp = wp
      /\ IF wp < rp THEN Place.rv = TRUE ELSE Place.rv = FALSE
  <2>1. CASE wp < rp
    <3>1. Place = [rv |-> TRUE, rp |-> rp, wp |-> wp]
      BY <2>1 DEF Place
    <3>2. Place \in Positions
      BY <3>1 DEF Positions
    <3> QED BY <1>1, <2>1, <3>1, <3>2 DEF WellPlaced
  <2>2. CASE ~(wp < rp)
    <3>1. Place = [rv |-> FALSE, rp |-> rp, wp |-> wp]
      BY <2>2 DEF Place
    <3>2. Place \in Positions
      BY <3>1 DEF Positions
    <3> QED BY <1>1, <2>2, <3>1, <3>2 DEF WellPlaced
  <2> QED BY <2>1, <2>2
<1>3. DataSize(Place) = Data
  <2>1. CASE wp < rp
    BY <1>1, <1>2, <2>1 DEF DataSize, Data
  <2>2. CASE ~(wp < rp)
    BY <1>2, <2>2 DEF DataSize, Data
  <2> QED BY <2>1, <2>2
<1>4. DataSize(Place) = IF wp < rp THEN wp + Capacity - rp ELSE wp - rp
  BY <1>2, DataSizeIs
<1>5. Data \in 0 .. Capacity - 1
  BY <1>1, <1>3, <1>4
<1>6. Free = Capacity - 1 - Data /\ FreeSize(Place) = Capacity - Data
  BY <1>3 DEF Free, FreeSize
<1> QED BY <1>1, <1>2, <1>3, <1>5, <1>6

(* n cells of the free part are committed. *)
LEMMA GapPut ==
    ASSUME rp \in Cells, wp \in Cells, NEW n \in Nat, n <= Free,
           rp' = rp, wp' = (wp + n) % Capacity
    PROVE  wp' \in Cells /\ Data' = Data + n /\ Free' = Free - n
<1>1. /\ Capacity \in Nat /\ Capacity >= 2
      /\ Place \in Positions /\ WellPlaced(Place) /\ Place.rp = rp /\ Place.wp = wp
      /\ DataSize(Place) = Data /\ FreeSize(Place) = Free + 1
      /\ Data \in 0 .. Capacity - 1 /\ Free \in 0 .. Capacity - 1
      /\ Free = Capacity - 1 - Data
  BY Gap
<1>2. PICK q : q = AdvanceWp(Place, n)
  OBVIOUS
<1>3. q \in Positions /\ DataSize(q) = Data + n /\ q.rp = rp
  BY <1>1, <1>2, AdvanceWpOK
<1>4. q.wp = wp'
  BY <1>1, <1>2 DEF AdvanceWp
<1>5. Data + n < Capacity
  BY <1>1
<1>6. DataSize(q) = Data'
  BY <1>1, <1>3, <1>4, <1>5 DEF DataSize, Data
<1>7. Free' = Capacity - 1 - Data'
  BY DEF Free
<1> QED BY <1>1, <1>3, <1>4, <1>6, <1>7 DEF Positions

(* n cells of the full part are given back. *)
LEMMA GapGet ==
    ASSUME rp \in Cells, wp \in Cells, NEW n \in Nat, n <= Data,
           wp' = wp, rp' = (rp + n) % Capacity
    PROVE  /\ rp' \in Cells /\ Data' = Data - n /\ Free' = Free + n
           /\ rp' = CellAt(rp, n)
<1>1. /\ Capacity \in Nat /\ Capacity >= 2
      /\ Place \in Positions /\ WellPlaced(Place) /\ Place.rp = rp /\ Place.wp = wp
      /\ DataSize(Place) = Data /\ FreeSize(Place) = Free + 1
      /\ Data \in 0 .. Capacity - 1 /\ Free \in 0 .. Capacity - 1
      /\ Free = Capacity - 1 - Data
  BY Gap
<1>2. PICK q : q = AdvanceRp(Place, n)
  OBVIOUS
<1>3. q \in Positions /\ DataSize(q) = Data - n /\ q.wp = wp
  BY <1>1, <1>2, AdvanceRpOK
<1>4. q.rp = rp'
  BY <1>1, <1>2 DEF AdvanceRp
<1>5. Data - n < Capacity
  BY <1>1
<1>6. DataSize(q) = Data'
  BY <1>1, <1>3, <1>4, <1>5 DEF DataSize, Data
<1>7. Free' = Capacity - 1 - Data'
  BY DEF Free
<1> QED BY <1>1, <1>3, <1>4, <1>6, <1>7 DEF Positions, CellAt

(* A writer's cells follow the data. *)
LEMMA GapWrite ==
    ASSUME rp \in Cells, wp \in Cells, NEW j \in Nat, j <= Free
    PROVE  Data + j \in Cells /\ CellAt(wp, j) = CellAt(rp, Data + j)
<1>1. /\ Place \in Positions /\ WellPlaced(Place) /\ Place.rp = rp /\ Place.wp = wp
      /\ DataSize(Place) = Data /\ FreeSize(Place) = Free + 1 /\ Free \in Nat
  BY Gap
<1>2. j < FreeSize(Place)
  BY <1>1
<1> QED BY <1>1, <1>2, WriteAfterData

-----------------------------------------------------------------------------
(* The actors. *)

(* Ends and mates of the four actors. *)
LEMMA Crew ==
    /\ Actors = {"txUser", "rxUser", "txRt", "rxRt"}
    /\ \A a \in Users : a \notin Runtime /\ Mate(a) \in Runtime /\ Flag(Mate(a)) = Flag(a)
    /\ \A a \in Runtime : a \notin Users /\ Mate(a) \in Users /\ Mate(Mate(a)) = a
    /\ \A a \in Actors : a \in Users \/ a \in Runtime
    /\ \A a \in Actors : (a \in Writers <=> a \notin Readers) /\ Flag(a) \in {"send", "recv"}
    /\ \A a, b \in Runtime : Flag(a) = Flag(b) => a = b
    /\ \A a, b \in Writers : b = a \/ b = Mate(a)
    /\ \A a, b \in Readers : b = a \/ b = Mate(a)
BY DEF Actors, Users, Runtime, Writers, Readers, Mate, Flag

(* What either end may use. *)
LEMMA RoomType ==
    ASSUME rp \in Cells, wp \in Cells
    PROVE  \A a \in Actors : Room(a) \in 0 .. Capacity - 1
BY Gap DEF Room

(* The step is one of actor a: the others' own variables stay. *)
OwnOnly(a) ==
    \A b \in Actors : b # a =>
        /\ pc'[b] = pc[b] /\ mode'[b] = mode[b] /\ arg'[b] = arg[b] /\ ret'[b] = ret[b]
        /\ seg'[b] = seg[b] /\ sig'[b] = sig[b]

Closes(a) == pc'[a] \notin {"signal", "wake"} => sig'[a] = 1

(* A step of one actor that respects its own control points. *)
LEMMA ControlFrame ==
    ASSUME Control, NEW a \in Actors, OwnOnly(a),
           a \in Users => UserControl(a)', a \in Runtime => RuntimeControl(a)', Closes(a)
    PROVE  Control'
<1>1. ASSUME NEW b \in Users PROVE UserControl(b)'
  <2>1. CASE b = a
    BY <2>1
  <2>2. CASE b # a
    <3>1. b \in Actors
      BY DEF Actors
    <3> QED BY <2>2, <3>1 DEF Control, UserControl, OwnOnly, Live
  <2> QED BY <2>1, <2>2
<1>2. ASSUME NEW b \in Runtime PROVE RuntimeControl(b)'
  <2>1. CASE b = a
    BY <2>1
  <2>2. CASE b # a
    <3>1. b \in Actors
      BY DEF Actors
    <3> QED BY <2>2, <3>1 DEF Control, RuntimeControl, OwnOnly
  <2> QED BY <2>1, <2>2
<1>3. ASSUME NEW b \in Actors PROVE pc'[b] \notin {"signal", "wake"} => sig'[b] = 1
  BY DEF Control, OwnOnly, Closes
<1> QED BY <1>1, <1>2, <1>3 DEF Control

(* The indices stay: the other regions still fit. *)
LEMMA SegmentFrame ==
    ASSUME SegmentsFit, NEW a \in Actors, OwnOnly(a), UNCHANGED <<rp, wp>>, SegmentFits(a)'
    PROVE  SegmentsFit'
<1> SUFFICES ASSUME NEW b \in Actors, b # a PROVE SegmentFits(b)'
  BY DEF SegmentsFit
<1>1. Live(b)' = Live(b) /\ Start(b)' = Start(b) /\ Room(b)' = Room(b)
  BY DEF OwnOnly, Live, Start, Room, Free, Data
<1>2. SegmentFits(b)
  BY DEF SegmentsFit
<1> QED BY <1>1, <1>2 DEF SegmentFits, OwnOnly

(* A step of one actor that does not take an end from its mate. *)
LEMMA HolderFrame ==
    ASSUME OneHolder, NEW a \in Actors, OwnOnly(a),
           a \in Users /\ Live(a)' => pc[Mate(a)] # "seg",
           a \in Runtime /\ pc'[a] = "seg" => ~Live(Mate(a))
    PROVE  OneHolder'
<1> SUFFICES ASSUME NEW b \in Users, Live(b)' PROVE pc'[Mate(b)] # "seg"
  BY DEF OneHolder
<1>1. b \in Actors /\ Mate(b) \in Actors /\ Mate(b) # b /\ Mate(Mate(b)) = b
      /\ Mate(b) \in Runtime
  BY DEF Users, Runtime, Actors, Mate
<1>2. CASE b = a
  BY <1>1, <1>2 DEF OwnOnly
<1>3. CASE b # a
  <2>1. Live(b)
    BY <1>1, <1>3 DEF Live, OwnOnly
  <2>2. CASE Mate(b) = a
    BY <1>1, <2>1, <2>2
  <2>3. CASE Mate(b) # a
    BY <1>1, <2>1, <2>3 DEF OwnOnly, OneHolder
  <2> QED BY <2>2, <2>3
<1> QED BY <1>2, <1>3

(* A step that fills no slot but that of its own actor. *)
LEMMA DanglingFrame ==
    ASSUME NoDanglingWaiter, NEW a \in Actors, OwnOnly(a),
           \A b \in Actors : b # a /\ slot'[b] => slot[b],
           slot'[a] => pc'[a] \notin {"idle", "seg", "signal", "wake", "gone"}
    PROVE  NoDanglingWaiter'
BY DEF NoDanglingWaiter, OwnOnly

(* Nothing moved, nothing committed. *)
LEMMA DataFrame ==
    ASSUME PositionsCount, CellsInOrder, FifoOrder, NEW a \in Actors, OwnOnly(a),
           UNCHANGED <<rp, wp, cells, nw, nr, lastOut>>, seg'[a].off = seg[a].off
    PROVE  PositionsCount' /\ CellsInOrder' /\ FifoOrder'
<1>1. \A b \in Actors : seg'[b].off = seg[b].off
  BY DEF OwnOnly
<1>2. Written' = Written /\ Ahead' = Ahead /\ Data' = Data
  BY <1>1 DEF Written, Ahead, Data, Actors, Users, Runtime
<1> QED BY <1>2 DEF PositionsCount, CellsInOrder, FifoOrder

(* Whoever wakes or is to visit b still is, if a was not on its way. *)
LEMMA OnTheWay ==
    ASSUME NEW a \in Actors, OwnOnly(a), pc[a] \notin {"signal", "wake"}, NEW b \in Actors
    PROVE  (Waking(b) => Waking(b)') /\ (WillVisit(b) => WillVisit(b)')
<1>1. Waking(b) => Waking(b)'
  <2> SUFFICES ASSUME NEW c \in Actors, pc[c] = "wake", SlotOrder[sig[c]] = b
               PROVE  Waking(b)'
    BY DEF Waking
  <2>1. pc'[c] = "wake" /\ SlotOrder[sig'[c]] = b
    BY DEF OwnOnly
  <2> QED BY <2>1 DEF Waking, SlotOrder
<1>2. WillVisit(b) => WillVisit(b)'
  <2> SUFFICES ASSUME NEW c \in Actors, NEW i \in 1 .. 4, SlotOrder[i] = b,
                      \/ pc[c] = "signal" /\ sig[c] <= i
                      \/ pc[c] = "wake" /\ sig[c] < i
               PROVE  WillVisit(b)'
    BY DEF WillVisit
  <2>1. pc'[c] = pc[c] /\ sig'[c] = sig[c]
    BY DEF OwnOnly
  <2> QED BY <2>1 DEF WillVisit, SlotOrder
<1> QED BY <1>1, <1>2

(* A step that makes no check come true wakes nobody and loses nobody. *)
LEMMA WakeQuiet ==
    ASSUME WakeTaken, WakeDue, NEW a \in Actors, OwnOnly(a),
           pc[a] \notin {"signal", "wake"},
           \A b \in Actors : b # a => slot'[b] = slot[b] /\ woken'[b] = woken[b],
           UNCHANGED <<rp, wp, closed>>, \A f \in {"send", "recv"} : flight[f] => flight'[f],
           pc'[a] \in {"recheck", "parked"} => slot'[a] \/ woken'[a] \/ Waking(a),
           pc'[a] = "parked" => ~ParkCheck(a) /\ arg'[a] = arg[a]
    PROVE  WakeTaken' /\ WakeDue'
<1>1. ASSUME NEW b \in Actors, arg'[b] = arg[b], ParkCheck(b)' PROVE ParkCheck(b)
  <2>1. Room(b)' = Room(b) /\ Flag(b) \in {"send", "recv"}
    BY Crew DEF Room, Free, Data
  <2> QED BY <1>1, <2>1 DEF ParkCheck
<1>2. ASSUME NEW b \in Actors, pc'[b] \in {"recheck", "parked"}, ~woken'[b], ~slot'[b]
      PROVE  Waking(b)'
  <2>1. Waking(b)
    BY <1>2 DEF WakeTaken, OwnOnly
  <2> QED BY <2>1, OnTheWay
<1>3. ASSUME NEW b \in Actors, pc'[b] = "parked", ~woken'[b], slot'[b], ParkCheck(b)'
      PROVE  WillVisit(b)'
  <2>1. arg'[b] = arg[b]
    BY <1>3 DEF OwnOnly
  <2>2. ParkCheck(b)
    BY <1>1, <1>3, <2>1
  <2>3. b # a
    BY <1>3, <2>2
  <2>4. WillVisit(b)
    BY <1>3, <2>2, <2>3 DEF WakeDue, OwnOnly
  <2> QED BY <2>4, OnTheWay
<1> QED BY <1>2, <1>3 DEF WakeTaken, WakeDue

(* A step of the state word is followed by a visit of every slot. *)
LEMMA WakeLoud ==
    ASSUME WakeTaken, NEW a \in Actors, OwnOnly(a), TypeOK',
           pc[a] \notin {"signal", "wake"}, pc'[a] = "signal", sig'[a] = 1,
           UNCHANGED <<slot, woken>>
    PROVE  WakeTaken' /\ WakeDue'
<1>1. ASSUME NEW b \in Actors, pc'[b] \in {"recheck", "parked"}, ~woken'[b], ~slot'[b]
      PROVE  Waking(b)'
  <2>1. Waking(b)
    BY <1>1 DEF WakeTaken, OwnOnly
  <2> QED BY <2>1, OnTheWay
<1>2. ASSUME NEW b \in Actors PROVE WillVisit(b)'
  <2>1. PICK i \in 1 .. 4 : SlotOrder[i] = b
    <3>1. SlotOrder[1] = "txUser" /\ SlotOrder[2] = "txRt" /\ SlotOrder[3] = "rxUser"
          /\ SlotOrder[4] = "rxRt"
      BY DEF SlotOrder
    <3> QED BY <3>1, Crew
  <2>2. sig'[a] <= i
    OBVIOUS
  <2> QED BY <2>1, <2>2 DEF WillVisit, SlotOrder
<1> QED BY <1>1, <1>2 DEF WakeTaken, WakeDue

(* A step of actor a that leaves the items and the indices alone, and is not
   part of signal_all. *)
LEMMA QuietStep ==
    ASSUME RingInv, NEW a \in Actors, TypeOK', OwnOnly(a),
           UNCHANGED <<rp, wp, closed, cells, nw, nr, lastOut>>,
           \A f \in {"send", "recv"} : flight[f] => flight'[f], FlightMatches',
           pc[a] \notin {"signal", "wake"}, pc'[a] \notin {"signal", "wake"}, sig'[a] = sig[a],
           \A b \in Actors : b # a => slot'[b] = slot[b] /\ woken'[b] = woken[b],
           a \in Users => UserControl(a)', a \in Runtime => RuntimeControl(a)',
           slot'[a] => pc'[a] \notin {"idle", "seg", "gone"},
           SegmentFits(a)', seg'[a].off = seg[a].off,
           a \in Users /\ Live(a)' => pc[Mate(a)] # "seg",
           a \in Runtime /\ pc'[a] = "seg" => ~Live(Mate(a)),
           pc'[a] \in {"recheck", "parked"} => slot'[a] \/ woken'[a] \/ Waking(a),
           pc'[a] = "parked" => ~ParkCheck(a) /\ arg'[a] = arg[a]
    PROVE  RingInv'
<1>1. Control'
  BY ControlFrame DEF RingInv, Control, Closes
<1>2. NoDanglingWaiter'
  BY DanglingFrame DEF RingInv
<1>3. SegmentsFit'
  BY SegmentFrame DEF RingInv
<1>4. OneHolder'
  BY HolderFrame DEF RingInv
<1>5. PositionsCount' /\ CellsInOrder' /\ FifoOrder'
  BY DataFrame DEF RingInv
<1>6. WakeTaken' /\ WakeDue'
  BY WakeQuiet DEF RingInv
<1> QED BY <1>1, <1>2, <1>3, <1>4, <1>5, <1>6 DEF RingInv

(* The runtime's program counter decides the flags: a step that leaves both
   alone keeps them in agreement. *)
LEMMA FlightFrame ==
    ASSUME FlightMatches, NEW a \in Actors, OwnOnly(a), flight' = flight,
           a \in Runtime => (pc'[a] = "seg" <=> pc[a] = "seg")
    PROVE  FlightMatches'
<1> SUFFICES ASSUME NEW b \in Runtime PROVE flight'[Flag(b)] <=> pc'[b] = "seg"
  BY DEF FlightMatches
<1>1. b \in Actors
  BY DEF Actors
<1> QED BY <1>1 DEF FlightMatches, OwnOnly

(* A user that is offered a region is alone at its end. *)
LEMMA OfferedAlone ==
    ASSUME RingInv, NEW a \in Users, ~flight[Flag(a)]
    PROVE  pc[Mate(a)] # "seg"
BY Crew DEF RingInv, FlightMatches

(* A quiet step that neither hands out a region nor takes one back. *)
LEMMA ParkStep ==
    ASSUME RingInv, NEW a \in Actors, TypeOK', OwnOnly(a),
           UNCHANGED <<rp, wp, closed, flight, cells, nw, nr, lastOut, seg, sig>>,
           pc[a] \notin {"signal", "wake"}, pc'[a] \notin {"signal", "wake"},
           Live(a)' <=> Live(a), a \in Runtime => (pc'[a] = "seg" <=> pc[a] = "seg"),
           \A b \in Actors : b # a => slot'[b] = slot[b] /\ woken'[b] = woken[b],
           a \in Users => UserControl(a)', a \in Runtime => RuntimeControl(a)',
           slot'[a] => pc'[a] \notin {"idle", "seg", "gone"},
           pc'[a] \in {"recheck", "parked"} => slot'[a] \/ woken'[a] \/ Waking(a),
           pc'[a] = "parked" => ~ParkCheck(a) /\ arg'[a] = arg[a]
    PROVE  RingInv'
<1>1. SegmentFits(a)'
  <2>1. SegmentFits(a) /\ Start(a)' = Start(a) /\ Room(a)' = Room(a)
    BY DEF RingInv, SegmentsFit, Start, Room, Free, Data
  <2> QED BY <2>1 DEF SegmentFits
<1>2. FlightMatches'
  BY FlightFrame DEF RingInv
<1>3. a \in Users /\ Live(a)' => pc[Mate(a)] # "seg"
  BY DEF RingInv, OneHolder
<1>4. a \in Runtime /\ pc'[a] = "seg" => ~Live(Mate(a))
  BY Crew DEF RingInv, OneHolder
<1> QED BY <1>1, <1>2, <1>3, <1>4, QuietStep

(* A call begins to wait, or goes on. *)
LEMMA StartSteps ==
    ASSUME RingInv, NEW a \in Actors, NEW m \in {"borrow", "peek"}, NEW d \in Demands \cup {All},
           StartAsync(a, m, d) \/ Wait(a)
    PROVE  RingInv'
<1>0. /\ UNCHANGED <<rp, wp, closed, flight, cells, nw, nr, lastOut, seg, sig, slot, woken, ret>>
      /\ pc[a] = "idle" /\ OwnOnly(a)
      /\ \/ a \in Users /\ pc'[a] = "try" /\ mode'[a] = m
         \/ a \in Runtime /\ pc'[a] = "check" /\ mode'[a] = "wait"
  BY DEF RingInv, TypeOK, StartAsync, Wait, OwnOnly, Goto, word, hist
<1>1. TypeOK'
  <2>1. CASE StartAsync(a, m, d)
    BY <2>1 DEF RingInv, TypeOK, StartAsync, Goto, word, hist, Labels
  <2>2. CASE Wait(a)
    BY <2>2 DEF RingInv, TypeOK, Wait, Goto, word, hist, Labels
  <2> QED BY <2>1, <2>2
<1>2. a \in Users => UserControl(a)'
  BY <1>0, Crew DEF UserControl, Live
<1>3. a \in Runtime => RuntimeControl(a)'
  BY <1>0, Crew DEF RuntimeControl
<1>4. ~slot'[a]
  BY <1>0 DEF RingInv, NoDanglingWaiter
<1>5. ~Live(a) /\ ~Live(a)'
  BY <1>0 DEF Live
<1> QED BY <1>0, <1>1, <1>2, <1>3, <1>4, <1>5, ParkStep

(* The checks of a park. *)
LEMMA CheckSteps ==
    ASSUME RingInv, NEW a \in Actors, Blocked(a) \/ Check(a) \/ Recheck(a) \/ DropFuture(a)
    PROVE  RingInv'
<1>0. /\ UNCHANGED <<rp, wp, closed, flight, cells, nw, nr, lastOut, seg, sig, slot, woken, mode, arg>>
      /\ pc[a] \in {"blocked", "check", "recheck", "parked"} /\ OwnOnly(a)
      /\ \/ pc'[a] = "dereg" /\ ret'[a] \in {"idle", "try"} /\ (mode[a] = "wait" => ret'[a] = "idle" \/ pc[a] = "blocked")
         \/ pc[a] = "blocked" /\ pc'[a] = "check" /\ ret' = ret
         \/ pc[a] = "check" /\ pc'[a] = "reg" /\ ret' = ret
         \/ pc[a] = "recheck" /\ pc'[a] = "parked" /\ ret' = ret /\ ~ParkCheck(a)
  BY DEF RingInv, TypeOK, Blocked, Check, Recheck, DropFuture, Leave, OwnOnly, Goto, word, hist
<1>1. TypeOK'
  BY DEF RingInv, TypeOK, Blocked, Check, Recheck, DropFuture, Leave, Goto, word, hist, Labels
<1>2. a \in Users => UserControl(a)'
  BY <1>0 DEF RingInv, Control, UserControl, Live
<1>3. a \in Runtime => RuntimeControl(a)'
  BY <1>0 DEF RingInv, Control, RuntimeControl
<1>5. ~Live(a) /\ ~Live(a)'
  BY <1>0 DEF Live
<1>6. pc'[a] \in {"recheck", "parked"} => slot'[a] \/ woken'[a] \/ Waking(a)
  BY <1>0 DEF RingInv, WakeTaken
<1> QED BY <1>0, <1>1, <1>2, <1>3, <1>5, <1>6, ParkStep

(* The waiter is registered. *)
LEMMA RegisterStep ==
    ASSUME RingInv, NEW a \in Actors, Register(a)
    PROVE  RingInv'
<1>0. /\ UNCHANGED <<rp, wp, closed, flight, cells, nw, nr, lastOut, seg, sig, woken, mode, arg, ret>>
      /\ pc[a] = "reg" /\ pc'[a] = "recheck" /\ slot'[a] /\ OwnOnly(a)
      /\ \A b \in Actors : b # a => slot'[b] = slot[b]
  BY DEF RingInv, TypeOK, Register, OwnOnly, Goto, word, hist
<1>1. TypeOK'
  BY DEF RingInv, TypeOK, Register, Goto, word, hist, Labels
<1>2. a \in Users => UserControl(a)'
  BY <1>0 DEF RingInv, Control, UserControl, Live
<1>3. a \in Runtime => RuntimeControl(a)'
  BY <1>0 DEF RingInv, Control, RuntimeControl
<1>5. ~Live(a) /\ ~Live(a)'
  BY <1>0 DEF Live
<1> QED BY <1>0, <1>1, <1>2, <1>3, <1>5, ParkStep

(* A parked task is polled. *)
LEMMA PollSteps ==
    ASSUME RingInv, NEW a \in Actors, Resume(a) \/ Repoll(a)
    PROVE  RingInv'
<1>0. /\ UNCHANGED <<rp, wp, closed, flight, cells, nw, nr, lastOut, seg, sig, slot, mode, arg, ret>>
      /\ pc[a] = "parked" /\ OwnOnly(a)
      /\ pc'[a] = IF mode[a] = "wait" THEN "check" ELSE "try"
      /\ \A b \in Actors : b # a => woken'[b] = woken[b]
  BY DEF RingInv, TypeOK, Resume, Repoll, PollAgain, OwnOnly, Goto, word, hist
<1>1. TypeOK'
  BY DEF RingInv, TypeOK, Resume, Repoll, PollAgain, Goto, word, hist, Labels
<1>2. a \in Users => UserControl(a)'
  BY <1>0 DEF RingInv, Control, UserControl, Live
<1>3. a \in Runtime => RuntimeControl(a)'
  BY <1>0 DEF RingInv, Control, RuntimeControl
<1>5. ~Live(a) /\ ~Live(a)'
  BY <1>0 DEF Live
<1> QED BY <1>0, <1>1, <1>2, <1>3, <1>5, ParkStep

(* The waiter is withdrawn, and the poll goes on or is over. *)
LEMMA DeregisterStep ==
    ASSUME RingInv, NEW a \in Actors, Deregister(a)
    PROVE  RingInv'
<1>0. /\ UNCHANGED <<rp, wp, closed, flight, cells, nw, nr, lastOut, seg, sig, woken, arg>>
      /\ pc[a] = "dereg" /\ pc'[a] = ret[a] /\ ret'[a] = "idle" /\ ~slot'[a] /\ OwnOnly(a)
      /\ mode'[a] = IF ret[a] = "idle" THEN "borrow" ELSE mode[a]
      /\ \A b \in Actors : b # a => slot'[b] = slot[b]
  BY DEF RingInv, TypeOK, Deregister, Return, OwnOnly, Goto, word, hist
<1>1. TypeOK'
  BY DEF RingInv, TypeOK, Deregister, Return, Goto, word, hist, Labels
<1>a. ret[a] \in {"idle", "try", "seg", "gone"} /\ mode[a] \in {"borrow", "peek", "wait"}
  BY DEF RingInv, TypeOK
<1>2. a \in Users => UserControl(a)'
  BY <1>0, <1>a DEF RingInv, Control, UserControl, Live
<1>3. a \in Runtime => RuntimeControl(a)' /\ pc'[a] # "seg"
  BY <1>0 DEF RingInv, Control, RuntimeControl
<1>5. Live(a)' <=> Live(a)
  BY <1>0, <1>a DEF Live
<1>6. pc'[a] \notin {"recheck", "parked", "signal", "wake"}
  BY <1>0, <1>a
<1> QED BY <1>0, <1>1, <1>2, <1>3, <1>5, <1>6, ParkStep

(* A half is dropped and closes nothing. *)
LEMMA GoneStep ==
    ASSUME RingInv, NEW a \in Users, pc[a] = "idle", Goto(a, "gone"),
           UNCHANGED <<rp, wp, closed, flight, slot, cells, mode, arg, ret, seg, sig, woken, hist>>
    PROVE  RingInv'
<1>0. /\ UNCHANGED <<nw, nr, lastOut>>
      /\ pc'[a] = "gone" /\ OwnOnly(a) /\ a \in Actors /\ a \notin Runtime
  BY Crew DEF RingInv, TypeOK, OwnOnly, Goto, hist, Actors
<1>1. TypeOK'
  BY DEF RingInv, TypeOK, Goto, hist, Labels
<1>2. UserControl(a)'
  BY <1>0 DEF RingInv, Control, UserControl, Live
<1>3. ~slot[a]
  BY <1>0 DEF RingInv, NoDanglingWaiter
<1>5. ~Live(a) /\ ~Live(a)'
  BY <1>0 DEF Live
<1> QED BY <1>0, <1>1, <1>2, <1>3, <1>5, ParkStep

-----------------------------------------------------------------------------
(* Handing out regions. *)

Segs == [start : Cells, len : 0 .. Capacity, off : 0 .. Capacity]

(* What is lent fits in what the end may use. *)
LEMMA TakeFits ==
    ASSUME RingInv, NEW a \in Actors, NEW d \in Demands \cup {All}
    PROVE  Take(a, d) \in 0 .. Capacity /\ Take(a, d) <= Room(a)
<1>1. Room(a) \in 0 .. Capacity - 1 /\ Capacity \in Nat
  BY RoomType, CapacityAssumption DEF RingInv, TypeOK
<1>2. d.max \in Nat
  BY RingDemandsAssumption, CapacityAssumption DEF All
<1> QED BY <1>1, <1>2 DEF Take

(* A region of what an end may use fits there. *)
LEMMA RegionFits ==
    ASSUME RingInv, NEW a \in Actors, NEW n \in 0 .. Capacity, n <= Room(a), NEW s, s = Region1(a, n)
    PROVE  /\ s \in Segs /\ s.start = Start(a) /\ s.off = 0 /\ s.len = n
<1>1. /\ rp \in Cells /\ wp \in Cells /\ 0 \in 0 .. Capacity
  BY CapacityAssumption DEF RingInv, TypeOK
<1>2. Start(a) \in Cells /\ s = [start |-> Start(a), len |-> n, off |-> 0]
  BY <1>1 DEF Start, Region1
<1> QED BY <1>1, <1>2 DEF Segs

(* A step that hands actor a a region of n units, which it did not have. *)
LEMMA LendStep ==
    ASSUME RingInv, NEW a \in Actors, TypeOK', OwnOnly(a),
           UNCHANGED <<rp, wp, closed, cells, nw, nr, lastOut, slot, woken, sig>>,
           \A f \in {"send", "recv"} : flight[f] => flight'[f], FlightMatches',
           pc[a] \notin {"signal", "wake", "parked"}, ~Live(a), Live(a)',
           pc'[a] \in {"seg", "short", "dereg"},
           a \in Users => UserControl(a)', a \in Runtime => RuntimeControl(a)',
           slot[a] => pc'[a] # "seg",
           NEW n \in 0 .. Capacity, n <= Room(a), seg'[a] = Region1(a, n),
           a \in Users => pc[Mate(a)] # "seg", a \in Runtime => ~Live(Mate(a))
    PROVE  RingInv'
<1>1. PICK s : s = Region1(a, n)
  OBVIOUS
<1>2. s \in Segs /\ s.start = Start(a) /\ s.off = 0 /\ s.len = n
  BY <1>1, RegionFits
<1>3. SegmentFits(a)'
  <2>1. Start(a)' = Start(a) /\ Room(a)' = Room(a)
    BY DEF Start, Room, Free, Data
  <2> QED BY <1>1, <1>2, <2>1 DEF SegmentFits
<1>4. seg[a] = NoSeg
  BY DEF RingInv, SegmentsFit, SegmentFits
<1>5. seg'[a].off = seg[a].off
  BY <1>1, <1>2, <1>4 DEF NoSeg
<1> QED BY <1>3, <1>5, QuietStep

(* A region of n units handed out at once keeps the invariant. *)
LEMMA TrySegment ==
    ASSUME RingInv, NEW a \in Users, Offered(a), pc[a] = "idle", Goto(a, "seg"),
           NEW n \in 0 .. Capacity, n <= Room(a), seg' = [seg EXCEPT ![a] = Region1(a, n)],
           NEW m \in {"borrow", "peek"}, mode' = [mode EXCEPT ![a] = m],
           UNCHANGED <<word, slot, cells, arg, ret, sig, woken, hist>>
    PROVE  RingInv'
<1>a. a \in Actors /\ a \notin Runtime
  BY Crew DEF Actors
<1>0. /\ UNCHANGED <<rp, wp, closed, flight, cells, nw, nr, lastOut, sig, slot, woken, ret, arg>>
      /\ pc'[a] = "seg" /\ OwnOnly(a) /\ seg'[a] = Region1(a, n) /\ mode'[a] = m
      /\ pc' = [pc EXCEPT ![a] = "seg"]
  BY <1>a DEF RingInv, TypeOK, OwnOnly, Goto, word, hist
<1>c. PICK s \in Segs : s = Region1(a, n) /\ s.off = 0
  BY <1>a, RegionFits
<1>1. TypeOK'
  BY <1>0, <1>c DEF RingInv, TypeOK, Labels, Segs
<1>2. UserControl(a)'
  BY <1>0, <1>c DEF UserControl
<1>3. FlightMatches'
  BY <1>0, <1>a, FlightFrame DEF RingInv
<1>4. pc[Mate(a)] # "seg"
  BY OfferedAlone DEF Offered
<1>5. ~Live(a) /\ Live(a)' /\ ~slot[a]
  BY <1>0, <1>a DEF Live, RingInv, NoDanglingWaiter
<1> QED BY <1>0, <1>1, <1>2, <1>3, <1>4, <1>5, <1>a, LendStep

(* try_write and try_read keep the invariant. *)
LEMMA TrySteps ==
    ASSUME RingInv, NEW a \in Actors, NEW d \in Demands, Try(a, d)
    PROVE  RingInv'
BY TakeFits, TrySegment DEF Try

(* try_peek keeps the invariant. *)
LEMMA PeekStep ==
    ASSUME RingInv, NEW a \in Actors, TryPeek(a)
    PROVE  RingInv'
<1>1. a \in Users /\ Room(a) = Data /\ Data \in 0 .. Capacity - 1 /\ Capacity \in Nat
  BY Gap DEF TryPeek, Room, Writers, Users, RingInv, TypeOK
<1>2. Data \in 0 .. Capacity /\ Data <= Room(a)
  BY <1>1
<1> QED BY <1>1, <1>2, TrySegment DEF TryPeek

(* The head of the poll loop keeps the invariant. *)
LEMMA TryAgainStep ==
    ASSUME RingInv, NEW a \in Actors, TryAgain(a)
    PROVE  RingInv'
<1>a. a \in Users /\ a \notin Runtime /\ pc[a] = "try" /\ arg[a] \in Demands \cup {All}
  BY Crew DEF TryAgain, RingInv, Control, RuntimeControl, TypeOK
<1>0. /\ UNCHANGED <<rp, wp, closed, flight, cells, nw, nr, lastOut, sig, slot, woken, mode, arg>>
      /\ OwnOnly(a)
      /\ \/ pc'[a] = "dereg" /\ ret'[a] \in {"seg", "idle"}
         \/ pc'[a] \in {"short", "blocked"} /\ ret' = ret
  BY DEF RingInv, TypeOK, TryAgain, Leave, OwnOnly, Goto, word, hist
<1>3. FlightMatches'
  BY <1>0, <1>a, FlightFrame DEF RingInv
<1>4. CASE Offered(a)
  <2>1. PICK n \in 0 .. Capacity : n <= Room(a) /\ n = Take(a, arg[a])
    BY <1>a, TakeFits
  <2>2. PICK s \in Segs : s = Region1(a, n) /\ s.off = 0
    BY <2>1, RegionFits
  <2>3. /\ seg' = [seg EXCEPT ![a] = s] /\ seg'[a] = s
        /\ \/ pc'[a] = "dereg" /\ ret'[a] = "seg"
           \/ pc'[a] = "short"
    BY <1>4, <2>1, <2>2 DEF TryAgain, RingInv, TypeOK, Leave, Goto
  <2>4. TypeOK'
    <3>1. seg' \in [Actors -> Segs]
      BY <2>2, <2>3 DEF RingInv, TypeOK, Segs
    <3>2. pc' \in [Actors -> Labels] /\ ret' \in [Actors -> {"idle", "try", "seg", "gone"}]
      BY SMTT(60) DEF RingInv, TypeOK, TryAgain, Leave, Goto, Labels
    <3> QED BY <1>0, <3>1, <3>2 DEF RingInv, TypeOK, Segs
  <2>5. UserControl(a)'
    BY <1>0, <1>a, <2>2, <2>3 DEF UserControl, RingInv, Control
  <2>6. pc[Mate(a)] # "seg"
    BY <1>4, <1>a, OfferedAlone DEF Offered
  <2>7. ~Live(a) /\ Live(a)'
    BY <1>a, <2>3 DEF Live
  <2> QED BY <1>0, <1>3, <1>a, <2>1, <2>2, <2>3, <2>4, <2>5, <2>6, <2>7, LendStep
<1>5. CASE ~Offered(a)
  <2>1. /\ seg' = seg /\ pc'[a] \in {"dereg", "blocked"} /\ (pc'[a] = "dereg" => ret'[a] = "idle")
    BY <1>5 DEF TryAgain, RingInv, TypeOK, Leave, Goto
  <2>2. TypeOK'
    <3>2. pc' \in [Actors -> Labels] /\ ret' \in [Actors -> {"idle", "try", "seg", "gone"}]
      BY DEF RingInv, TypeOK, TryAgain, Leave, Goto, Labels
    <3> QED BY <1>0, <2>1, <3>2 DEF RingInv, TypeOK
  <2>3. ~Live(a) /\ ~Live(a)'
    BY <1>a, <2>1 DEF Live
  <2>4. UserControl(a)'
    BY <1>0, <1>a, <2>1, <2>3 DEF UserControl, RingInv, Control
  <2> QED BY <1>0, <1>a, <2>1, <2>2, <2>3, <2>4, ParkStep
<1> QED BY <1>4, <1>5

(* A region of which nothing was used is given up. *)
LEMMA GiveUpStep ==
    ASSUME RingInv, NEW a \in Users, TypeOK', OwnOnly(a),
           UNCHANGED <<rp, wp, closed, flight, cells, nw, nr, lastOut, slot, woken, sig>>,
           pc[a] \notin {"signal", "wake"}, Live(a), seg[a].off = 0, seg'[a] = NoSeg, ~Live(a)',
           pc'[a] \in {"idle", "dereg", "check"}, UserControl(a)', slot[a] => pc'[a] # "idle"
    PROVE  RingInv'
<1>1. a \in Actors /\ a \notin Runtime
  BY Crew DEF Actors
<1>2. SegmentFits(a)' /\ seg'[a].off = seg[a].off
  BY DEF SegmentFits, NoSeg
<1>3. FlightMatches'
  BY <1>1, FlightFrame DEF RingInv
<1> QED BY <1>1, <1>2, <1>3, QuietStep

(* A region below the minimum, taken or given up, keeps the invariant. *)
LEMMA ShortStep ==
    ASSUME RingInv, NEW a \in Actors, Short(a)
    PROVE  RingInv'
<1>a. a \in Users /\ a \notin Runtime /\ pc[a] = "short" /\ Live(a)
  BY Crew DEF Short, RingInv, Control, RuntimeControl, TypeOK, Live
<1>0. /\ UNCHANGED <<rp, wp, closed, flight, cells, nw, nr, lastOut, sig, slot, woken, mode, arg>>
      /\ OwnOnly(a)
      /\ \/ pc'[a] = "dereg" /\ ret'[a] = "seg" /\ seg' = seg
         \/ pc'[a] = "dereg" /\ ret'[a] = "idle" /\ seg'[a] = NoSeg
         \/ pc'[a] = "check" /\ ret' = ret /\ seg'[a] = NoSeg
  BY DEF RingInv, TypeOK, Short, Leave, OwnOnly, Goto, word, hist
<1>1. TypeOK'
  <2>1. NoSeg \in Segs
    BY CapacityAssumption DEF NoSeg, Segs, Cells
  <2>2. seg' \in [Actors -> Segs]
    BY <2>1 DEF RingInv, TypeOK, Short, Segs
  <2>3. pc' \in [Actors -> Labels] /\ ret' \in [Actors -> {"idle", "try", "seg", "gone"}]
    BY DEF RingInv, TypeOK, Short, Leave, Goto, Labels
  <2> QED BY <1>0, <2>2, <2>3 DEF RingInv, TypeOK, Segs
<1>2. mode[a] # "wait" /\ seg[a].off = 0
  BY <1>a DEF RingInv, Control, UserControl
<1>3. CASE pc'[a] = "dereg" /\ ret'[a] = "seg" /\ seg' = seg
  <2>1. UserControl(a)' /\ Live(a)'
    BY <1>0, <1>2, <1>3 DEF UserControl, Live
  <2> QED BY <1>0, <1>1, <1>3, <1>a, <2>1, ParkStep
<1>4. CASE pc'[a] \in {"dereg", "check"} /\ (pc'[a] = "dereg" => ret'[a] = "idle") /\ seg'[a] = NoSeg
  <2>1. UserControl(a)' /\ ~Live(a)'
    BY <1>0, <1>2, <1>4 DEF UserControl, Live
  <2> QED BY <1>0, <1>1, <1>2, <1>4, <1>a, <2>1, GiveUpStep
<1> QED BY <1>0, <1>3, <1>4

(* The drop of a peeked segment keeps the invariant. *)
LEMMA DropPeekStep ==
    ASSUME RingInv, NEW a \in Actors, DropPeek(a), a \in Users
    PROVE  RingInv'
<1>0. /\ UNCHANGED <<rp, wp, closed, flight, cells, nw, nr, lastOut, sig, slot, woken, arg, ret>>
      /\ OwnOnly(a) /\ pc[a] = "seg" /\ mode[a] = "peek" /\ pc'[a] = "idle" /\ mode'[a] = "borrow"
      /\ seg'[a] = NoSeg
  BY DEF RingInv, TypeOK, DropPeek, OwnOnly, Goto, word, hist
<1>1. TypeOK'
  <2>1. NoSeg \in Segs
    BY CapacityAssumption DEF NoSeg, Segs, Cells
  <2>2. seg' \in [Actors -> Segs]
    BY <2>1 DEF RingInv, TypeOK, DropPeek, Segs
  <2>3. pc' \in [Actors -> Labels] /\ mode' \in [Actors -> {"borrow", "peek", "wait"}]
    BY DEF RingInv, TypeOK, DropPeek, Goto, Labels
  <2> QED BY <1>0, <2>2, <2>3 DEF RingInv, TypeOK, Segs
<1>2. Live(a) /\ seg[a].off = 0 /\ ~slot[a]
  BY <1>0 DEF RingInv, Control, UserControl, Live, NoDanglingWaiter
<1>3. UserControl(a)' /\ ~Live(a)'
  BY <1>0 DEF UserControl, Live
<1> QED BY <1>0, <1>1, <1>2, <1>3, GiveUpStep

(* The runtime reserves the whole of what its end may use. *)
LEMMA TakeIovecsStep ==
    ASSUME RingInv, NEW a \in Actors, TakeIovecs(a)
    PROVE  RingInv'
<1>a. a \in Runtime /\ a \notin Users /\ pc[a] = "idle" /\ EndFree(a)
  BY Crew DEF TakeIovecs
<1>b. PICK n \in 0 .. Capacity : n <= Room(a) /\ n = Room(a)
  <2>1. Room(a) \in 0 .. Capacity - 1 /\ Capacity \in Nat
    BY RoomType, CapacityAssumption DEF RingInv, TypeOK
  <2> QED BY <2>1
<1>c. PICK s \in Segs : s = Region1(a, n) /\ s.off = 0
  BY <1>b, RegionFits
<1>0. /\ UNCHANGED <<rp, wp, closed, cells, nw, nr, lastOut, sig, slot, woken, arg, ret>>
      /\ OwnOnly(a) /\ pc'[a] = "seg" /\ mode'[a] = "borrow"
      /\ seg' = [seg EXCEPT ![a] = s] /\ seg'[a] = s
      /\ flight' = [flight EXCEPT ![Flag(a)] = TRUE]
  BY <1>b, <1>c DEF RingInv, TypeOK, TakeIovecs, OwnOnly, Goto, word, hist
<1>1. TypeOK'
  <2>1. seg' \in [Actors -> Segs]
    BY <1>0, <1>c DEF RingInv, TypeOK, Segs
  <2>2. pc' \in [Actors -> Labels] /\ mode' \in [Actors -> {"borrow", "peek", "wait"}]
    BY DEF RingInv, TypeOK, TakeIovecs, Goto, Labels
  <2>3. flight' \in [{"send", "recv"} -> BOOLEAN]
    BY <1>0 DEF RingInv, TypeOK
  <2> QED BY <1>0, <2>1, <2>2, <2>3 DEF RingInv, TypeOK, Segs
<1>2. RuntimeControl(a)'
  BY <1>0 DEF RuntimeControl
<1>3. FlightMatches' /\ \A f \in {"send", "recv"} : flight[f] => flight'[f]
  <2>1. ASSUME NEW b \in Runtime PROVE flight'[Flag(b)] <=> pc'[b] = "seg"
    <3>1. b \in Actors /\ Flag(b) \in {"send", "recv"} /\ (Flag(b) = Flag(a) => b = a)
      BY <1>a, Crew DEF Actors
    <3>2. CASE b = a
      BY <1>0, <3>1, <3>2 DEF RingInv, TypeOK
    <3>3. CASE b # a
      BY <1>0, <3>1, <3>3 DEF RingInv, TypeOK, FlightMatches, OwnOnly
    <3> QED BY <3>2, <3>3
  <2>2. ASSUME NEW f \in {"send", "recv"}, flight[f] PROVE flight'[f]
    BY <1>0, <2>2 DEF RingInv, TypeOK
  <2> QED BY <2>1, <2>2 DEF FlightMatches
<1>4. ~Live(Mate(a))
  BY <1>a DEF EndFree, Live
<1>5. ~Live(a) /\ Live(a)' /\ ~slot[a]
  BY <1>0, <1>a DEF Live, RingInv, NoDanglingWaiter
<1> QED BY <1>0, <1>1, <1>2, <1>3, <1>4, <1>5, <1>a, <1>b, <1>c, LendStep

-----------------------------------------------------------------------------
(* Items. *)

(* The holder of a region is the only one at its end: the counts of what its
   end has not committed are its own. *)
LEMMA SoleHolder ==
    ASSUME RingInv, NEW a \in Actors, Live(a)
    PROVE  /\ Mate(a) \in Actors /\ Mate(a) # a /\ seg[Mate(a)] = NoSeg
           /\ seg[a].off \in Nat /\ seg[a].len \in 0 .. Capacity
           /\ seg[a].off <= seg[a].len /\ seg[a].len <= Room(a) /\ seg[a].start = Start(a)
           /\ a \in Writers => Written = seg[a].off
           /\ a \in Readers => Ahead = seg[a].off
<1>1. Mate(a) \in Actors /\ Mate(a) # a
  BY DEF Actors, Users, Runtime, Mate
<1>2. ~Live(Mate(a))
  <2>1. CASE a \in Users
    <3>1. Mate(a) \in Runtime /\ pc[Mate(a)] # "seg"
      BY <2>1, Crew DEF RingInv, OneHolder
    <3> QED BY <3>1 DEF RingInv, Control, RuntimeControl, Live
  <2>2. CASE a \in Runtime
    <3>1. Mate(a) \in Users /\ Mate(Mate(a)) = a /\ pc[a] = "seg"
      BY <2>2, Crew DEF RingInv, Control, RuntimeControl, Live
    <3> QED BY <3>1 DEF RingInv, OneHolder
  <2> QED BY <2>1, <2>2, Crew
<1>3. seg[Mate(a)] = NoSeg
  BY <1>1, <1>2 DEF RingInv, SegmentsFit, SegmentFits
<1>4. /\ seg[a].off \in 0 .. Capacity /\ seg[a].len \in 0 .. Capacity
      /\ seg[a].off <= seg[a].len /\ seg[a].len <= Room(a) /\ seg[a].start = Start(a)
  BY DEF RingInv, SegmentsFit, SegmentFits, TypeOK
<1>5. seg[Mate(a)].off = 0 /\ seg[a].off \in Nat /\ Capacity \in Nat
  BY <1>3, <1>4, CapacityAssumption DEF NoSeg
<1>6. ASSUME a \in Writers PROVE Written = seg[a].off
  BY <1>5, <1>6 DEF Written, Writers, Mate
<1>7. ASSUME a \in Readers PROVE Ahead = seg[a].off
  BY <1>5, <1>7 DEF Ahead, Readers, Mate
<1> QED BY <1>1, <1>3, <1>4, <1>5, <1>6, <1>7

(* An item is put into the next cell of a writer's region. *)
LEMMA MoveIn ==
    ASSUME RingInv, NEW a \in Writers, a \in Actors, Live(a), seg[a].off < seg[a].len,
           UNCHANGED <<rp, wp, nw, nr>>, Written' = Written + 1,
           cells' = [cells EXCEPT ![CellAt(seg[a].start, seg[a].off)] = nw + seg[a].off + 1]
    PROVE  CellsInOrder' /\ cells' \in [Cells -> Nat]
<1>1. /\ seg[a].off \in Nat /\ seg[a].len \in Nat /\ seg[a].len <= Free
      /\ seg[a].start = wp /\ Written = seg[a].off
  BY SoleHolder, CapacityAssumption DEF Room, Start
<1>2. /\ rp \in Cells /\ wp \in Cells /\ cells \in [Cells -> Nat] /\ nw \in Nat /\ nr \in Nat
  BY DEF RingInv, TypeOK
<1>3. Data \in Nat /\ Free \in Nat /\ Capacity \in Nat
  BY <1>2, Gap
<1>4. PICK k \in Cells : k = Data + seg[a].off /\ CellAt(wp, seg[a].off) = CellAt(rp, k)
  <2>1. seg[a].off <= Free
    BY <1>1, <1>3
  <2> QED BY <1>1, <1>2, <2>1, GapWrite
<1>5. k \in Nat /\ Data = nw - nr
  BY <1>4, <1>3 DEF Cells, RingInv, PositionsCount
<1>6. nw + seg[a].off + 1 = nr + k + 1 /\ nw + seg[a].off + 1 \in Nat
  BY <1>1, <1>2, <1>3, <1>4, <1>5
<1>7. CellAt(rp, k) \in Cells /\ cells' = [cells EXCEPT ![CellAt(rp, k)] = nr + k + 1]
  <2>1. k \in 0 .. Capacity
    BY <1>3, <1>4 DEF Cells
  <2> QED BY <1>1, <1>2, <1>4, <1>6, <2>1, CellAtWrap
<1>8. cells' \in [Cells -> Nat]
  BY <1>2, <1>6, <1>7
<1>9. CellsInOrder'
  <2> SUFFICES ASSUME NEW i \in Cells, i < Data + (Written + 1)
               PROVE  cells'[CellAt(rp, i)] = nr + i + 1
    <3>1. Data' = Data
      BY DEF Data
    <3> QED BY <3>1 DEF CellsInOrder
  <2>1. i \in Nat /\ CellAt(rp, i) \in Cells
    <3>1. i \in 0 .. Capacity
      BY <1>3 DEF Cells
    <3> QED BY <1>2, <3>1, CellAtWrap
  <2>2. CASE i = k
    BY <1>2, <1>7, <2>2
  <2>3. CASE i # k
    <3>1. CellAt(rp, i) # CellAt(rp, k)
      BY <1>2, <1>4, <2>3, CellAtInjective
    <3>2. i < Data + Written
      BY <1>1, <1>3, <1>4, <2>1, <2>3
    <3> QED BY <1>2, <1>7, <2>1, <3>1, <3>2 DEF RingInv, CellsInOrder
  <2> QED BY <2>2, <2>3
<1> QED BY <1>8, <1>9

(* The next item of a reader's region is the next one in order. *)
LEMMA MoveOut ==
    ASSUME RingInv, NEW a \in Readers, a \in Actors, Live(a), seg[a].off < seg[a].len
    PROVE  cells[CellAt(seg[a].start, seg[a].off)] = nr + (seg[a].off + 1)
<1>1. /\ seg[a].off \in Nat /\ seg[a].len \in Nat /\ seg[a].len <= Data /\ seg[a].start = rp
  BY SoleHolder, Crew, CapacityAssumption DEF Room, Start
<1>2. rp \in Cells /\ wp \in Cells /\ nr \in Nat
  BY DEF RingInv, TypeOK
<1>3. Data \in 0 .. Capacity - 1 /\ Capacity \in Nat
  BY <1>2, Gap
<1>4. Written \in Nat
  BY DEF RingInv, TypeOK, Written, Actors, Users, Runtime
<1>5. seg[a].off \in Cells /\ seg[a].off < Data + Written
  BY <1>1, <1>3, <1>4 DEF Cells
<1> QED BY <1>1, <1>2, <1>5 DEF RingInv, CellsInOrder

(* Moving one item keeps the invariant. *)
LEMMA MoveItemStep ==
    ASSUME RingInv, NEW a \in Actors, MoveItem(a)
    PROVE  RingInv'
<1>0. /\ UNCHANGED <<rp, wp, closed, flight, slot, pc, mode, arg, ret, sig, woken, nw, nr>>
      /\ pc[a] = "seg" /\ mode[a] = "borrow" /\ seg[a].off < seg[a].len /\ Live(a)
  BY DEF MoveItem, word, Live
<1>a. /\ seg[a].off \in Nat /\ seg[a].len \in 0 .. Capacity /\ seg[a].start = Start(a)
      /\ seg[a].len <= Room(a) /\ Start(a) \in Cells /\ Capacity \in Nat
  BY <1>0, SoleHolder, CapacityAssumption DEF RingInv, TypeOK, Start
<1>b. PICK s : s = [start |-> seg[a].start, len |-> seg[a].len, off |-> seg[a].off + 1]
  OBVIOUS
<1>c. /\ s \in Segs /\ s.start = seg[a].start /\ s.len = seg[a].len /\ s.off = seg[a].off + 1
  <2>1. seg[a].off + 1 \in 0 .. Capacity /\ seg[a].start \in Cells
    BY <1>0, <1>a
  <2> QED BY <1>a, <1>b, <2>1 DEF Segs
<1>d. seg' = [seg EXCEPT ![a] = s] /\ seg'[a] = s /\ \A b \in Actors : b # a => seg'[b] = seg[b]
  BY <1>b DEF MoveItem, RingInv, TypeOK
<1>1. OwnOnly(a)
  BY <1>0, <1>d DEF OwnOnly
<1>2. UserControl(a) => UserControl(a)'
  BY <1>0, <1>d DEF UserControl, Live
<1>3. Control'
  <2>1. a \in Runtime => RuntimeControl(a)'
    BY <1>0 DEF RingInv, Control, RuntimeControl
  <2>2. Closes(a)
    BY <1>0 DEF RingInv, Control, Closes
  <2> QED BY <1>1, <1>2, <2>1, <2>2, ControlFrame DEF RingInv, Control
<1>4. SegmentsFit'
  <2>1. Live(a)' /\ Start(a)' = Start(a) /\ Room(a)' = Room(a)
    BY <1>0 DEF Live, Start, Room, Free, Data
  <2>2. SegmentFits(a)'
    BY <1>0, <1>a, <1>c, <1>d, <2>1 DEF SegmentFits
  <2> QED BY <1>0, <1>1, <2>2, SegmentFrame DEF RingInv
<1>5. OneHolder' /\ NoDanglingWaiter' /\ FlightMatches'
  BY <1>0 DEF RingInv, OneHolder, NoDanglingWaiter, FlightMatches, Live
<1>6. WakeTaken' /\ WakeDue'
  BY <1>0, <1>1, WakeQuiet DEF RingInv
<1>7. /\ a \in Writers => Written' = Written + 1 /\ Ahead' = Ahead
      /\ a \in Readers => Ahead' = Ahead + 1 /\ Written' = Written
      /\ PositionsCount'
  <2>1. \A b \in Actors : seg[b].off \in Nat
    BY DEF RingInv, TypeOK
  <2>2. /\ a \in Writers => Written' = Written + 1 /\ Ahead' = Ahead
    BY <1>c, <1>d, <2>1 DEF Written, Ahead, Writers, Actors, Users, Runtime
  <2>3. /\ a \in Readers => Ahead' = Ahead + 1 /\ Written' = Written
    BY <1>c, <1>d, <2>1 DEF Written, Ahead, Readers, Actors, Users, Runtime
  <2> QED BY <1>0, <2>2, <2>3 DEF RingInv, PositionsCount, Data
<1>8. CellsInOrder' /\ FifoOrder' /\ cells' \in [Cells -> Nat] /\ lastOut' \in Nat
  <2>1. CASE a \in Writers
    <3>1. /\ cells' = [cells EXCEPT ![CellAt(seg[a].start, seg[a].off)] = nw + seg[a].off + 1]
          /\ lastOut' = lastOut
      BY <2>1, Crew DEF MoveItem
    <3>2. CellsInOrder' /\ cells' \in [Cells -> Nat]
      BY <1>0, <1>7, <2>1, <3>1, MoveIn
    <3> QED BY <1>0, <1>7, <2>1, <3>1, <3>2 DEF RingInv, FifoOrder, TypeOK
  <2>2. CASE a \in Readers
    <3>1. lastOut' = cells[CellAt(seg[a].start, seg[a].off)] /\ cells' = cells
      BY <2>2, Crew DEF MoveItem
    <3>2. lastOut' = nr + (seg[a].off + 1)
      BY <1>0, <2>2, <3>1, MoveOut
    <3>3. Ahead = seg[a].off
      BY <1>0, <2>2, SoleHolder
    <3>4. CellsInOrder'
      BY <1>0, <1>7, <2>2, <3>1 DEF RingInv, CellsInOrder, Data
    <3> QED BY <1>0, <1>7, <1>a, <2>2, <3>1, <3>2, <3>3, <3>4 DEF RingInv, FifoOrder, TypeOK
  <2> QED BY <2>1, <2>2, Crew
<1>9. TypeOK'
  <2>1. seg' \in [Actors -> Segs]
    BY <1>c, <1>d DEF RingInv, TypeOK, Segs
  <2> QED BY <1>0, <1>8, <2>1 DEF RingInv, TypeOK, Segs
<1> QED BY <1>3, <1>4, <1>5, <1>6, <1>7, <1>8, <1>9 DEF RingInv

(* What the writers have put in and not committed fits in the free part. *)
LEMMA WrittenFits ==
    ASSUME RingInv
    PROVE  Written \in Nat /\ Written <= Free /\ Ahead \in Nat
<1>0. \A b \in Actors : seg[b].off \in Nat
  BY DEF RingInv, TypeOK
<1>1. Written \in Nat /\ Ahead \in Nat
  BY <1>0 DEF Written, Ahead, Actors, Users, Runtime
<1>2. Free \in Nat
  BY Gap DEF RingInv, TypeOK
<1>3. ASSUME NEW a \in Writers, Live(a) PROVE Written <= Free
  <2>1. a \in Actors
    BY DEF Actors, Users, Runtime, Writers
  <2>2. Written = seg[a].off /\ seg[a].off <= seg[a].len /\ seg[a].len <= Free
        /\ seg[a].len \in 0 .. Capacity /\ seg[a].off \in Nat
    BY <1>3, <2>1, SoleHolder DEF Room
  <2> QED BY <1>2, <2>2, CapacityAssumption
<1>4. ASSUME \A a \in Writers : ~Live(a) PROVE Written <= Free
  <2>1. \A a \in Writers : seg[a] = NoSeg
    BY <1>4 DEF RingInv, SegmentsFit, SegmentFits, Actors, Users, Runtime, Writers
  <2>2. Written = 0
    BY <2>1 DEF Written, Writers, NoSeg
  <2> QED BY <1>2, <2>2
<1> QED BY <1>1, <1>3, <1>4

(* The holder commits what it moved. *)
LEMMA CommitData ==
    ASSUME RingInv, NEW a \in Actors, Live(a), OwnOnly(a), ~Live(a)', seg'[a] = NoSeg,
           Advance(a, seg[a].off), UNCHANGED <<cells, lastOut>>
    PROVE  /\ SegmentsFit' /\ PositionsCount' /\ CellsInOrder' /\ FifoOrder'
           /\ rp' \in Cells /\ wp' \in Cells /\ nw' \in Nat /\ nr' \in Nat
<1>1. /\ Mate(a) \in Actors /\ Mate(a) # a /\ seg[Mate(a)] = NoSeg
      /\ seg[a].off \in Nat /\ seg[a].len \in 0 .. Capacity
      /\ seg[a].off <= seg[a].len /\ seg[a].len <= Room(a) /\ seg[a].start = Start(a)
      /\ a \in Writers => Written = seg[a].off
      /\ a \in Readers => Ahead = seg[a].off
  BY SoleHolder
<1>2. /\ rp \in Cells /\ wp \in Cells /\ nw \in Nat /\ nr \in Nat /\ Data = nw - nr
      /\ lastOut = nr + Ahead
  BY DEF RingInv, TypeOK, PositionsCount, FifoOrder
<1>3. /\ Capacity \in Nat /\ Data \in 0 .. Capacity - 1 /\ Free \in 0 .. Capacity - 1
      /\ Free = Capacity - 1 - Data
  BY <1>2, Gap
<1>4. Written \in Nat /\ Written <= Free /\ Ahead \in Nat
  BY WrittenFits
<1>5. /\ a \in Writers => Written' = 0 /\ Ahead' = Ahead
      /\ a \in Readers => Ahead' = 0 /\ Written' = Written
  <2>1. \A b \in Actors : b # a => seg'[b] = seg[b]
    BY DEF OwnOnly
  <2>2. a \in Writers => Written' = 0 /\ Ahead' = Ahead
    BY <1>1, <2>1 DEF Written, Ahead, Writers, Actors, Users, Runtime, Mate, NoSeg
  <2>3. a \in Readers => Ahead' = 0 /\ Written' = Written
    BY <1>1, <2>1 DEF Written, Ahead, Readers, Actors, Users, Runtime, Mate, NoSeg
  <2> QED BY <2>2, <2>3
<1>6. ASSUME \A b \in Actors : (a \in Writers <=> b \in Readers)
                => Start(b)' = Start(b) /\ Room(b)' >= Room(b) /\ Room(b)' \in Nat
      PROVE  SegmentsFit'
  <2> SUFFICES ASSUME NEW b \in Actors PROVE SegmentFits(b)'
    BY DEF SegmentsFit
  <2>1. CASE b = a
    BY <2>1 DEF SegmentFits
  <2>2. CASE b = Mate(a)
    <3>1. ~Live(b)' \/ Live(b)
      BY <1>1, <2>2 DEF Live, OwnOnly
    <3>2. seg'[b] = NoSeg
      BY <1>1, <2>2 DEF OwnOnly
    <3>3. ~Live(b)
      <4>1. a \in Users => Live(a) /\ pc[b] # "seg" /\ b \in Runtime
        BY <2>2, Crew DEF RingInv, OneHolder
      <4>2. a \in Runtime => pc[a] = "seg" /\ Mate(b) = a /\ b \in Users
        BY <2>2, Crew DEF RingInv, Control, RuntimeControl, Live
      <4> QED BY <4>1, <4>2, Crew DEF RingInv, OneHolder, Control, RuntimeControl, Live
    <3> QED BY <3>1, <3>2, <3>3 DEF SegmentFits
  <2>3. CASE b # a /\ b # Mate(a)
    <3>1. a \in Writers <=> b \in Readers
      BY <2>3, Crew DEF Writers, Readers, Mate, Actors, Users, Runtime
    <3>2. Live(b)' = Live(b) /\ seg'[b] = seg[b]
      BY <2>3 DEF Live, OwnOnly
    <3>3. SegmentFits(b) /\ seg[b].len \in 0 .. Capacity
      BY DEF RingInv, SegmentsFit, TypeOK
    <3>4. Room(b) \in 0 .. Capacity - 1
      BY <1>2, RoomType
    <3> QED BY <1>3, <1>6, <3>1, <3>2, <3>3, <3>4 DEF SegmentFits
  <2> QED BY <2>1, <2>2, <2>3
<1>7. CASE a \in Writers
  <2>0. a \notin Readers /\ Mate(a) \in Writers
    BY <1>7, Crew DEF Writers, Mate
  <2>1. wp' = (wp + seg[a].off) % Capacity /\ rp' = rp /\ nw' = nw + seg[a].off /\ nr' = nr
    BY <1>7, <2>0 DEF Advance
  <2>2. seg[a].off <= Free
    BY <1>1, <1>3, <1>7 DEF Room
  <2>3. wp' \in Cells /\ Data' = Data + seg[a].off /\ Free' = Free - seg[a].off
    BY <1>1, <1>2, <2>1, <2>2, GapPut
  <2>4. SegmentsFit'
    <3>2. ASSUME NEW b \in Readers, b \in Actors
          PROVE  Start(b)' = Start(b) /\ Room(b)' >= Room(b) /\ Room(b)' \in Nat
      <4>1. b \notin Writers
        BY <3>2, Crew
      <4> QED BY <1>1, <1>3, <2>1, <2>3, <4>1 DEF Start, Room
    <3> QED BY <1>6, <1>7, <3>2
  <2>5. PositionsCount'
    BY <1>1, <1>2, <2>1, <2>3 DEF PositionsCount
  <2>6. CellsInOrder'
    <3>1. Data' + Written' = Data + Written
      BY <1>1, <1>3, <1>5, <1>7, <2>3
    <3> QED BY <2>1, <3>1 DEF RingInv, CellsInOrder
  <2>7. FifoOrder'
    BY <1>2, <1>5, <1>7, <2>1 DEF FifoOrder
  <2> QED BY <1>1, <1>2, <2>1, <2>3, <2>4, <2>5, <2>6, <2>7
<1>8. CASE a \in Readers
  <2>0. a \notin Writers /\ Mate(a) \notin Writers
    BY <1>8, Crew DEF Readers, Writers, Mate
  <2>1. rp' = (rp + seg[a].off) % Capacity /\ wp' = wp /\ nr' = nr + seg[a].off /\ nw' = nw
    BY <1>8, <2>0 DEF Advance
  <2>2. seg[a].off <= Data
    BY <1>1, <1>3, <2>0 DEF Room
  <2>3. /\ rp' \in Cells /\ Data' = Data - seg[a].off /\ Free' = Free + seg[a].off
        /\ rp' = CellAt(rp, seg[a].off)
    BY <1>1, <1>2, <2>1, <2>2, GapGet
  <2>4. SegmentsFit'
    <3>2. ASSUME NEW b \in Actors, b \in Writers
          PROVE  Start(b)' = Start(b) /\ Room(b)' >= Room(b) /\ Room(b)' \in Nat
      BY <1>1, <1>3, <2>1, <2>3, <3>2 DEF Start, Room
    <3>3. \A b \in Actors : (a \in Writers <=> b \in Readers) => b \in Writers
      BY <2>0, Crew
    <3> QED BY <1>6, <3>2, <3>3
  <2>5. PositionsCount'
    BY <1>1, <1>2, <2>1, <2>3 DEF PositionsCount
  <2>6. CellsInOrder'
    <3> SUFFICES ASSUME NEW i \in Cells, i < Data' + Written'
                 PROVE  cells[CellAt(rp', i)] = nr' + i + 1
      BY DEF CellsInOrder
    <3>1. PICK k \in Nat : k = seg[a].off
      BY <1>1
    <3>2. /\ i \in Nat /\ k + i \in Cells /\ k + i <= Capacity /\ k + i < Data + Written
      BY <1>3, <1>4, <1>5, <1>8, <2>2, <2>3, <3>1 DEF Cells
    <3>3. CellAt(rp', i) = CellAt(rp, k + i)
      <4>1. CellAt(CellAt(rp, k), i) = CellAt(rp, k + i)
        BY <1>2, <3>2, CellAtShift
      <4> QED BY <2>3, <3>1, <4>1
    <3>4. cells[CellAt(rp, k + i)] = nr + (k + i) + 1
      BY <3>2 DEF RingInv, CellsInOrder
    <3> QED BY <1>2, <2>1, <3>1, <3>2, <3>3, <3>4
  <2>7. FifoOrder'
    BY <1>1, <1>2, <1>5, <1>8, <2>1 DEF FifoOrder
  <2> QED BY <1>1, <1>2, <2>1, <2>3, <2>4, <2>5, <2>6, <2>7
<1> QED BY <1>7, <1>8, Crew

-----------------------------------------------------------------------------
(* Changes of the state word, and signal_all. *)

(* A step of actor a that changes the state word goes on to signal_all. *)
LEMMA LoudStep ==
    ASSUME RingInv, NEW a \in Actors, TypeOK', OwnOnly(a), UNCHANGED <<slot, woken, sig>>,
           pc[a] \in {"seg", "idle"}, pc'[a] = "signal",
           a \in Users => UserControl(a)', a \in Runtime => RuntimeControl(a)',
           FlightMatches', SegmentsFit', PositionsCount', CellsInOrder', FifoOrder'
    PROVE  RingInv'
<1>1. Control'
  BY ControlFrame DEF RingInv, Closes
<1>2. ~slot[a] /\ sig[a] = 1
  BY DEF RingInv, NoDanglingWaiter, Control
<1>3. NoDanglingWaiter'
  BY <1>2, DanglingFrame DEF RingInv
<1>4. OneHolder'
  <2>1. ~Live(a)' /\ pc'[a] # "seg"
    BY DEF Live
  <2> QED BY <2>1, HolderFrame DEF RingInv
<1>5. WakeTaken' /\ WakeDue'
  BY <1>2, WakeLoud DEF RingInv
<1> QED BY <1>1, <1>3, <1>4, <1>5 DEF RingInv

(* The drop of a segment and a put-back keep the invariant. *)
LEMMA CommitSteps ==
    ASSUME RingInv, NEW a \in Actors, Commit(a) \/ PutBack(a)
    PROVE  RingInv'
<1>0. /\ UNCHANGED <<closed, slot, cells, mode, arg, sig, woken, lastOut>>
      /\ pc[a] = "seg" /\ Advance(a, seg[a].off) /\ seg' = [seg EXCEPT ![a] = NoSeg]
      /\ pc' = [pc EXCEPT ![a] = "signal"] /\ ret' = [ret EXCEPT ![a] = "idle"]
  BY DEF Commit, PutBack, SignalAll, Goto
<1>1. /\ pc'[a] = "signal" /\ ret'[a] = "idle" /\ seg'[a] = NoSeg /\ OwnOnly(a) /\ Live(a) /\ ~Live(a)'
      /\ mode'[a] = mode[a]
  BY <1>0 DEF RingInv, TypeOK, OwnOnly, Live
<1>2. /\ SegmentsFit' /\ PositionsCount' /\ CellsInOrder' /\ FifoOrder'
      /\ rp' \in Cells /\ wp' \in Cells /\ nw' \in Nat /\ nr' \in Nat
  BY <1>0, <1>1, CommitData
<1>3. FlightMatches' /\ flight' \in [{"send", "recv"} -> BOOLEAN]
  <2>1. CASE Commit(a)
    <3>1. a \in Users /\ a \notin Runtime /\ flight' = flight
      BY <2>1, Crew DEF Commit
    <3> QED BY <1>1, <3>1, FlightFrame DEF RingInv, TypeOK
  <2>2. CASE PutBack(a)
    <3>1. a \in Runtime /\ flight' = [flight EXCEPT ![Flag(a)] = FALSE]
      BY <2>2 DEF PutBack
    <3>2. flight' \in [{"send", "recv"} -> BOOLEAN]
      BY <3>1 DEF RingInv, TypeOK
    <3>3. ASSUME NEW b \in Runtime PROVE flight'[Flag(b)] <=> pc'[b] = "seg"
      <4>1. b \in Actors /\ Flag(b) \in {"send", "recv"} /\ (Flag(b) = Flag(a) => b = a)
        BY <3>1, Crew DEF Actors
      <4>2. CASE b = a
        BY <1>1, <3>1, <4>1, <4>2 DEF RingInv, TypeOK
      <4>3. CASE b # a
        BY <1>1, <3>1, <4>1, <4>3 DEF RingInv, TypeOK, FlightMatches, OwnOnly
      <4> QED BY <4>2, <4>3
    <3> QED BY <3>2, <3>3 DEF FlightMatches
  <2> QED BY <2>1, <2>2
<1>4. TypeOK'
  <2>1. NoSeg \in Segs
    BY CapacityAssumption DEF NoSeg, Segs, Cells
  <2>2. seg' \in [Actors -> Segs]
    BY <1>0, <2>1 DEF RingInv, TypeOK, Segs
  <2>3. pc' \in [Actors -> Labels] /\ ret' \in [Actors -> {"idle", "try", "seg", "gone"}]
    BY <1>0 DEF RingInv, TypeOK, Labels
  <2> QED BY <1>0, <1>2, <1>3, <2>2, <2>3 DEF RingInv, TypeOK, Segs
<1>5. a \in Users => UserControl(a)'
  BY <1>1 DEF RingInv, Control, UserControl
<1>6. a \in Runtime => RuntimeControl(a)'
  BY <1>1 DEF RingInv, Control, RuntimeControl
<1> QED BY <1>0, <1>1, <1>2, <1>3, <1>4, <1>5, <1>6, LoudStep

(* An end is closed, by a call or by the drop of its half. *)
LEMMA CloseStep ==
    ASSUME RingInv, NEW a \in Users, NEW e \in {"tx", "rx"}, NEW l \in {"idle", "gone"},
           pc[a] = "idle", closed' = [closed EXCEPT ![e] = TRUE], SignalAll(a, l),
           UNCHANGED <<rp, wp, flight, slot, cells, mode, arg, seg, sig, woken, hist>>
    PROVE  RingInv'
<1>0. /\ UNCHANGED <<nw, nr, lastOut>> /\ a \in Actors /\ a \notin Runtime
      /\ pc'[a] = "signal" /\ ret'[a] = l /\ OwnOnly(a) /\ ~Live(a) /\ ~Live(a)'
  BY Crew DEF RingInv, TypeOK, SignalAll, OwnOnly, Goto, hist, Actors, Live
<1>1. TypeOK'
  <2>1. pc' \in [Actors -> Labels] /\ ret' \in [Actors -> {"idle", "try", "seg", "gone"}]
    BY DEF RingInv, TypeOK, SignalAll, Goto, Labels
  <2>2. closed' \in [{"tx", "rx"} -> BOOLEAN]
    BY DEF RingInv, TypeOK
  <2> QED BY <1>0, <2>1, <2>2 DEF RingInv, TypeOK
<1>2. UserControl(a)'
  BY <1>0 DEF RingInv, Control, UserControl
<1>3. FlightMatches'
  BY <1>0, FlightFrame DEF RingInv
<1>4. SegmentsFit'
  <2>1. SegmentFits(a)'
    BY <1>0 DEF RingInv, SegmentsFit, SegmentFits
  <2> QED BY <1>0, <2>1, SegmentFrame DEF RingInv
<1>5. PositionsCount' /\ CellsInOrder' /\ FifoOrder'
  BY <1>0, DataFrame DEF RingInv
<1> QED BY <1>0, <1>1, <1>2, <1>3, <1>4, <1>5, LoudStep

(* signal_all goes on to the next slot, or returns. *)
LEMMA NextSlotFacts ==
    ASSUME RingInv, NEW a \in Actors, pc[a] \in {"signal", "wake"}, NextSlot(a),
           UNCHANGED <<arg, seg>>
    PROVE  /\ OwnOnly(a) /\ (a \in Users => UserControl(a)') /\ (a \in Runtime => RuntimeControl(a)')
           /\ \/ pc'[a] = "signal" /\ sig[a] < 4 /\ sig'[a] = sig[a] + 1
              \/ pc'[a] \in {"idle", "gone"} /\ sig[a] = 4 /\ sig'[a] = 1
           /\ pc' \in [Actors -> Labels] /\ ret' \in [Actors -> {"idle", "try", "seg", "gone"}]
           /\ mode' \in [Actors -> {"borrow", "peek", "wait"}] /\ sig' \in [Actors -> 1 .. 4]
           /\ ~Live(a) /\ ~Live(a)'
<1>0. sig[a] \in 1 .. 4 /\ Len(SlotOrder) = 4 /\ ret[a] \in {"idle", "gone"} /\ ~Live(a)
  BY Crew DEF RingInv, TypeOK, Control, UserControl, RuntimeControl, SlotOrder, Live
<1>1. CASE sig[a] < 4
  <2>1. /\ sig' = [sig EXCEPT ![a] = sig[a] + 1] /\ pc' = [pc EXCEPT ![a] = "signal"]
        /\ ret' = ret /\ mode' = mode
    BY <1>0, <1>1 DEF NextSlot, Goto
  <2>2. pc' \in [Actors -> Labels] /\ sig' \in [Actors -> 1 .. 4]
    BY <1>0, <1>1, <2>1 DEF RingInv, TypeOK, Labels
  <2>3. pc'[a] = "signal" /\ sig'[a] = sig[a] + 1 /\ OwnOnly(a)
    BY <2>1 DEF RingInv, TypeOK, OwnOnly
  <2>4. (a \in Users => UserControl(a)') /\ (a \in Runtime => RuntimeControl(a)') /\ ~Live(a)'
    BY <1>0, <2>1, <2>3, Crew DEF RingInv, Control, UserControl, RuntimeControl, Live
  <2> QED BY <1>0, <1>1, <2>1, <2>2, <2>3, <2>4 DEF RingInv, TypeOK
<1>2. CASE ~(sig[a] < 4)
  <2>1. /\ sig' = [sig EXCEPT ![a] = 1] /\ pc' = [pc EXCEPT ![a] = ret[a]]
        /\ ret' = [ret EXCEPT ![a] = "idle"]
        /\ mode' = IF ret[a] = "idle" THEN [mode EXCEPT ![a] = "borrow"] ELSE mode
    BY <1>0, <1>2 DEF NextSlot, Return, Goto
  <2>2. /\ pc' \in [Actors -> Labels] /\ sig' \in [Actors -> 1 .. 4]
        /\ ret' \in [Actors -> {"idle", "try", "seg", "gone"}]
        /\ mode' \in [Actors -> {"borrow", "peek", "wait"}]
    BY <1>0, <2>1 DEF RingInv, TypeOK, Labels
  <2>3. /\ pc'[a] = ret[a] /\ sig'[a] = 1 /\ OwnOnly(a) /\ ret'[a] = "idle"
        /\ mode'[a] = IF ret[a] = "idle" THEN "borrow" ELSE mode[a]
    BY <2>1 DEF RingInv, TypeOK, OwnOnly
  <2>4. (a \in Users => UserControl(a)') /\ (a \in Runtime => RuntimeControl(a)') /\ ~Live(a)'
    BY <1>0, <2>3, Crew DEF RingInv, Control, UserControl, RuntimeControl, Live
  <2> QED BY <1>0, <1>2, <2>2, <2>3, <2>4
<1> QED BY <1>1, <1>2

(* A step of signal_all only touches slots and tasks. *)
LEMMA SignalFrame ==
    ASSUME RingInv, NEW a \in Actors, OwnOnly(a), TypeOK',
           UNCHANGED <<rp, wp, closed, flight, cells, arg, seg, nw, nr, lastOut>>,
           pc[a] \in {"signal", "wake"}, pc'[a] \in {"signal", "wake", "idle", "gone"},
           pc'[a] \in {"idle", "gone"} => sig'[a] = 1,
           a \in Users => UserControl(a)', a \in Runtime => RuntimeControl(a)',
           \A b \in Actors : slot'[b] => slot[b],
           WakeTaken', WakeDue'
    PROVE  RingInv'
<1>0. ~Live(a) /\ ~Live(a)' /\ ~slot[a] /\ pc'[a] # "seg" /\ pc[a] # "seg"
  BY DEF Live, RingInv, NoDanglingWaiter
<1>1. Control'
  BY ControlFrame DEF RingInv, Closes
<1>2. NoDanglingWaiter'
  BY <1>0, DanglingFrame DEF RingInv
<1>3. SegmentsFit'
  <2>1. SegmentFits(a)'
    BY <1>0 DEF RingInv, SegmentsFit, SegmentFits
  <2> QED BY <2>1, SegmentFrame DEF RingInv
<1>4. OneHolder'
  BY <1>0, HolderFrame DEF RingInv
<1>5. PositionsCount' /\ CellsInOrder' /\ FifoOrder'
  BY DataFrame DEF RingInv
<1>6. FlightMatches'
  BY <1>0, FlightFrame DEF RingInv
<1> QED BY <1>1, <1>2, <1>3, <1>4, <1>5, <1>6 DEF RingInv

(* Every actor has one slot. *)
LEMMA Slots ==
    /\ \A i \in 1 .. 4 : SlotOrder[i] \in Actors
    /\ \A i, j \in 1 .. 4 : SlotOrder[i] = SlotOrder[j] => i = j
    /\ \A b \in Actors : \E i \in 1 .. 4 : SlotOrder[i] = b
    /\ Len(SlotOrder) = 4
<1>1. /\ SlotOrder[1] = "txUser" /\ SlotOrder[2] = "txRt" /\ SlotOrder[3] = "rxUser"
      /\ SlotOrder[4] = "rxRt" /\ Len(SlotOrder) = 4
  BY DEF SlotOrder
<1>2. \A i \in 1 .. 4 : i = 1 \/ i = 2 \/ i = 3 \/ i = 4
  OBVIOUS
<1>3. \A i, j \in 1 .. 4 : SlotOrder[i] = SlotOrder[j] => i = j
  BY <1>1, <1>2
<1> QED BY <1>1, <1>2, <1>3, Crew

(* The visitors other than a are where they were. *)
LEMMA OtherVisitors ==
    ASSUME NEW a \in Actors, OwnOnly(a), NEW b \in Actors
    PROVE  /\ Waking(b) => Waking(b)' \/ (pc[a] = "wake" /\ SlotOrder[sig[a]] = b)
           /\ WillVisit(b) => \/ WillVisit(b)'
                              \/ \E i \in 1 .. 4 : /\ SlotOrder[i] = b
                                                   /\ \/ pc[a] = "signal" /\ sig[a] <= i
                                                      \/ pc[a] = "wake" /\ sig[a] < i
<1>1. ASSUME NEW c \in Actors, c # a, pc[c] = "wake", SlotOrder[sig[c]] = b
      PROVE  Waking(b)'
  <2>1. pc'[c] = "wake" /\ SlotOrder[sig'[c]] = b
    BY <1>1 DEF OwnOnly
  <2> QED BY <2>1 DEF Waking, SlotOrder
<1>2. ASSUME NEW c \in Actors, c # a, NEW i \in 1 .. 4, SlotOrder[i] = b,
             \/ pc[c] = "signal" /\ sig[c] <= i
             \/ pc[c] = "wake" /\ sig[c] < i
      PROVE  WillVisit(b)'
  <2>1. pc'[c] = pc[c] /\ sig'[c] = sig[c]
    BY <1>2 DEF OwnOnly
  <2> QED BY <1>2, <2>1 DEF WillVisit, SlotOrder
<1> QED BY <1>1, <1>2 DEF Waking, WillVisit

(* A slot is looked into. *)
LEMMA SignalStep ==
    ASSUME RingInv, NEW a \in Actors, Signal(a)
    PROVE  RingInv'
<1>0. /\ UNCHANGED <<rp, wp, closed, flight, cells, arg, seg, nw, nr, lastOut, woken>>
      /\ pc[a] = "signal" /\ slot' = [slot EXCEPT ![SlotOrder[sig[a]]] = FALSE]
  BY DEF Signal, word, hist
<1>1. PICK k \in 1 .. 4 : k = sig[a]
  BY DEF RingInv, TypeOK
<1>2. PICK v \in Actors : v = SlotOrder[k]
  BY Slots
<1>3. /\ slot' \in [Actors -> BOOLEAN] /\ ~slot'[v]
      /\ \A b \in Actors : b # v => slot'[b] = slot[b]
  BY <1>0, <1>1, <1>2 DEF RingInv, TypeOK
<1>4. ASSUME NEW b \in Actors PROVE ParkCheck(b)' <=> ParkCheck(b)
  BY <1>0 DEF ParkCheck, Room, Free, Data
<1>5. CASE slot[v]
  <2>1. pc' = [pc EXCEPT ![a] = "wake"] /\ UNCHANGED <<sig, ret, mode>>
    BY <1>1, <1>2, <1>5 DEF Signal, Goto
  <2>2. pc'[a] = "wake" /\ OwnOnly(a) /\ TypeOK'
    BY <1>0, <1>3, <2>1 DEF RingInv, TypeOK, OwnOnly, Labels
  <2>3. (a \in Users => UserControl(a)') /\ (a \in Runtime => RuntimeControl(a)')
    BY <1>0, <2>1, <2>2, Crew DEF RingInv, Control, UserControl, RuntimeControl, Live
  <2>4. Waking(v)'
    <3>1. sig'[a] = k /\ SlotOrder[sig'[a]] = v
      BY <1>1, <1>2, <2>1
    <3> QED BY <2>2, <3>1 DEF Waking, SlotOrder
  <2>5. WakeTaken'
    <3> SUFFICES ASSUME NEW b \in Actors, b # v, b # a, pc[b] \in {"recheck", "parked"},
                        ~woken[b], ~slot[b]
                 PROVE  Waking(b)'
      BY <1>0, <1>3, <2>2, <2>4 DEF WakeTaken, OwnOnly
    <3>1. Waking(b)
      BY DEF RingInv, WakeTaken
    <3> QED BY <1>0, <2>2, <3>1, OtherVisitors
  <2>6. WakeDue'
    <3> SUFFICES ASSUME NEW b \in Actors, b # v, b # a, pc[b] = "parked",
                        ~woken[b], slot[b], ParkCheck(b)
                 PROVE  WillVisit(b)'
      BY <1>0, <1>3, <1>4, <2>2 DEF WakeDue, OwnOnly
    <3>1. WillVisit(b)
      BY DEF RingInv, WakeDue
    <3>2. ASSUME NEW i \in 1 .. 4, SlotOrder[i] = b, sig[a] <= i
          PROVE  WillVisit(b)'
      <4>1. i # k
        BY <1>2, <3>2
      <4>2. sig'[a] < i
        BY <1>1, <2>1, <3>2, <4>1
      <4> QED BY <2>2, <3>2, <4>2 DEF WillVisit, SlotOrder
    <3> QED BY <1>0, <2>2, <3>1, <3>2, OtherVisitors
  <2> QED BY <1>0, <1>3, <2>2, <2>3, <2>5, <2>6, SignalFrame
<1>6. CASE ~slot[v]
  <2>1. NextSlot(a)
    BY <1>1, <1>2, <1>6 DEF Signal
  <2>2. /\ OwnOnly(a) /\ (a \in Users => UserControl(a)') /\ (a \in Runtime => RuntimeControl(a)')
        /\ \/ pc'[a] = "signal" /\ sig[a] < 4 /\ sig'[a] = sig[a] + 1
           \/ pc'[a] \in {"idle", "gone"} /\ sig[a] = 4 /\ sig'[a] = 1
        /\ pc' \in [Actors -> Labels] /\ ret' \in [Actors -> {"idle", "try", "seg", "gone"}]
        /\ mode' \in [Actors -> {"borrow", "peek", "wait"}] /\ sig' \in [Actors -> 1 .. 4]
    BY <1>0, <2>1, NextSlotFacts
  <2>3. TypeOK'
    BY <1>0, <1>3, <2>2 DEF RingInv, TypeOK
  <2>4. \A b \in Actors : slot'[b] <=> slot[b]
    BY <1>3, <1>6
  <2>5. WakeTaken'
    <3> SUFFICES ASSUME NEW b \in Actors, b # a, pc[b] \in {"recheck", "parked"},
                        ~woken[b], ~slot[b]
                 PROVE  Waking(b)'
      BY <1>0, <2>2, <2>4 DEF WakeTaken, OwnOnly
    <3>1. Waking(b)
      BY DEF RingInv, WakeTaken
    <3> QED BY <1>0, <2>2, <3>1, OtherVisitors
  <2>6. WakeDue'
    <3> SUFFICES ASSUME NEW b \in Actors, b # a, pc[b] = "parked",
                        ~woken[b], slot[b], ParkCheck(b)
                 PROVE  WillVisit(b)'
      BY <1>0, <1>4, <2>2, <2>4 DEF WakeDue, OwnOnly
    <3>1. WillVisit(b) /\ b # v
      BY <1>6 DEF RingInv, WakeDue
    <3>2. ASSUME NEW i \in 1 .. 4, SlotOrder[i] = b, sig[a] <= i
          PROVE  WillVisit(b)'
      <4>1. i # k
        BY <1>2, <3>1, <3>2
      <4>2. pc'[a] = "signal" /\ sig'[a] <= i
        BY <1>1, <2>2, <3>2, <4>1
      <4> QED BY <3>2, <4>2 DEF WillVisit, SlotOrder
    <3> QED BY <1>0, <2>2, <3>1, <3>2, OtherVisitors
  <2> QED BY <1>0, <2>2, <2>3, <2>4, <2>5, <2>6, SignalFrame
<1> QED BY <1>5, <1>6

(* The waiter taken out of a slot is woken. *)
LEMMA WakeStep ==
    ASSUME RingInv, NEW a \in Actors, Wake(a)
    PROVE  RingInv'
<1>0. /\ UNCHANGED <<rp, wp, closed, flight, cells, arg, seg, nw, nr, lastOut, slot>>
      /\ pc[a] = "wake" /\ NextSlot(a)
  BY DEF Wake, word, hist
<1>1. PICK k \in 1 .. 4 : k = sig[a]
  BY DEF RingInv, TypeOK
<1>2. PICK v \in Actors : v = SlotOrder[k]
  BY Slots
<1>3. \/ woken' = [woken EXCEPT ![v] = TRUE]
      \/ ~Taken(v) /\ woken' = woken
  BY <1>1, <1>2 DEF Wake
<1>4. /\ woken' \in [Actors -> BOOLEAN] /\ \A b \in Actors : woken[b] => woken'[b]
      /\ woken'[v] \/ ~Taken(v)
  BY <1>3 DEF RingInv, TypeOK
<1>5. ASSUME NEW b \in Actors PROVE ParkCheck(b)' <=> ParkCheck(b)
  BY <1>0 DEF ParkCheck, Room, Free, Data
<1>6. /\ OwnOnly(a) /\ (a \in Users => UserControl(a)') /\ (a \in Runtime => RuntimeControl(a)')
      /\ \/ pc'[a] = "signal" /\ sig[a] < 4 /\ sig'[a] = sig[a] + 1
         \/ pc'[a] \in {"idle", "gone"} /\ sig[a] = 4 /\ sig'[a] = 1
      /\ pc' \in [Actors -> Labels] /\ ret' \in [Actors -> {"idle", "try", "seg", "gone"}]
      /\ mode' \in [Actors -> {"borrow", "peek", "wait"}] /\ sig' \in [Actors -> 1 .. 4]
  BY <1>0, NextSlotFacts
<1>7. TypeOK'
  BY <1>0, <1>4, <1>6 DEF RingInv, TypeOK
<1>8. WakeTaken'
  <2> SUFFICES ASSUME NEW b \in Actors, b # a, pc[b] \in {"recheck", "parked"},
                      ~woken'[b], ~slot[b]
               PROVE  Waking(b)'
    BY <1>0, <1>6 DEF WakeTaken, OwnOnly
  <2>1. Waking(b)
    BY <1>4 DEF RingInv, WakeTaken
  <2>2. b # v
    BY <1>4 DEF Taken
  <2> QED BY <1>1, <1>2, <1>6, <2>1, <2>2, OtherVisitors
<1>9. WakeDue'
  <2> SUFFICES ASSUME NEW b \in Actors, b # a, pc[b] = "parked", ~woken'[b], slot[b], ParkCheck(b)
               PROVE  WillVisit(b)'
    BY <1>0, <1>5, <1>6 DEF WakeDue, OwnOnly
  <2>1. WillVisit(b)
    BY <1>4 DEF RingInv, WakeDue
  <2>2. ASSUME NEW i \in 1 .. 4, SlotOrder[i] = b, sig[a] < i
        PROVE  WillVisit(b)'
    <3>1. pc'[a] = "signal" /\ sig'[a] <= i
      BY <1>1, <1>6, <2>2
    <3> QED BY <2>2, <3>1 DEF WillVisit, SlotOrder
  <2> QED BY <1>0, <1>6, <2>1, <2>2, OtherVisitors
<1> QED BY <1>0, <1>6, <1>7, <1>8, <1>9, SignalFrame

-----------------------------------------------------------------------------
(* The invariant holds throughout. *)

(* A new ring satisfies the invariant. *)
LEMMA RingInitInv == Init => RingInv
<1> SUFFICES ASSUME Init PROVE RingInv
  OBVIOUS
<1>0. Capacity \in Nat /\ Capacity >= 2 /\ 0 \in Cells
  BY CapacityAssumption DEF Cells
<1>1. PICK crew \in Crews : pc = [a \in Actors |-> IF a \in crew THEN "idle" ELSE "gone"]
  BY DEF Init
<1>2. /\ \A a \in Actors : pc[a] \in {"idle", "gone"} /\ ~Live(a) /\ seg[a] = NoSeg /\ ~slot[a]
      /\ \A a \in Actors : seg[a].off = 0 /\ mode[a] = "borrow" /\ sig[a] = 1
  BY <1>1 DEF Init, NoSeg, Live
<1>3. TypeOK
  <2>1. NoSeg \in Segs
    BY <1>0 DEF NoSeg, Segs
  <2>2. seg \in [Actors -> Segs]
    BY <2>1 DEF Init
  <2>3. pc \in [Actors -> Labels]
    BY <1>1 DEF Labels
  <2>4. /\ closed \in [{"tx", "rx"} -> BOOLEAN] /\ flight \in [{"send", "recv"} -> BOOLEAN]
        /\ slot \in [Actors -> BOOLEAN] /\ woken \in [Actors -> BOOLEAN]
    BY DEF Init
  <2>5. cells \in [Cells -> Nat] /\ sig \in [Actors -> 1 .. 4] /\ nw \in Nat /\ nr \in Nat /\ lastOut \in Nat
    BY DEF Init
  <2>6. /\ mode \in [Actors -> {"borrow", "peek", "wait"}] /\ arg \in [Actors -> Demands \cup {All}]
        /\ ret \in [Actors -> {"idle", "try", "seg", "gone"}] /\ rp \in Cells /\ wp \in Cells
    BY <1>0 DEF Init
  <2> QED BY <2>2, <2>3, <2>4, <2>5, <2>6 DEF TypeOK, Segs
<1>4. Control
  BY <1>2 DEF Control, UserControl, RuntimeControl, Actors
<1>5. NoDanglingWaiter /\ SegmentsFit /\ OneHolder
  BY <1>2 DEF NoDanglingWaiter, SegmentsFit, SegmentFits, OneHolder, Actors
<1>6. FlightMatches
  <2>1. \A a \in Runtime : pc[a] # "seg" /\ ~flight[Flag(a)]
    BY <1>2, Crew DEF Init, Actors
  <2> QED BY <2>1 DEF FlightMatches
<1>7. Data = 0 /\ Written = 0 /\ Ahead = 0
  <2>1. Data = 0
    <3>1. /\ DataSize(Place) = Data /\ Place \in Positions /\ WellPlaced(Place) /\ Place.rp = 0 /\ Place.wp = 0
      BY <1>0, Gap DEF Init
    <3>2. Place.rv = FALSE
      BY DEF Place, Init
    <3> QED BY <3>1, <3>2, DataSizeIs
  <2> QED BY <1>2, <2>1 DEF Written, Ahead, Actors, Users, Runtime
<1>8. PositionsCount /\ CellsInOrder /\ FifoOrder
  BY <1>7 DEF Init, PositionsCount, CellsInOrder, FifoOrder, Cells
<1>9. WakeTaken /\ WakeDue
  BY <1>2 DEF WakeTaken, WakeDue
<1> QED BY <1>3, <1>4, <1>5, <1>6, <1>8, <1>9 DEF RingInv

(* Every step keeps the invariant. *)
LEMMA RingStep == RingInv /\ [Next]_vars => RingInv'
<1> SUFFICES ASSUME RingInv, [Next]_vars PROVE RingInv'
  OBVIOUS
<1>1. ASSUME NEW a \in Actors, Internal(a) PROVE RingInv'
  BY <1>1, TryAgainStep, ShortStep, CheckSteps, RegisterStep, PollSteps, DeregisterStep,
     SignalStep, WakeStep DEF Internal
<1>2. ASSUME NEW a \in Actors, External(a) PROVE RingInv'
  <2>1. ASSUME NEW d \in Demands, Try(a, d) \/ StartAsync(a, "borrow", d) PROVE RingInv'
    BY <2>1, TrySteps, StartSteps
  <2>2. ASSUME TryPeek(a) PROVE RingInv'
    BY <2>2, PeekStep
  <2>3. ASSUME StartAsync(a, "peek", All) \/ Wait(a) PROVE RingInv'
    BY <2>3, StartSteps
  <2>4. ASSUME TakeIovecs(a) \/ MoveItem(a) \/ Commit(a) \/ PutBack(a) PROVE RingInv'
    BY <2>4, TakeIovecsStep, MoveItemStep, CommitSteps
  <2>5. ASSUME DropPeek(a) PROVE RingInv'
    <3>1. a \in Users
      BY <2>5, Crew DEF DropPeek, RingInv, Control, RuntimeControl
    <3> QED BY <2>5, <3>1, DropPeekStep
  <2>6. ASSUME NEW e \in {"tx", "rx"}, Close(a, e) PROVE RingInv'
    BY <2>6, CloseStep DEF Close
  <2>7. ASSUME DropHalf(a) PROVE RingInv'
    <3>1. PICK e \in {"tx", "rx"} : e = IF a = "txUser" THEN "tx" ELSE "rx"
      OBVIOUS
    <3>2. CASE closed' = [closed EXCEPT ![e] = TRUE] /\ SignalAll(a, "gone")
      BY <2>7, <3>2, CloseStep DEF DropHalf
    <3>3. CASE Goto(a, "gone") /\ UNCHANGED <<closed, ret>>
      BY <2>7, <3>3, GoneStep DEF DropHalf
    <3> QED BY <2>7, <3>1, <3>2, <3>3 DEF DropHalf
  <2>8. ASSUME Repoll(a) \/ DropFuture(a) PROVE RingInv'
    BY <2>8, PollSteps, CheckSteps
  <2> QED BY <1>2, <2>1, <2>2, <2>3, <2>4, <2>5, <2>6, <2>7, <2>8 DEF External
<1>3. CASE UNCHANGED vars
  <2>1. UNCHANGED <<rp, wp, closed, flight, slot, cells, pc, mode, arg, ret, seg, sig, woken, nw, nr, lastOut>>
    BY <1>3 DEF vars
  <2>2. TypeOK' /\ NoDanglingWaiter' /\ FlightMatches' /\ PositionsCount' /\ CellsInOrder' /\ FifoOrder'
    BY <2>1 DEF RingInv, TypeOK, NoDanglingWaiter, FlightMatches, PositionsCount, CellsInOrder,
                FifoOrder, Written, Ahead, Data
  <2>3. Control' /\ OneHolder'
    BY <2>1 DEF RingInv, Control, UserControl, RuntimeControl, OneHolder, Live
  <2>4. SegmentsFit'
    BY <2>1 DEF RingInv, SegmentsFit, SegmentFits, Live, Start, Room, Free, Data
  <2>5. WakeTaken' /\ WakeDue'
    BY <2>1 DEF RingInv, WakeTaken, WakeDue, Waking, WillVisit, SlotOrder, ParkCheck, Room, Free, Data
  <2> QED BY <2>2, <2>3, <2>4, <2>5 DEF RingInv
<1> QED BY <1>1, <1>2, <1>3 DEF Next

-----------------------------------------------------------------------------
(* Theorems *)

(* Every reachable state of the ring satisfies the inductive invariant, under
   any interleaving of the users and the runtime. *)
THEOREM RingInvariance == Spec => []RingInv
BY RingInitInv, RingStep, PTL DEF Spec

(* The two indices of the state word always say how many items are in the
   ring: it never looks empty when it is full. *)
THEOREM RingPositionsCount == Spec => []PositionsCount
<1>1. RingInv => PositionsCount
  BY DEF RingInv
<1> QED BY <1>1, RingInvariance, PTL

(* Items leave the ring in the order in which they entered it, whether a user
   half or a kernel call moves them. *)
THEOREM RingFifo == Spec => []FifoOrder
<1>1. RingInv => FifoOrder
  BY DEF RingInv
<1> QED BY <1>1, RingInvariance, PTL

(* A region is marked in flight exactly while the runtime holds it. *)
THEOREM FlightAlwaysMatches == Spec => []FlightMatches
<1>1. RingInv => FlightMatches
  BY DEF RingInv
<1> QED BY <1>1, RingInvariance, PTL

(* No future that has ended leaves its waiter in a slot. *)
THEOREM NeverDangling == Spec => []NoDanglingWaiter
<1>1. RingInv => NoDanglingWaiter
  BY DEF RingInv
<1> QED BY <1>1, RingInvariance, PTL

(* Borrowed and reserved regions never share a cell: the gap and the in-flight
   flags keep the four actors apart. *)
THEOREM RegionsNeverOverlap == Spec => []NoOverlap
<1>1. RingInv => NoOverlap
  <2> SUFFICES ASSUME RingInv, NEW a \in Actors, NEW b \in Actors, a # b
               PROVE  Region(seg[a].start, seg[a].len)
                        \cap Region(seg[b].start, seg[b].len) = {}
    BY DEF NoOverlap
  <2>1. ASSUME NEW c \in Actors, ~Live(c) PROVE Region(seg[c].start, seg[c].len) = {}
    <3>1. seg[c].len = 0
      BY <2>1 DEF RingInv, SegmentsFit, SegmentFits, NoSeg
    <3>2. Region(seg[c].start, 0) = {}
      BY DEF Region
    <3> QED BY <3>1, <3>2
  <2>2. /\ Place \in Positions /\ WellPlaced(Place) /\ Place.rp = rp /\ Place.wp = wp
        /\ DataSize(Place) = Data /\ FreeSize(Place) = Free + 1 /\ Free \in Nat /\ Data \in Nat
    BY Gap DEF RingInv, TypeOK
  <2>3. ASSUME NEW c \in Actors, NEW d \in Actors, c \in Writers, d \in Readers, Live(c), Live(d)
        PROVE  Region(seg[c].start, seg[c].len) \cap Region(seg[d].start, seg[d].len) = {}
    <3>1. /\ seg[c].len \in Nat /\ seg[c].len <= Free /\ seg[c].start = wp
      BY <2>3, SoleHolder, CapacityAssumption DEF Room, Start
    <3>2. /\ seg[d].len \in Nat /\ seg[d].len <= Data /\ seg[d].start = rp
      BY <2>3, SoleHolder, Crew, CapacityAssumption DEF Room, Start
    <3>3. seg[c].len <= FreeSize(Place) /\ seg[d].len <= DataSize(Place)
      BY <2>2, <3>1, <3>2
    <3> QED BY <2>2, <3>1, <3>2, <3>3, RegionsDisjoint
  <2>4. CASE Live(a) /\ Live(b)
    <3>1. b # Mate(a)
      <4>1. CASE a \in Users
        BY <2>4, <4>1, Crew DEF RingInv, OneHolder, Control, RuntimeControl, Live
      <4>2. CASE a \in Runtime
        <5>1. b = Mate(a) => b \in Users /\ Mate(b) = a
          BY <4>2, Crew
        <5> QED BY <2>4, <4>2, <5>1 DEF RingInv, OneHolder, Control, RuntimeControl, Live
      <4> QED BY <4>1, <4>2, Crew
    <3>2. (a \in Writers /\ b \in Readers) \/ (a \in Readers /\ b \in Writers)
      BY <3>1, Crew
    <3>3. CASE a \in Writers /\ b \in Readers
      BY <2>3, <2>4, <3>3
    <3>4. CASE a \in Readers /\ b \in Writers
      BY <2>3, <2>4, <3>4
    <3> QED BY <3>2, <3>3, <3>4
  <2>5. CASE ~Live(a) \/ ~Live(b)
    BY <2>1, <2>5
  <2> QED BY <2>4, <2>5
<1> QED BY <1>1, RingInvariance, PTL

(* No wake-up is lost: whoever is parked although it could go on has been
   woken, or a signal_all is still to reach it. *)
THEOREM RingWakeupNeverLost == Spec => []NoLostWakeup
<1>1. RingInv => NoLostWakeup
  <2> SUFFICES ASSUME RingInv, NEW b \in Actors,
                      pc[b] = "parked", ~woken[b], ParkCheck(b)
               PROVE  Coming(b)
    BY DEF NoLostWakeup
  <2>0. \A a \in Actors : sig[a] \in 1 .. 4
    BY DEF RingInv, TypeOK
  <2>1. CASE slot[b]
    <3>1. PICK a \in Actors, i \in 1 .. 4 :
            /\ SlotOrder[i] = b
            /\ \/ pc[a] = "signal" /\ sig[a] <= i
               \/ pc[a] = "wake" /\ sig[a] < i
      BY <2>1 DEF RingInv, WakeDue, WillVisit
    <3>2. pc[a] \in {"signal", "wake"} /\ i \in sig[a] .. Len(SlotOrder)
      BY <2>0, <3>1, Slots
    <3> QED BY <3>1, <3>2 DEF Coming
  <2>2. CASE ~slot[b]
    <3>1. PICK a \in Actors : pc[a] = "wake" /\ SlotOrder[sig[a]] = b
      BY <2>2 DEF RingInv, WakeTaken, Waking
    <3>2. pc[a] \in {"signal", "wake"} /\ sig[a] \in sig[a] .. Len(SlotOrder)
      BY <2>0, <3>1, Slots
    <3> QED BY <3>1, <3>2 DEF Coming
  <2> QED BY <2>1, <2>2
<1> QED BY <1>1, RingInvariance, PTL

-----------------------------------------------------------------------------
(* Refinement *)

(* What the ring holds, as a function of the two counts alone. *)
LEMMA RingContents ==
    ASSUME RingInv
    PROVE  /\ Contents = [i \in 1 .. nw - nr |-> nr + i]
           /\ nw \in Nat /\ nr \in Nat /\ nw - nr \in 0 .. Capacity - 1
<1>1. Data = nw - nr /\ Data \in 0 .. Capacity - 1 /\ Capacity \in Nat
  BY Gap DEF RingInv, TypeOK, PositionsCount
<1>2. nw \in Nat /\ nr \in Nat /\ Written \in Nat
  BY WrittenFits DEF RingInv, TypeOK
<1>3. ASSUME NEW i \in 1 .. nw - nr
      PROVE  cells[CellAt(rp, i - 1)] = nr + i
  <2>1. i - 1 \in Cells /\ i - 1 < Data + Written
    BY <1>1, <1>2 DEF Cells
  <2>2. cells[CellAt(rp, i - 1)] = nr + (i - 1) + 1
    BY <2>1 DEF RingInv, CellsInOrder
  <2> QED BY <1>2, <2>2
<1> QED BY <1>1, <1>2, <1>3 DEF Contents

(* Only dropping a segment and putting a reservation back change the two
   counts, and by what was moved. *)
LEMMA OnlyAdvanceCounts ==
    ASSUME RingInv, [Next]_vars
    PROVE  \/ UNCHANGED <<nw, nr>>
           \/ \E n \in Nat : n <= Capacity - 1 - (nw - nr) /\ nw' = nw + n /\ nr' = nr
           \/ \E n \in Nat : n <= nw - nr /\ nr' = nr + n /\ nw' = nw
<1>1. ASSUME NEW a \in Actors, Commit(a) \/ PutBack(a)
      PROVE  \/ \E n \in Nat : n <= Capacity - 1 - (nw - nr) /\ nw' = nw + n /\ nr' = nr
             \/ \E n \in Nat : n <= nw - nr /\ nr' = nr + n /\ nw' = nw
  <2>1. Live(a) /\ Advance(a, seg[a].off)
    BY <1>1 DEF Commit, PutBack, Live
  <2>2. /\ seg[a].off \in Nat /\ seg[a].len \in 0 .. Capacity
        /\ seg[a].off <= seg[a].len /\ seg[a].len <= Room(a)
    BY <2>1, SoleHolder
  <2>3. /\ Room(a) = IF a \in Writers THEN Capacity - 1 - (nw - nr) ELSE nw - nr
        /\ Room(a) \in 0 .. Capacity - 1 /\ Capacity \in Nat
    BY RoomType, CapacityAssumption DEF Room, Free, RingInv, PositionsCount, TypeOK
  <2>4. seg[a].off <= Room(a)
    BY <2>2, <2>3
  <2>5. CASE a \in Writers
    BY <2>1, <2>2, <2>3, <2>4, <2>5, Crew DEF Advance
  <2>6. CASE a \notin Writers
    BY <2>1, <2>2, <2>3, <2>4, <2>6, Crew DEF Advance
  <2> QED BY <2>5, <2>6
<1>2. ASSUME NEW a \in Actors, Internal(a) PROVE UNCHANGED <<nw, nr>>
  BY <1>2 DEF Internal, TryAgain, Short, Blocked, Check, Register, Recheck, Resume,
     Deregister, Signal, Wake, hist
<1>3. ASSUME NEW a \in Actors, External(a), ~Commit(a), ~PutBack(a) PROVE UNCHANGED <<nw, nr>>
  BY <1>3 DEF External, Try, TryPeek, StartAsync, Wait, TakeIovecs, MoveItem, DropPeek,
     Close, DropHalf, Repoll, DropFuture, hist
<1> QED BY <1>1, <1>2, <1>3 DEF Next, vars

(* The ring implements the bounded first-in first-out queue of one item less
   than it has cells. *)
THEOREM RingImplementsFifo == Spec => FifoSpec
<1>1. Init => Fifo!Init
  <2> SUFFICES ASSUME Init PROVE Contents = << >> /\ nw = 0
    BY DEF Fifo!Init
  <2>1. RingInv /\ nw = 0 /\ nr = 0
    BY RingInitInv DEF Init
  <2> QED BY <2>1, RingContents
<1> DEFINE C == /\ Contents = [i \in 1 .. nw - nr |-> nr + i]
                /\ nw \in Nat /\ nr \in Nat /\ nw - nr \in 0 .. Capacity - 1
<1>2. RingInv => C
  BY RingContents
<1>3. RingInv' => C'
  <2> HIDE DEF C
  <2> QED BY <1>2, PTL
<1>4. RingInv /\ RingInv' /\ [Next]_vars => [Fifo!Next]_<<Contents, nw>>
  <2> SUFFICES ASSUME RingInv, RingInv', [Next]_vars
               PROVE  Fifo!Next \/ UNCHANGED <<Contents, nw>>
    OBVIOUS
  <2>0. Len(Contents) = nw - nr
    BY <1>2
  <2>1. CASE UNCHANGED <<nw, nr>>
    BY <1>2, <1>3, <2>1
  <2>2. ASSUME NEW n \in Nat, n <= Capacity - 1 - (nw - nr), nw' = nw + n, nr' = nr
        PROVE  Fifo!Next \/ UNCHANGED <<Contents, nw>>
    <3>1. CASE n = 0
      BY <1>2, <2>1, <2>2, <3>1
    <3>2. CASE n # 0
      <4>1. nw' - nr' = (nw - nr) + n /\ nr + (nw - nr) = nw
        BY <1>2, <2>2
      <4>2. Contents' = Contents \o [i \in 1 .. n |-> nw + i]
        <5>1. [i \in 1 .. (nw - nr) + n |-> nr + i]
                = [i \in 1 .. nw - nr |-> nr + i]
                    \o [i \in 1 .. n |-> (nr + (nw - nr)) + i]
          <6>1. nr \in Nat /\ nw - nr \in Nat /\ n \in Nat
            BY <1>2, CapacityAssumption
          <6> QED BY <6>1, BatchAppend
        <5> QED BY <1>2, <1>3, <2>2, <4>1, <5>1
      <4>3. n \in 1 .. Capacity - 1 /\ Fifo!Put(n)
        BY <1>2, <2>0, <2>2, <3>2, <4>2, CapacityAssumption DEF Fifo!Put
      <4> QED BY <4>3 DEF Fifo!Next
    <3> QED BY <3>1, <3>2
  <2>3. ASSUME NEW n \in Nat, n <= nw - nr, nr' = nr + n, nw' = nw
        PROVE  Fifo!Next \/ UNCHANGED <<Contents, nw>>
    <3>1. CASE n = 0
      BY <1>2, <2>1, <2>3, <3>1
    <3>2. CASE n # 0
      <4>1. nw' - nr' = (nw - nr) - n /\ n \in 0 .. nw - nr
        BY <1>2, <2>3
      <4>2. Contents' = SubSeq(Contents, n + 1, nw - nr)
        BY <1>2, <1>3, <2>3, <4>1, BatchRemove, SMTT(60)
      <4>3. n \in 1 .. Capacity - 1 /\ Fifo!Get(n)
        BY <1>2, <2>0, <2>3, <3>2, <4>2, CapacityAssumption DEF Fifo!Get
      <4> QED BY <4>3 DEF Fifo!Next
    <3> QED BY <3>1, <3>2
  <2> QED BY <2>1, <2>2, <2>3, OnlyAdvanceCounts
<1> QED BY <1>1, <1>4, RingInvariance, PTL DEF Spec, FifoSpec, Fifo!Spec


=============================================================================
