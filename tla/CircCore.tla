------------------------------ MODULE CircCore ------------------------------
(***************************************************************************)
(* The circular buffer core with two passive ends: CircCore<BufProducer,   *)
(* BufConsumer> of crates/buffex/src/circular_buff, driven by its Producer *)
(* half ("tx") and its Consumer half ("rx").                               *)
(*                                                                         *)
(* Each half is owned by one task and every operation borrows it mutably,  *)
(* so a half runs one operation at a time; the two tasks interleave at     *)
(* every access to shared memory.  The shared memory is                    *)
(*   pos, closed, stndby   the state word atm_stat_ (one atomic word: a    *)
(*                         load sees, and a CAS updates, all of it)        *)
(*   demand                the AtomexPtr each passive end publishes        *)
(*   slot                  the WakeSlot of each end (TRUE: a waiter is     *)
(*                         registered)                                     *)
(*   cells                 the element buffer                              *)
(* The code of the two ends is mirror-symmetric; the actions below take    *)
(* the side s as a parameter and Peer(s) is the other half.                *)
(***************************************************************************)
EXTENDS IoPos

CONSTANTS Demands,      \* the demands callers pass: [min, max] records
          None,         \* the null demand pointer
          MaxItems      \* bound: number of items the producer ever moves in

ASSUME DemandsAssumption ==
    /\ Demands \subseteq [min : Nat, max : Nat \ {0}]
    /\ None \notin Demands

ASSUME MaxItemsAssumption == MaxItems \in Nat

Sides == {"tx", "rx"}
Peer(s) == IF s = "tx" THEN "rx" ELSE "tx"

VARIABLES
    pos, closed, stndby,    \* the state word
    demand, slot,           \* published demand, wake slot of each end
    cells,                  \* contents of the buffer
    pc, arg, ret,           \* per half: step, caller's demand, what follows
                            \*   the guard's drop
    seg,                    \* per half: borrowed segment [start, len, off]
    ev, dm,                 \* per half: event being fired, demand it loaded
    woken,                  \* per half: its task has been woken
    nw, nr, lastOut         \* history: items committed in and out, and the
                            \*   last item moved out of a read segment

word == <<pos, closed, stndby>>
hist == <<nw, nr, lastOut>>
vars == <<pos, closed, stndby, demand, slot, cells, pc, arg, ret, seg, ev,
          dm, woken, nw, nr, lastOut>>

NoSeg == [start |-> 0, len |-> 0, off |-> 0]
NoEv  == [close |-> FALSE, room |-> 0]

Init ==
    /\ pos = StartPos
    /\ closed = [s \in Sides |-> FALSE]
    /\ stndby = [s \in Sides |-> FALSE]
    /\ demand = [s \in Sides |-> None]
    /\ slot = [s \in Sides |-> FALSE]
    /\ cells = [c \in Cells |-> 0]
    /\ pc = [s \in Sides |-> "idle"]
    /\ arg = [s \in Sides |-> None]
    /\ ret = [s \in Sides |-> "idle"]
    /\ seg = [s \in Sides |-> NoSeg]
    /\ ev = [s \in Sides |-> NoEv]
    /\ dm = [s \in Sides |-> None]
    /\ woken = [s \in Sides |-> FALSE]
    /\ nw = 0 /\ nr = 0 /\ lastOut = 0

Goto(s, l) == pc' = [pc EXCEPT ![s] = l]

-----------------------------------------------------------------------------
(* Lending a region: try_write_at and try_read_at, each one load of the     *)
(* state word.                                                              *)

Room(s) == IF s = "tx" THEN FreeSize(pos) ELSE DataSize(pos)

(* The flags that turn "not now" into Closing: a writer looks at TX_CLOSED
   only, a reader at both. *)
Ended(s) == closed["tx"] \/ (s = "rx" /\ closed["rx"])

(* A reader at end of stream is lent less than its minimum. *)
CanLend(s, d) ==
    /\ Room(s) > 0
    /\ Room(s) >= d.min \/ (s = "rx" /\ Ended(s))

(* A slip: the demand's maximum lent without looking at the room. *)
TakeMax(s, d) == d.max

Take(s, d) == IF d.max < Room(s) THEN d.max ELSE Room(s)

Lend(s, d) ==
    /\ seg' = [seg EXCEPT ![s] =
                 [start |-> IF s = "tx" THEN pos.wp ELSE pos.rp,
                  len |-> Take(s, d), off |-> 0]]
    /\ Goto(s, "seg")

(* The stop condition of the waiting futures: the try would not be repeated. *)
CanStop(s) == CanLend(s, arg[s]) \/ Ended(s)

-----------------------------------------------------------------------------
(* try_write / try_read: a failing try changes nothing (with two passive   *)
(* ends the pumps between its two attempts do nothing).                    *)
Try(s, d) ==
    /\ pc[s] = "idle"
    /\ CanLend(s, d)
    /\ Lend(s, d)
    /\ UNCHANGED <<word, demand, slot, cells, arg, ret, ev, dm, woken, hist>>

(* write_async / read_async: create and first poll the future. *)
StartAsync(s, d) ==
    /\ pc[s] = "idle"
    /\ arg' = [arg EXCEPT ![s] = d]
    /\ Goto(s, "try")
    /\ UNCHANGED <<word, demand, slot, cells, ret, seg, ev, dm, woken, hist>>

(* Head of the future's loop. *)
TryAgain(s) ==
    /\ pc[s] = "try"
    /\ \/ CanLend(s, arg[s]) /\ Lend(s, arg[s])
       \/ ~CanLend(s, arg[s]) /\ Ended(s) /\ Goto(s, "idle") /\ UNCHANGED seg
       \/ ~CanStop(s) /\ Goto(s, "demand") /\ UNCHANGED seg
    /\ UNCHANGED <<word, demand, slot, cells, arg, ret, ev, dm, woken, hist>>

(* try_set_demand (a CAS from null; its failure is unreachable!()). *)
SetDemand(s) ==
    /\ pc[s] = "demand"
    /\ demand[s] = None
    /\ demand' = [demand EXCEPT ![s] = arg[s]]
    /\ Goto(s, "arm")
    /\ UNCHANGED <<word, slot, cells, arg, ret, seg, ev, dm, woken, hist>>

(* set_tx_standby / set_rx_standby. *)
Arm(s) ==
    /\ pc[s] = "arm"
    /\ stndby' = [stndby EXCEPT ![s] = TRUE]
    /\ Goto(s, "poll")
    /\ UNCHANGED <<pos, closed, demand, slot, cells, arg, ret, seg, ev, dm,
                   woken, hist>>

(* A poll of the parked future: the first check of its closure. *)
Poll(s) ==
    /\ pc[s] = "poll"
    /\ IF CanStop(s)
       THEN Goto(s, "dereg") /\ ret' = [ret EXCEPT ![s] = "try"]
       ELSE Goto(s, "reg") /\ UNCHANGED ret
    /\ UNCHANGED <<word, demand, slot, cells, arg, seg, ev, dm, woken, hist>>

(* WakeSlot::register. *)
Register(s) ==
    /\ pc[s] = "reg"
    /\ slot' = [slot EXCEPT ![s] = TRUE]
    /\ Goto(s, "recheck")
    /\ UNCHANGED <<word, demand, cells, arg, ret, seg, ev, dm, woken, hist>>

(* A slip: parking without the second check. *)
RecheckSkipped(s) ==
    /\ pc[s] = "recheck"
    /\ Goto(s, "parked")
    /\ UNCHANGED <<word, demand, slot, cells, arg, ret, seg, ev, dm, woken,
                   hist>>

(* The second check, after registering; then ok_or polls the cancellation
   token, which may have fired, and the task parks if neither is ready. *)
Recheck(s) ==
    /\ pc[s] = "recheck"
    /\ \/ CanStop(s) /\ Goto(s, "dereg") /\ ret' = [ret EXCEPT ![s] = "try"]
       \/ ~CanStop(s) /\ Goto(s, "dereg") /\ ret' = [ret EXCEPT ![s] = "idle"]
       \/ ~CanStop(s) /\ Goto(s, "parked") /\ UNCHANGED ret
    /\ UNCHANGED <<word, demand, slot, cells, arg, seg, ev, dm, woken, hist>>

(* The executor polls a task that was woken. *)
Resume(s) ==
    /\ pc[s] = "parked" /\ woken[s]
    /\ woken' = [woken EXCEPT ![s] = FALSE]
    /\ Goto(s, "poll")
    /\ UNCHANGED <<word, demand, slot, cells, arg, ret, seg, ev, dm, hist>>

(* A poll nobody on the other half asked for: the cancellation token woke
   the task, or the executor polls it for a reason of its own. *)
Repoll(s) ==
    /\ pc[s] = "parked" /\ ~woken[s]
    /\ Goto(s, "poll")
    /\ UNCHANGED <<word, demand, slot, cells, arg, ret, seg, ev, dm, woken,
                   hist>>

(* The caller drops the parked future. *)
DropFuture(s) ==
    /\ pc[s] = "parked"
    /\ Goto(s, "dereg")
    /\ ret' = [ret EXCEPT ![s] = "idle"]
    /\ UNCHANGED <<word, demand, slot, cells, arg, seg, ev, dm, woken, hist>>

(* WaitGuard::drop in its three steps: deregister, unarm, reset the demand. *)
Deregister(s) ==
    /\ pc[s] = "dereg"
    /\ slot' = [slot EXCEPT ![s] = FALSE]
    /\ Goto(s, "unarm")
    /\ UNCHANGED <<word, demand, cells, arg, ret, seg, ev, dm, woken, hist>>

(* A slip: the flag left set. *)
UnarmForgotten(s) ==
    /\ pc[s] = "unarm"
    /\ Goto(s, "reset")
    /\ UNCHANGED <<word, demand, slot, cells, arg, ret, seg, ev, dm, woken,
                   hist>>

Unarm(s) ==
    /\ pc[s] = "unarm"
    /\ stndby' = [stndby EXCEPT ![s] = FALSE]
    /\ Goto(s, "reset")
    /\ UNCHANGED <<pos, closed, demand, slot, cells, arg, ret, seg, ev, dm,
                   woken, hist>>

(* A slip: the demand left published. *)
ResetDemandForgotten(s) ==
    /\ pc[s] = "reset"
    /\ Goto(s, ret[s])
    /\ UNCHANGED <<word, demand, slot, cells, arg, ret, seg, ev, dm, woken,
                   hist>>

ResetDemand(s) ==
    /\ pc[s] = "reset"
    /\ demand' = [demand EXCEPT ![s] = None]
    /\ Goto(s, ret[s])
    /\ UNCHANGED <<word, slot, cells, arg, ret, seg, ev, dm, woken, hist>>

-----------------------------------------------------------------------------
(* Using a segment.  The writer moves its next item into the next cell, the *)
(* reader moves the item of the next cell out.                              *)
MoveItem(s) ==
    /\ pc[s] = "seg"
    /\ seg[s].off < seg[s].len
    /\ LET c == CellAt(seg[s].start, seg[s].off) IN
         \/ /\ s = "tx"
            /\ nw + seg[s].off < MaxItems
            /\ cells' = [cells EXCEPT ![c] = nw + seg[s].off + 1]
            /\ UNCHANGED lastOut
         \/ /\ s = "rx"
            /\ lastOut' = cells[c]
            /\ UNCHANGED cells
    /\ seg' = [seg EXCEPT ![s] = [start |-> @.start, len |-> @.len,
                                  off |-> @.off + 1]]
    /\ UNCHANGED <<word, demand, slot, pc, arg, ret, ev, dm, woken, nw, nr>>

(* A slip: the whole segment committed, moved or not. *)
CommitWhole(s) ==
    /\ pc[s] = "seg"
    /\ pos' = IF s = "tx" THEN AdvanceWp(pos, seg[s].len)
                          ELSE AdvanceRp(pos, seg[s].len)
    /\ nw' = IF s = "tx" THEN nw + seg[s].len ELSE nw
    /\ nr' = IF s = "rx" THEN nr + seg[s].len ELSE nr
    /\ seg' = [seg EXCEPT ![s] = NoSeg]
    /\ Goto(s, "event")
    /\ UNCHANGED <<closed, stndby, demand, slot, cells, arg, ret, ev, dm,
                   woken, lastOut>>

(* The segment is dropped: advance_write / advance_read of what was moved. *)
Commit(s) ==
    /\ pc[s] = "seg"
    /\ \/ /\ s = "tx"
          /\ pos' = AdvanceWp(pos, seg[s].off)
          /\ nw' = nw + seg[s].off
          /\ UNCHANGED nr
       \/ /\ s = "rx"
          /\ pos' = AdvanceRp(pos, seg[s].off)
          /\ nr' = nr + seg[s].off
          /\ UNCHANGED nw
    /\ seg' = [seg EXCEPT ![s] = NoSeg]
    /\ Goto(s, "event")
    /\ UNCHANGED <<closed, stndby, demand, slot, cells, arg, ret, ev, dm,
                   woken, lastOut>>

(* Producer::close / Consumer::close_async: set the flag, then fire. *)
Close(s) ==
    /\ pc[s] = "idle"
    /\ closed' = [closed EXCEPT ![s] = TRUE]
    /\ Goto(s, "event")
    /\ UNCHANGED <<pos, stndby, demand, slot, cells, arg, ret, seg, ev, dm,
                   woken, hist>>

(* Dropping a half does not close its side. *)
DropHalf(s) ==
    /\ pc[s] = "idle"
    /\ stndby' = [stndby EXCEPT ![s] = FALSE]
    /\ demand' = [demand EXCEPT ![s] = None]
    /\ Goto(s, "gone")
    /\ UNCHANGED <<pos, closed, slot, cells, arg, ret, seg, ev, dm, woken,
                   hist>>

-----------------------------------------------------------------------------
(* fire_consumer / fire_producer: wake the peer if what just happened is    *)
(* what it waits for.                                                       *)

(* The event is built first.  The half's own closed flag is written by this
   task only, so reading it and the size is one step. *)
BuildEvent(s) ==
    /\ pc[s] = "event"
    /\ ev' = [ev EXCEPT ![s] = [close |-> closed[s], room |-> Room(Peer(s))]]
    /\ Goto(s, "gate")
    /\ UNCHANGED <<word, demand, slot, cells, arg, ret, seg, dm, woken, hist>>

(* The armed gate.  The event is forgotten once it has been used. *)
Gate(s) ==
    /\ pc[s] = "gate"
    /\ IF stndby[Peer(s)]
       THEN Goto(s, "check") /\ UNCHANGED ev
       ELSE Goto(s, "idle") /\ ev' = [ev EXCEPT ![s] = NoEv]
    /\ UNCHANGED <<word, demand, slot, cells, arg, ret, seg, dm, woken, hist>>

(* BufProducer::check / BufConsumer::check: a close event returns at once;
   otherwise load the published demand pointer. *)
Check(s) ==
    /\ pc[s] = "check"
    /\ IF ev[s].close \/ ev[s].room = 0 \/ demand[Peer(s)] = None
       THEN Goto(s, "idle") /\ ev' = [ev EXCEPT ![s] = NoEv] /\ UNCHANGED dm
       ELSE /\ Goto(s, "deref") /\ UNCHANGED ev
            /\ dm' = [dm EXCEPT ![s] = demand[Peer(s)]]
    /\ UNCHANGED <<word, demand, slot, cells, arg, ret, seg, woken, hist>>

(* A slip: more than the minimum asked for. *)
DerefStrict(s) ==
    /\ pc[s] = "deref"
    /\ \E d \in IF demand[Peer(s)] = dm[s] THEN {dm[s]} ELSE Demands :
         Goto(s, IF ev[s].room > d.min THEN "signal" ELSE "idle")
    /\ dm' = [dm EXCEPT ![s] = None]
    /\ ev' = [ev EXCEPT ![s] = NoEv]
    /\ UNCHANGED <<word, demand, slot, cells, arg, ret, seg, woken, hist>>

(* Read the demand through the pointer.  If the waiter has withdrawn it in
   the meantime the memory is no longer its own and any demand may be read. *)
Deref(s) ==
    /\ pc[s] = "deref"
    /\ \E d \in IF demand[Peer(s)] = dm[s] THEN {dm[s]} ELSE Demands :
         Goto(s, IF ev[s].room >= d.min THEN "signal" ELSE "idle")
    /\ dm' = [dm EXCEPT ![s] = None]
    /\ ev' = [ev EXCEPT ![s] = NoEv]
    /\ UNCHANGED <<word, demand, slot, cells, arg, ret, seg, woken, hist>>

(* A slip: the slot emptied and the waiter not woken. *)
SignalOnlyClears(s) ==
    /\ pc[s] = "signal"
    /\ slot' = [slot EXCEPT ![Peer(s)] = FALSE]
    /\ Goto(s, "idle")
    /\ UNCHANGED <<word, demand, cells, arg, ret, seg, ev, dm, woken, hist>>

(* WakeSlot::signal: swap the slot with null ... *)
Signal(s) ==
    /\ pc[s] = "signal"
    /\ slot' = [slot EXCEPT ![Peer(s)] = FALSE]
    /\ Goto(s, IF slot[Peer(s)] THEN "wake" ELSE "idle")
    /\ UNCHANGED <<word, demand, cells, arg, ret, seg, ev, dm, woken, hist>>

(* The waiter taken out of the slot is certainly the one s sleeps on.  In any
   other case s may have dropped it, or be writing its waker, while the peer
   reads it. *)
WaiterTaken(s) == pc[s] \in {"recheck", "parked"} /\ ~slot[s]

(* ... and wake through the waiter it held.  Where that read is undefined the
   task may or may not be woken. *)
Wake(s) ==
    /\ pc[s] = "wake"
    /\ \/ woken' = [woken EXCEPT ![Peer(s)] = TRUE]
       \/ ~WaiterTaken(Peer(s)) /\ UNCHANGED woken
    /\ Goto(s, "idle")
    /\ UNCHANGED <<word, demand, slot, cells, arg, ret, seg, ev, dm, hist>>

-----------------------------------------------------------------------------
Fire(s) == BuildEvent(s) \/ Gate(s) \/ Check(s) \/ Deref(s) \/ Signal(s)
           \/ Wake(s)

GuardDrop(s) == Deregister(s) \/ Unarm(s) \/ ResetDemand(s)

(* What the task does by itself once its caller has started an operation. *)
Internal(s) ==
    \/ TryAgain(s) \/ SetDemand(s) \/ Arm(s) \/ Poll(s) \/ Register(s)
    \/ Recheck(s) \/ Resume(s) \/ GuardDrop(s) \/ Fire(s)

(* What the caller of the half decides. *)
External(s) ==
    \/ \E d \in Demands : Try(s, d) \/ StartAsync(s, d)
    \/ MoveItem(s) \/ Commit(s) \/ Close(s) \/ DropHalf(s)
    \/ Repoll(s) \/ DropFuture(s)

Next == \E s \in Sides : Internal(s) \/ External(s)

Spec == Init /\ [][Next]_vars

(* Every started step of a half is eventually taken: the operations are
   straight-line code, and an executor polls a woken task.  Nothing is
   assumed of the callers. *)
FairSpec == Spec /\ \A s \in Sides : WF_vars(Internal(s))

-----------------------------------------------------------------------------
(* Properties *)

Labels == {"idle", "try", "demand", "arm", "poll", "reg", "recheck", "parked",
           "dereg", "unarm", "reset", "seg", "event", "gate", "check",
           "deref", "signal", "wake", "gone"}

(* Type invariant. *)
TypeOK ==
    /\ pos \in Positions
    /\ closed \in [Sides -> BOOLEAN]
    /\ stndby \in [Sides -> BOOLEAN]
    /\ demand \in [Sides -> Demands \cup {None}]
    /\ slot \in [Sides -> BOOLEAN]
    /\ cells \in [Cells -> Nat]
    /\ pc \in [Sides -> Labels]
    /\ arg \in [Sides -> Demands \cup {None}]
    /\ ret \in [Sides -> {"idle", "try"}]
    /\ seg \in [Sides -> [start : Cells, len : 0 .. Capacity,
                          off : 0 .. Capacity]]
    /\ ev \in [Sides -> [close : BOOLEAN, room : 0 .. Capacity]]
    /\ dm \in [Sides -> Demands \cup {None}]
    /\ woken \in [Sides -> BOOLEAN]
    /\ nw \in Nat /\ nr \in Nat /\ lastOut \in Nat

(* The packed positions and the REVERSION bit always say exactly how many
   items are in the ring, full and empty included, whatever the order of the
   two commit CASes. *)
PositionsCount ==
    /\ WellPlaced(pos)
    /\ DataSize(pos) = nw - nr

(* A live write segment and a live read segment never share a cell, although
   each was lent on a load of the state word that the other half's commits
   have since overtaken. *)
SegmentsDisjoint ==
    Region(seg["tx"].start, seg["tx"].len)
        \cap Region(seg["rx"].start, seg["rx"].len) = {}

(* Items leave in the order they entered, none lost, duplicated or torn by
   the wrap around the physical end: the last item moved out is the one whose
   rank is the number of items moved out. *)
FifoOrder == lastOut = nr + seg["rx"].off

(* core_passive_*_async_'s unreachable!("Concurrent call ..."): the demand
   pointer is null whenever a half is about to publish its own. *)
DemandFree == \A s \in Sides : pc[s] = "demand" => demand[s] = None

(* No lost wake-up: a half parked on a condition that holds has been woken,
   or the peer is still on its way to the slot - as long as the peer is
   open. *)
NoLostWakeup ==
    \A s \in Sides :
        (/\ pc[s] = "parked" /\ ~woken[s]
         /\ CanLend(s, arg[s]) /\ ~closed[Peer(s)])
        => pc[Peer(s)] \in {"event", "gate", "check", "deref", "signal",
                            "wake"}

(* Everyone waiting on everyone: as long as no writer's and reader's minimum
   demands together exceed the capacity by more than one, the two halves are
   never both asleep on an open ring. *)
DemandsFit ==
    \A d, e \in Demands : d.min + e.min <= Capacity + 1
                          /\ d.min <= Capacity

NoMutualPark ==
    DemandsFit =>
        ~ \A s \in Sides : pc[s] = "parked" /\ ~woken[s] /\ ~closed[s]

(* A parked half whose demand is met is eventually unparked, unless the peer
   closes first. *)
ParkedIsServed ==
    \A s \in Sides :
        (pc[s] = "parked" /\ CanLend(s, arg[s]) /\ ~closed[Peer(s)])
            ~> (pc[s] # "parked" \/ closed[Peer(s)])

-----------------------------------------------------------------------------
(* The inductive strengthening of the safety properties. *)

Armed == {"poll", "reg", "recheck", "parked", "dereg", "unarm"}
Published == Armed \cup {"arm", "reset"}

(* A borrowed segment starts where its half's position still is, and the room
   it was lent out of has not shrunk since. *)
SegmentsFit ==
    \A s \in Sides :
        IF pc[s] = "seg"
        THEN /\ seg[s].start = IF s = "tx" THEN pos.wp ELSE pos.rp
             /\ seg[s].off <= seg[s].len
             /\ seg[s].len <= Room(s)
        ELSE seg[s] = NoSeg

(* From the read position on, the cells hold the items in order: the
   committed ones, then those the writer has moved in and not committed. *)
CellsInOrder ==
    \A i \in Cells :
        i < DataSize(pos) + seg["tx"].off => cells[CellAt(pos.rp, i)] = nr + i + 1

(* The armed protocol of a waiting half: demand, then flag, then slot. *)
ArmedProtocol ==
    \A s \in Sides :
        /\ demand[s] = IF pc[s] \in Published THEN arg[s] ELSE None
        /\ stndby[s] <=> pc[s] \in Armed
        /\ pc[s] \in Published \cup {"try", "demand"} => arg[s] \in Demands
        /\ pc[s] = "parked" => ~closed[s]
        /\ pc[s] \in {"recheck", "parked"} =>
              slot[s] \/ woken[s] \/ pc[Peer(s)] = "wake"

(* The wake-up that a parked half with room is owed, step by step. *)
WakeupOwed(s) ==
    LET p == Peer(s) IN
    \/ pc[p] = "event"
    \/ pc[p] \in {"gate", "check"} /\ ~ev[p].close /\ ev[p].room = Room(s)
    \/ pc[p] = "deref" /\ ev[p].room = Room(s) /\ dm[p] = arg[s]
    \/ pc[p] = "signal"
    \/ pc[p] = "wake" /\ ~slot[s]

WakeupInv ==
    \A s \in Sides :
        (/\ pc[s] = "parked" /\ ~woken[s]
         /\ CanLend(s, arg[s]) /\ ~closed[Peer(s)]) => WakeupOwed(s)

IInv ==
    /\ TypeOK
    /\ PositionsCount
    /\ SegmentsFit
    /\ CellsInOrder
    /\ FifoOrder
    /\ ArmedProtocol
    /\ WakeupInv

-----------------------------------------------------------------------------
(* Refinement: from the read position on, the cells are a bounded FIFO. *)

Contents == [i \in 1 .. DataSize(pos) |-> cells[CellAt(pos.rp, i - 1)]]

Fifo == INSTANCE BoundedFifo WITH q <- Contents, count <- nw

(* The circular buffer implements the bounded queue: only a commit is visible,
   and it appends or removes exactly the items its segment moved. *)
FifoSpec == Fifo!Spec

-----------------------------------------------------------------------------
(* A claim of the repository's comments that the code does not keep. *)

(* "EOF always wakes": a reader parked when the writer closes is eventually
   unparked. *)
EofWakesReader ==
    (pc["rx"] = "parked" /\ closed["tx"]) ~> pc["rx"] # "parked"

=============================================================================
