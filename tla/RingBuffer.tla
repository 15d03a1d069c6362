----------------------------- MODULE RingBuffer -----------------------------
(***************************************************************************)
(* The single-gap ring of crates/buffex/src/ring_buffer: one state word    *)
(* (positions, two closed flags, two in-flight flags), four wake slots,    *)
(* and up to four actors, one per slot:                                    *)
(*   txUser   the RingTx half: borrows write segments                      *)
(*   rxUser   the RingRx half: borrows read segments, peeks                *)
(*   txRt     the runtime sender: reserves the readable region for a       *)
(*            kernel writev (wait_flushed, take_send_iovecs, put_back_send) *)
(*   rxRt     the runtime receiver: reserves the writable region for a     *)
(*            kernel readv (wait_rx_idle, take_recv_iovecs, put_back_recv) *)
(* Every actor is sequential.  The state word is one atomic, so a load or  *)
(* a CAS of it is one step; each access to a slot is another.              *)
(***************************************************************************)
EXTENDS IoPos, Sequences

CONSTANTS Crews,        \* the sets of actors a ring may be used by
          Demands,      \* the demands callers pass: [min, max] records
          MaxItems      \* bound: number of items ever moved in

ASSUME RingDemandsAssumption == Demands \subseteq [min : Nat, max : Nat \ {0}]
ASSUME RingItemsAssumption == MaxItems \in Nat

Writers == {"txUser", "rxRt"}
Readers == {"rxUser", "txRt"}
Users   == {"txUser", "rxUser"}
Runtime == {"txRt", "rxRt"}
Actors  == Users \cup Runtime

ASSUME CrewsAssumption == \A crew \in Crews : crew \subseteq Actors

(* The actors that are ever there. *)
Present == UNION Crews

(* The other actor at the same end of the stream. *)
Mate(a) == CASE a = "txUser" -> "rxRt" [] a = "rxRt" -> "txUser"
             [] a = "rxUser" -> "txRt" [] a = "txRt" -> "rxUser"

VARIABLES
    rp, wp, closed, flight, \* the state word
    slot,                   \* per actor: a waiter is registered
    cells,
    pc, mode, arg, ret,     \* per actor: step, kind of operation, its demand,
                            \*   where it continues
    seg,                    \* per actor: borrowed or reserved region
    sig,                    \* per actor: next slot signal_all signals
    woken,                  \* per actor: its task has been woken
    nw, nr, lastOut         \* history: items committed in and out, last item
                            \*   moved out

word == <<rp, wp, closed, flight>>
hist == <<nw, nr, lastOut>>
vars == <<rp, wp, closed, flight, slot, cells, pc, mode, arg, ret, seg, sig,
          woken, nw, nr, lastOut>>

NoSeg == [start |-> 0, len |-> 0, off |-> 0]
All == [min |-> 0, max |-> Capacity]

Init ==
    /\ rp = 0 /\ wp = 0
    /\ closed = [e \in {"tx", "rx"} |-> FALSE]
    /\ flight = [f \in {"send", "recv"} |-> FALSE]
    /\ slot = [a \in Actors |-> FALSE]
    /\ cells = [c \in Cells |-> 0]
    /\ \E crew \in Crews :
         pc = [a \in Actors |-> IF a \in crew THEN "idle" ELSE "gone"]
    /\ mode = [a \in Actors |-> "borrow"]
    /\ arg = [a \in Actors |-> All]
    /\ ret = [a \in Actors |-> "idle"]
    /\ seg = [a \in Actors |-> NoSeg]
    /\ sig = [a \in Actors |-> 1]
    /\ woken = [a \in Actors |-> FALSE]
    /\ nw = 0 /\ nr = 0 /\ lastOut = 0

Goto(a, l) == pc' = [pc EXCEPT ![a] = l]

(* Continue where the call was made; a finished operation leaves nothing. *)
Return(a) ==
    /\ Goto(a, ret[a])
    /\ ret' = [ret EXCEPT ![a] = "idle"]
    /\ mode' = IF ret[a] = "idle" THEN [mode EXCEPT ![a] = "borrow"] ELSE mode

(* park.deregister, then continue at l. *)
Leave(a, l) == Goto(a, "dereg") /\ ret' = [ret EXCEPT ![a] = l]

-----------------------------------------------------------------------------
(* Sizes; one cell is always left unused. *)

Data == (wp + Capacity - rp) % Capacity

(* A slip: the gap given away. *)
FreeNoGap == Capacity - Data
Free == Capacity - 1 - Data

Room(a) == IF a \in Writers THEN Free ELSE Data

(* The reservation that shuts actor a out. *)
Flag(a) == IF a \in Writers THEN "recv" ELSE "send"

(* A slip: a reserved region offered. *)
OfferedReserved(a) == Room(a) > 0
Offered(a) == Room(a) > 0 /\ ~flight[Flag(a)]

Take(a, d) == IF d.max < Room(a) THEN d.max ELSE Room(a)

Region1(a, n) == [start |-> IF a \in Writers THEN wp ELSE rp, len |-> n,
                  off |-> 0]

(* The check of a park.  The writer's ignores TX_CLOSED, the reader's looks at
   RX_CLOSED only; a reservation by the runtime waits for either of its own. *)
ParkCheck(a) ==
    \/ /\ Room(a) >= arg[a].min /\ Room(a) >= 1
       /\ ~flight[Flag(a)]
    \/ a = "rxUser" /\ closed["rx"]
    \/ a = "rxRt" /\ closed["rx"]
    \/ a = "txRt" /\ closed["tx"]

-----------------------------------------------------------------------------
(* The user halves. *)

(* try_write, try_read and their _at_most forms, when they lend. *)
Try(a, d) ==
    /\ a \in Users /\ pc[a] = "idle"
    /\ Offered(a) /\ Take(a, d) >= d.min
    /\ seg' = [seg EXCEPT ![a] = Region1(a, Take(a, d))]
    /\ mode' = [mode EXCEPT ![a] = "borrow"]
    /\ Goto(a, "seg")
    /\ UNCHANGED <<word, slot, cells, arg, ret, sig, woken, hist>>

TryPeek(a) ==
    /\ a = "rxUser" /\ pc[a] = "idle"
    /\ Offered(a)
    /\ seg' = [seg EXCEPT ![a] = Region1(a, Data)]
    /\ mode' = [mode EXCEPT ![a] = "peek"]
    /\ Goto(a, "seg")
    /\ UNCHANGED <<word, slot, cells, arg, ret, sig, woken, hist>>

(* write_async, read_async, peek_async: create the future, poll it. *)
StartAsync(a, m, d) ==
    /\ a \in Users /\ pc[a] = "idle"
    /\ m = "peek" => a = "rxUser" /\ d = All
    /\ mode' = [mode EXCEPT ![a] = m]
    /\ arg' = [arg EXCEPT ![a] = d]
    /\ Goto(a, "try")
    /\ UNCHANGED <<word, slot, cells, ret, seg, sig, woken, hist>>

(* Head of the poll loop.  A token that has fired ends the wait where the
   code asks it. *)
TryAgain(a) ==
    /\ pc[a] = "try"
    /\ \/ /\ Offered(a)
          /\ seg' = [seg EXCEPT ![a] = Region1(a, Take(a, arg[a]))]
          /\ IF Take(a, arg[a]) >= arg[a].min
             THEN Leave(a, "seg")
             ELSE Goto(a, "short") /\ UNCHANGED ret
       \/ /\ ~Offered(a) /\ UNCHANGED seg
          /\ IF closed[IF a = "txUser" THEN "tx" ELSE "rx"]
             THEN Leave(a, "idle")
             ELSE Goto(a, "blocked") /\ UNCHANGED ret
    /\ UNCHANGED <<word, slot, cells, mode, arg, sig, woken, hist>>

(* Less than the minimum is there: a reader at end of stream takes it. *)
Short(a) ==
    /\ pc[a] = "short"
    /\ \/ /\ a = "rxUser" /\ (closed["tx"] \/ closed["rx"])
          /\ Leave(a, "seg") /\ UNCHANGED seg
       \/ /\ ~(a = "rxUser" /\ (closed["tx"] \/ closed["rx"]))
          /\ seg' = [seg EXCEPT ![a] = NoSeg]
          /\ \/ Leave(a, "idle")
             \/ Goto(a, "check") /\ UNCHANGED ret
    /\ UNCHANGED <<word, slot, cells, mode, arg, sig, woken, hist>>

(* Nothing is offered.  A read (a peek does not) ends at end of stream. *)
Blocked(a) ==
    /\ pc[a] = "blocked"
    /\ \/ Leave(a, "idle")
       \/ /\ ~(/\ a = "rxUser" /\ mode[a] = "borrow"
               /\ closed["tx"] \/ closed["rx"])
          /\ Goto(a, "check") /\ UNCHANGED ret
    /\ UNCHANGED <<word, slot, cells, mode, arg, seg, sig, woken, hist>>

-----------------------------------------------------------------------------
(* Park::poll. *)

Check(a) ==
    /\ pc[a] = "check"
    /\ IF ParkCheck(a)
       THEN Leave(a, IF mode[a] = "wait" THEN "idle" ELSE "try")
       ELSE Goto(a, "reg") /\ UNCHANGED ret
    /\ UNCHANGED <<word, slot, cells, mode, arg, seg, sig, woken, hist>>

Register(a) ==
    /\ pc[a] = "reg"
    /\ slot' = [slot EXCEPT ![a] = TRUE]
    /\ Goto(a, "recheck")
    /\ UNCHANGED <<word, cells, mode, arg, ret, seg, sig, woken, hist>>

(* A slip: parking without the second check. *)
RecheckSkipped(a) ==
    /\ pc[a] = "recheck"
    /\ Goto(a, "parked")
    /\ UNCHANGED <<word, slot, cells, mode, arg, ret, seg, sig, woken, hist>>

Recheck(a) ==
    /\ pc[a] = "recheck"
    /\ IF ParkCheck(a)
       THEN Leave(a, IF mode[a] = "wait" THEN "idle" ELSE "try")
       ELSE Goto(a, "parked") /\ UNCHANGED ret
    /\ UNCHANGED <<word, slot, cells, mode, arg, seg, sig, woken, hist>>

(* The executor polls a woken task: the future's poll starts over. *)
PollAgain(a) == Goto(a, IF mode[a] = "wait" THEN "check" ELSE "try")

Resume(a) ==
    /\ pc[a] = "parked" /\ woken[a]
    /\ woken' = [woken EXCEPT ![a] = FALSE]
    /\ PollAgain(a)
    /\ UNCHANGED <<word, slot, cells, mode, arg, ret, seg, sig, hist>>

(* A poll for another reason (the cancellation token, the executor). *)
Repoll(a) ==
    /\ pc[a] = "parked" /\ ~woken[a]
    /\ PollAgain(a)
    /\ UNCHANGED <<word, slot, cells, mode, arg, ret, seg, sig, woken, hist>>

DropFuture(a) ==
    /\ pc[a] = "parked"
    /\ Leave(a, "idle")
    /\ UNCHANGED <<word, slot, cells, mode, arg, seg, sig, woken, hist>>

(* A slip: the waiter left in its slot. *)
DeregisterForgotten(a) ==
    /\ pc[a] = "dereg"
    /\ Return(a)
    /\ UNCHANGED <<word, slot, cells, arg, seg, sig, woken, hist>>

Deregister(a) ==
    /\ pc[a] = "dereg"
    /\ slot' = [slot EXCEPT ![a] = FALSE]
    /\ Return(a)
    /\ UNCHANGED <<word, cells, arg, seg, sig, woken, hist>>

-----------------------------------------------------------------------------
(* The runtime drivers. *)

(* wait_flushed, wait_rx_idle. *)
Wait(a) ==
    /\ a \in Runtime /\ pc[a] = "idle"
    /\ mode' = [mode EXCEPT ![a] = "wait"]
    /\ Goto(a, "check")
    /\ UNCHANGED <<word, slot, cells, arg, ret, seg, sig, woken, hist>>

(* The obligation the code leaves to its callers: the runtime reserves a
   region only while the user half of the same end is between operations. *)
EndFree(a) ==
    pc[Mate(a)] \in {"idle", "parked", "gone"}

(* take_send_iovecs, take_recv_iovecs. *)
TakeIovecs(a) ==
    /\ a \in Runtime /\ pc[a] = "idle"
    /\ Offered(a) /\ EndFree(a)
    /\ flight' = [flight EXCEPT ![Flag(a)] = TRUE]
    /\ seg' = [seg EXCEPT ![a] = Region1(a, Room(a))]
    /\ mode' = [mode EXCEPT ![a] = "borrow"]
    /\ Goto(a, "seg")
    /\ UNCHANGED <<rp, wp, closed, slot, cells, arg, ret, sig, woken, hist>>

-----------------------------------------------------------------------------
(* Regions in use, and what ends their use. *)

MoveItem(a) ==
    /\ pc[a] = "seg" /\ mode[a] = "borrow"
    /\ seg[a].off < seg[a].len
    /\ LET c == CellAt(seg[a].start, seg[a].off) IN
         \/ /\ a \in Writers
            /\ nw + seg[a].off < MaxItems
            /\ cells' = [cells EXCEPT ![c] = nw + seg[a].off + 1]
            /\ UNCHANGED lastOut
         \/ /\ a \in Readers
            /\ lastOut' = cells[c]
            /\ UNCHANGED cells
    /\ seg' = [seg EXCEPT ![a] = [start |-> @.start, len |-> @.len,
                                  off |-> @.off + 1]]
    /\ UNCHANGED <<word, slot, pc, mode, arg, ret, sig, woken, nw, nr>>

(* A slip: what was read is counted twice. *)
AdvanceTwice(a, n) ==
    /\ wp' = IF a \in Writers THEN (wp + n) % Capacity ELSE wp
    /\ rp' = IF a \in Readers THEN (rp + 2 * n) % Capacity ELSE rp
    /\ nw' = IF a \in Writers THEN nw + n ELSE nw
    /\ nr' = IF a \in Readers THEN nr + n ELSE nr

Advance(a, n) ==
    /\ wp' = IF a \in Writers THEN (wp + n) % Capacity ELSE wp
    /\ rp' = IF a \in Readers THEN (rp + n) % Capacity ELSE rp
    /\ nw' = IF a \in Writers THEN nw + n ELSE nw
    /\ nr' = IF a \in Readers THEN nr + n ELSE nr

(* Every change of the state word is followed by signal_all. *)
SignalAll(a, l) ==
    /\ Goto(a, "signal")
    /\ ret' = [ret EXCEPT ![a] = l]

(* A slip: the whole segment committed, moved or not. *)
CommitWhole(a) ==
    /\ a \in Users /\ pc[a] = "seg" /\ mode[a] = "borrow"
    /\ Advance(a, seg[a].len)
    /\ seg' = [seg EXCEPT ![a] = NoSeg]
    /\ SignalAll(a, "idle")
    /\ UNCHANGED <<closed, flight, slot, cells, mode, arg, sig, woken, lastOut>>

(* A segment is dropped: advance_write or advance_read of what was moved. *)
Commit(a) ==
    /\ a \in Users /\ pc[a] = "seg" /\ mode[a] = "borrow"
    /\ Advance(a, seg[a].off)
    /\ seg' = [seg EXCEPT ![a] = NoSeg]
    /\ SignalAll(a, "idle")
    /\ UNCHANGED <<closed, flight, slot, cells, mode, arg, sig, woken, lastOut>>

DropPeek(a) ==
    /\ pc[a] = "seg" /\ mode[a] = "peek"
    /\ seg' = [seg EXCEPT ![a] = NoSeg]
    /\ mode' = [mode EXCEPT ![a] = "borrow"]
    /\ Goto(a, "idle")
    /\ UNCHANGED <<word, slot, cells, arg, ret, sig, woken, hist>>

(* A slip: the positions advanced and the reservation kept. *)
PutBackKeepsFlag(a) ==
    /\ a \in Runtime /\ pc[a] = "seg"
    /\ Advance(a, seg[a].off)
    /\ seg' = [seg EXCEPT ![a] = NoSeg]
    /\ SignalAll(a, "idle")
    /\ UNCHANGED <<closed, flight, slot, cells, mode, arg, sig, woken, lastOut>>

(* put_back_send, put_back_recv. *)
PutBack(a) ==
    /\ a \in Runtime /\ pc[a] = "seg"
    /\ Advance(a, seg[a].off)
    /\ flight' = [flight EXCEPT ![Flag(a)] = FALSE]
    /\ seg' = [seg EXCEPT ![a] = NoSeg]
    /\ SignalAll(a, "idle")
    /\ UNCHANGED <<closed, slot, cells, mode, arg, sig, woken, lastOut>>

(* close, and close_rx of a writer, close_tx of a reader. *)
Close(a, e) ==
    /\ a \in Users /\ pc[a] = "idle"
    /\ closed' = [closed EXCEPT ![e] = TRUE]
    /\ SignalAll(a, "idle")
    /\ UNCHANGED <<rp, wp, flight, slot, cells, mode, arg, seg, sig, woken,
                   hist>>

(* A half is dropped, with or without auto_close. *)
DropHalf(a) ==
    /\ a \in Users /\ pc[a] = "idle"
    /\ \/ /\ closed' = [closed EXCEPT ![IF a = "txUser" THEN "tx" ELSE "rx"]
                                      = TRUE]
          /\ SignalAll(a, "gone")
       \/ Goto(a, "gone") /\ UNCHANGED <<closed, ret>>
    /\ UNCHANGED <<rp, wp, flight, slot, cells, mode, arg, seg, sig, woken,
                   hist>>

-----------------------------------------------------------------------------
(* signal_all: the four slots in this order, each a swap with null and, if a
   waiter was there, a wake-up through it. *)
SlotOrder == <<"txUser", "txRt", "rxUser", "rxRt">>

NextSlot(a) ==
    IF sig[a] < Len(SlotOrder)
    THEN sig' = [sig EXCEPT ![a] = @ + 1] /\ Goto(a, "signal")
         /\ UNCHANGED <<ret, mode>>
    ELSE sig' = [sig EXCEPT ![a] = 1] /\ Return(a)

(* A slip: the slot emptied and the waiter not woken. *)
SignalOnlyClears(a) ==
    /\ pc[a] = "signal"
    /\ slot' = [slot EXCEPT ![SlotOrder[sig[a]]] = FALSE]
    /\ NextSlot(a)
    /\ UNCHANGED <<word, cells, arg, seg, woken, hist>>

Signal(a) ==
    /\ pc[a] = "signal"
    /\ slot' = [slot EXCEPT ![SlotOrder[sig[a]]] = FALSE]
    /\ IF slot[SlotOrder[sig[a]]]
       THEN Goto(a, "wake") /\ UNCHANGED <<sig, ret, mode>>
       ELSE NextSlot(a)
    /\ UNCHANGED <<word, cells, arg, seg, woken, hist>>

(* The waiter taken out of b's slot is certainly the one b sleeps on.  In any
   other case b may have dropped it, or be writing its waker, while it is
   read: the task may or may not be woken. *)
Taken(b) == pc[b] \in {"recheck", "parked"} /\ ~slot[b]

Wake(a) ==
    /\ pc[a] = "wake"
    /\ LET b == SlotOrder[sig[a]] IN
         \/ woken' = [woken EXCEPT ![b] = TRUE]
         \/ ~Taken(b) /\ UNCHANGED woken
    /\ NextSlot(a)
    /\ UNCHANGED <<word, slot, cells, arg, seg, hist>>

-----------------------------------------------------------------------------
(* What an actor does by itself once an operation has been started. *)
Internal(a) ==
    \/ TryAgain(a) \/ Short(a) \/ Blocked(a) \/ Check(a) \/ Register(a)
    \/ Recheck(a) \/ Resume(a) \/ Deregister(a) \/ Signal(a) \/ Wake(a)

(* What its caller decides. *)
External(a) ==
    \/ \E d \in Demands : Try(a, d) \/ StartAsync(a, "borrow", d)
    \/ TryPeek(a) \/ StartAsync(a, "peek", All)
    \/ Wait(a) \/ TakeIovecs(a)
    \/ MoveItem(a) \/ Commit(a) \/ DropPeek(a) \/ PutBack(a)
    \/ \E e \in {"tx", "rx"} : Close(a, e)
    \/ DropHalf(a) \/ Repoll(a) \/ DropFuture(a)

Next == \E a \in Actors : Internal(a) \/ External(a)

Spec == Init /\ [][Next]_vars

(* Straight-line code is run and woken tasks are polled; nothing is assumed of
   the callers. *)
FairSpec == Spec /\ \A a \in Present : WF_vars(Internal(a))

-----------------------------------------------------------------------------
(* Properties *)

Labels == {"idle", "try", "short", "blocked", "check", "reg", "recheck",
           "parked", "dereg", "seg", "signal", "wake", "gone"}

(* Type invariant. *)
TypeOK ==
    /\ rp \in Cells /\ wp \in Cells
    /\ closed \in [{"tx", "rx"} -> BOOLEAN]
    /\ flight \in [{"send", "recv"} -> BOOLEAN]
    /\ slot \in [Actors -> BOOLEAN]
    /\ cells \in [Cells -> Nat]
    /\ pc \in [Actors -> Labels]
    /\ mode \in [Actors -> {"borrow", "peek", "wait"}]
    /\ arg \in [Actors -> Demands \cup {All}]
    /\ ret \in [Actors -> {"idle", "try", "seg", "gone"}]
    /\ seg \in [Actors -> [start : Cells, len : 0 .. Capacity,
                           off : 0 .. Capacity]]
    /\ sig \in [Actors -> 1 .. 4]
    /\ woken \in [Actors -> BOOLEAN]
    /\ nw \in Nat /\ nr \in Nat /\ lastOut \in Nat

(* The two indices alone always say how many items are in the ring: the gap
   keeps a full ring from looking like an empty one, whoever commits. *)
PositionsCount == Data = nw - nr

(* No two live regions, borrowed or reserved, share a cell - under the
   obligation EndFree. *)
NoOverlap ==
    \A a, b \in Actors : a # b =>
        Region(seg[a].start, seg[a].len) \cap Region(seg[b].start, seg[b].len)
            = {}

(* How far the readers are in what they have not committed. *)
Ahead == seg["rxUser"].off + seg["txRt"].off

(* Items leave in order, none lost, none twice, whether the user or the kernel
   takes them and however much of a reservation is used. *)
FifoOrder == lastOut = nr + Ahead

(* The region is marked in flight exactly while the runtime holds it: no path
   leaves the user half of that end shut out. *)
FlightMatches ==
    \A a \in Runtime : flight[Flag(a)] <=> pc[a] = "seg"

(* No waiter outlives its future: a slot is full only while its actor is
   inside a poll or parked. *)
NoDanglingWaiter ==
    \A a \in Actors :
        slot[a] => pc[a] \notin {"idle", "seg", "signal", "wake", "gone"}

(* The peer is on its way to the slot of b. *)
Coming(b) ==
    \E a \in Actors : pc[a] \in {"signal", "wake"}
                      /\ \E i \in sig[a] .. Len(SlotOrder) : SlotOrder[i] = b

(* No lost wake-up: an actor parked although its check holds has been woken or
   is about to be. *)
NoLostWakeup ==
    \A a \in Actors :
        pc[a] = "parked" /\ ~woken[a] /\ ParkCheck(a) => Coming(a)

(* A parked actor whose check holds, and goes on holding, is polled again. *)
ParkedIsServed ==
    \A a \in Present :
        (pc[a] = "parked" /\ ParkCheck(a)) ~> (pc[a] # "parked" \/ ~ParkCheck(a))

-----------------------------------------------------------------------------
(* Refinement: a bounded queue of one item less than there are cells. *)

Contents == [i \in 1 .. Data |-> cells[CellAt(rp, i - 1)]]

Fifo == INSTANCE BoundedFifo
            WITH Capacity <- Capacity - 1, q <- Contents, count <- nw

(* The ring implements the bounded queue. *)
FifoSpec == Fifo!Spec

-----------------------------------------------------------------------------
(* A claim of the repository's comments that the code does not keep. *)

(* A closed tx end is end of file for a reader: it "must return here, rather
   than go on parking". *)
TxCloseEndsRead ==
    (pc["rxUser"] = "parked" /\ mode["rxUser"] = "borrow" /\ closed["tx"])
        ~> pc["rxUser"] # "parked"

=============================================================================
