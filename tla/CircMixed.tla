------------------------------ MODULE CircMixed ------------------------------
(***************************************************************************)
(* The circular buffer core with one active and one passive end:           *)
(* "in"  is CircCore<DevProducer, BufConsumer>, of which the caller holds  *)
(*       the Consumer half and an input device fills the ring;             *)
(* "out" is CircCore<BufProducer, DevConsumer>, of which the caller holds  *)
(*       the Producer half and the ring is emptied into an output device.  *)
(*                                                                         *)
(* No thread belongs to the active end.  Its device is driven by the       *)
(* caller of the half: by one poll (the synchronous pumps, whenever a try  *)
(* fails, a segment is dropped or the write end is closed) or by an await  *)
(* (pump_async, from read_async, write_async and close_async).  The device *)
(* is the environment: it moves items, refuses (an error or zero items) or *)
(* stays Pending.                                                          *)
(*                                                                         *)
(* The two compositions mirror each other, so the model speaks of the end  *)
(* of the device and the end of the half.  Items are numbered modulo       *)
(* Capacity + 1 as they enter the ring.                                    *)
(***************************************************************************)
EXTENDS IoPos, Sequences

VARIABLES mixMode,      \* "in" or "out"
          flaky,        \* the device may refuse
          mixPos, mixCells,
          mixClosed,    \* the half has closed its end
          mixArmed,     \* its STNDBY bit, published demand and waiter
          mixPc,
          call,         \* the call of the half in progress
          token,        \* its cancellation token has fired
          segm,         \* items the device has moved in its segment
          entered, left,  \* number of the next item to enter, to leave
          got,            \* the items that left last
          refusals,       \* refusals since the device last moved something
          progress        \* it has moved something since the drain began

mixVars == <<mixMode, flaky, mixPos, mixCells, mixClosed, mixArmed,
             mixPc, call, token, segm, entered, left, got, refusals, progress>>

Number(n) == n % (Capacity + 1)

(* The demands a caller passes are told apart by their minimum; one of them
   is more than the ring can hold.  The maximum only bounds what the caller
   moves in a segment, and it moves any number. *)
Minima == 1 .. Capacity + 1

NoCall == [op |-> "none", min |-> 1, pump |-> "none", moved |-> FALSE]

DevEnd == IF mixMode = "in" THEN "tx" ELSE "rx"
HalfEnd == IF mixMode = "in" THEN "rx" ELSE "tx"

(* Cells an end may use: the free ones for tx, the full ones for rx. *)
Room(end, p) == IF end = "tx" THEN FreeSize(p) ELSE DataSize(p)
Index(end, p) == IF end = "tx" THEN p.wp ELSE p.rp
AdvanceEnd(end, p, n) == IF end = "tx" THEN AdvanceWp(p, n) ELSE AdvanceRp(p, n)

MixInit ==
    /\ mixMode \in {"in", "out"} /\ flaky \in BOOLEAN
    /\ mixPos = StartPos
    /\ mixCells = [c \in Cells |-> 0]
    /\ mixClosed = FALSE /\ mixArmed = FALSE
    /\ mixPc = "build"
    /\ call = [NoCall EXCEPT !.op = "build"]
    /\ token = FALSE
    /\ segm = 0
    /\ entered = 0 /\ left = 0 /\ got = << >>
    /\ refusals = 0 /\ progress = FALSE

(* n items cross the end, at `from` cells after its index. *)
Cross(end, from, n) ==
    LET start == Index(end, mixPos)
    IN IF end = "tx"
       THEN /\ mixCells' = [c \in Cells |->
                  IF \E i \in 0 .. n - 1 : c = CellAt(start, from + i)
                  THEN Number(entered
                         + CHOOSE i \in 0 .. n - 1 : c = CellAt(start, from + i))
                  ELSE mixCells[c]]
            /\ entered' = Number(entered + n)
            /\ UNCHANGED <<left, got>>
       ELSE /\ got' = [i \in 1 .. n |-> mixCells[CellAt(start, from + i - 1)]]
            /\ left' = Number(left + n)
            /\ UNCHANGED <<mixCells, entered>>

(* try_write_at, try_read_at: what the half is told.  A read of less than the
   minimum succeeds once the read end is closed. *)
Terminates == mixClosed /\ (mixMode = "out" \/ Room("rx", mixPos) = 0)
Succeeds ==
    /\ Room(HalfEnd, mixPos) > 0
    /\ \/ Room(HalfEnd, mixPos) >= call.min
       \/ mixMode = "in" /\ mixClosed

-----------------------------------------------------------------------------
(* The device's segment: all cells its end may use, in up to two pieces. *)

(* Cells of the piece the device is offered next. *)
Piece ==
    LET at == CellAt(Index(DevEnd, mixPos), segm)
        rest == Room(DevEnd, mixPos) - segm
    IN IF rest < Capacity - at THEN rest ELSE Capacity - at

(* A slip: a segment dropped while the device is Pending not committed. *)
DropSegmentReady(moved, outcome) ==
    mixPos' = IF outcome = "pending" THEN mixPos
              ELSE AdvanceEnd(DevEnd, mixPos, moved)

(* Dropping the segment commits what was moved and fires the event of the
   half's end, which finds it unarmed: the task that would wait is the one
   that pumps (MixParkIsClean). *)
DropSegment(moved, outcome) == mixPos' = AdvanceEnd(DevEnd, mixPos, moved)

(* A slip: the segment measured after the device has used it. *)
MovedNothing(moved) == 0

(* What a pump learns from the segment it lent. *)
Moved(moved) == moved

(* react_async is over, and with it this turn of the pump: it goes on after
   some progress, unless the one poll ended Pending. *)
Reacted(moved, outcome) ==
    /\ DropSegment(moved, outcome)
    /\ segm' = 0
    /\ call' = [call EXCEPT !.moved = @ \/ Moved(moved) > 0]
    /\ mixPc' = IF Moved(moved) > 0 /\ outcome = "ready" /\ call.op # "build"
                THEN "pump" ELSE "pumped"

(* The device moves n items and react_async offers it the next cells, or ends
   with the segment used up. *)
DeviceMoves(n) ==
    /\ mixPc = "react" /\ n \in 1 .. Piece
    /\ Cross(DevEnd, segm, n)
    /\ refusals' = 0 /\ progress' = TRUE
    /\ \/ /\ segm + n < Room(DevEnd, mixPos)
          /\ segm' = segm + n
          /\ UNCHANGED <<mixPos, call, mixPc>>
       \/ /\ segm + n = Room(DevEnd, mixPos)
          /\ Reacted(segm + n, "ready")
    /\ UNCHANGED <<mixMode, flaky, mixClosed, mixArmed, token>>

(* Zero items, an error, or the error of a device whose token has fired.  The
   synchronous pumps pass a token that never fires. *)
DeviceRefuses ==
    /\ mixPc = "react" /\ (flaky \/ (token /\ call.pump = "await"))
    /\ Reacted(segm, "ready")
    /\ refusals' = IF refusals = 2 THEN 2 ELSE refusals + 1
    /\ UNCHANGED <<mixMode, flaky, mixCells, mixClosed, mixArmed, token, entered,
                   left, got, progress>>

(* The one poll of a synchronous pump finds the device Pending. *)
DevicePends ==
    /\ mixPc = "react" /\ call.pump = "poll"
    /\ Reacted(segm, "pending")
    /\ UNCHANGED <<mixMode, flaky, mixCells, mixClosed, mixArmed, token, entered,
                   left, got, refusals, progress>>

(* init_async of the device's end: one poll, if the ring has room for it. *)
Build ==
    /\ mixPc = "build"
    /\ call' = [call EXCEPT !.pump = "poll"]
    /\ mixPc' = IF Room(DevEnd, mixPos) > 0 THEN "react" ELSE "pumped"
    /\ UNCHANGED <<mixMode, flaky, mixPos, mixCells, mixClosed, mixArmed,
                   token, segm, entered, left, got, refusals, progress>>

(* A slip: the synchronous input pump does not look at RX_CLOSED. *)
MayPumpAlways == Room(DevEnd, mixPos) > 0

(* The head of a pump's loop.  Only the synchronous input pump looks at
   RX_CLOSED; the output pump finds its own end open, as nobody closes it. *)
MayPump ==
    /\ Room(DevEnd, mixPos) > 0
    /\ ~(mixClosed /\ mixMode = "in" /\ call.pump = "poll")

Pump ==
    /\ mixPc = "pump"
    /\ mixPc' = IF MayPump THEN "react" ELSE "pumped"
    /\ UNCHANGED <<mixMode, flaky, mixPos, mixCells, mixClosed, mixArmed,
                   call, token, segm, entered, left, got, refusals, progress>>

-----------------------------------------------------------------------------
(* The half. *)
Begin(op, min) ==
    /\ mixPc = "idle"
    /\ call' = [NoCall EXCEPT !.op = op, !.min = min]
    /\ token' = FALSE
    /\ mixPc' = "try"
    /\ UNCHANGED <<mixMode, flaky, mixPos, mixCells, mixClosed, mixArmed,
                   segm, entered, left, got, refusals, progress>>

(* try_read_, try_write_: the first attempt, a synchronous pump if it fails,
   and a second one.  A segment is "holding"; an error ends a try.  read_async
   and write_async go on to await the device. *)
Try ==
    /\ mixPc \in {"try", "retry"}
    /\ \/ /\ Succeeds
          /\ mixPc' = "holding" /\ UNCHANGED call
       \/ /\ ~Succeeds /\ (Terminates \/ (mixPc = "retry" /\ call.op = "try"))
          /\ mixPc' = "idle" /\ UNCHANGED call
       \/ /\ ~Succeeds /\ ~Terminates /\ mixPc = "try"
          /\ mixPc' = "pump"
          /\ call' = [call EXCEPT !.pump = "poll"]
       \/ /\ ~Succeeds /\ ~Terminates /\ mixPc = "retry" /\ call.op = "async"
          /\ mixPc' = "pump"
          /\ call' = [call EXCEPT !.pump = "await", !.moved = FALSE]
    /\ UNCHANGED <<mixMode, flaky, mixPos, mixCells, mixClosed, mixArmed,
                   token, segm, entered, left, got, refusals, progress>>

(* The caller moves n items in its segment and drops it: the commit pumps. *)
DropHalfSegment(n) ==
    /\ mixPc = "holding" /\ n \in 0 .. Room(HalfEnd, mixPos)
    /\ Cross(HalfEnd, 0, n)
    /\ mixPos' = AdvanceEnd(HalfEnd, mixPos, n)
    /\ call' = [NoCall EXCEPT !.op = "commit", !.pump = "poll"]
    /\ mixPc' = "pump"
    /\ UNCHANGED <<mixMode, flaky, mixClosed, mixArmed, token, segm,
                   refusals, progress>>

(* The pump is over.  An await that moved something tries again; one that did
   not parks the task: the demand is published, the end armed and the waiter
   registered, and a token that has fired withdraws all three at once. *)
Pumped ==
    /\ mixPc = "pumped"
    /\ \/ /\ call.op \in {"build", "commit", "close"}
          /\ mixPc' = "idle"
          /\ UNCHANGED <<call, mixArmed, refusals, progress>>
       \/ /\ call.op \in {"try", "async"} /\ call.pump = "poll"
          /\ mixPc' = "retry"
          /\ UNCHANGED <<call, mixArmed, refusals, progress>>
       \/ /\ call.op = "async" /\ call.pump = "await"
          /\ mixPc' = IF call.moved THEN "try" ELSE IF token THEN "idle" ELSE "parked"
          /\ mixArmed' = (mixPc' = "parked")
          /\ UNCHANGED <<call, refusals, progress>>
       \/ /\ call.op = "drain" /\ call.pump = "poll"
          /\ mixPc' = "drain"
          /\ call' = [call EXCEPT !.pump = "await", !.moved = FALSE]
          /\ refusals' = 0 /\ progress' = FALSE
          /\ UNCHANGED mixArmed
       \/ /\ call.op = "drain" /\ call.pump = "await"
          /\ mixPc' = IF call.moved THEN "drain" ELSE "drained"
          /\ call' = [call EXCEPT !.moved = FALSE]
          /\ UNCHANGED <<mixArmed, refusals, progress>>
    /\ UNCHANGED <<mixMode, flaky, mixPos, mixCells, mixClosed, token, segm, entered,
                   left, got>>

(* WaitGuard::drop. *)
Withdraw == mixArmed' = FALSE

(* A parked task whose token fires returns Cancelled. *)
EndPark ==
    /\ mixPc = "parked" /\ token
    /\ Withdraw
    /\ mixPc' = "idle"
    /\ UNCHANGED <<mixMode, flaky, mixPos, mixCells, mixClosed, call, token, segm,
                   entered, left, got, refusals, progress>>

(* The Consumer's close_async, the Producer's close and the beginning of its
   close_async: the end is closed; closing the write end pumps. *)
Close(op) ==
    /\ mixPc = "idle" /\ (mixMode = "in" => op = "close")
    /\ mixClosed' = TRUE
    /\ call' = [NoCall EXCEPT !.op = op, !.pump = "poll"]
    /\ mixPc' = IF mixMode = "in" THEN "pumped" ELSE "pump"
    /\ token' = FALSE
    /\ UNCHANGED <<mixMode, flaky, mixPos, mixCells, mixArmed, segm, entered, left,
                   got, refusals, progress>>

(* The head of drain_output_async_. *)
Drain ==
    /\ mixPc = "drain"
    /\ mixPc' = IF token THEN "drained" ELSE "pump"
    /\ UNCHANGED <<mixMode, flaky, mixPos, mixCells, mixClosed, mixArmed,
                   call, token, segm, entered, left, got, refusals, progress>>

CloseReturns ==
    /\ mixPc = "drained"
    /\ mixPc' = "idle"
    /\ UNCHANGED <<mixMode, flaky, mixPos, mixCells, mixClosed, mixArmed,
                   call, token, segm, entered, left, got, refusals, progress>>

CancelCall ==
    /\ call.op \in {"async", "drain"} /\ ~token
    /\ mixPc \notin {"idle", "holding", "drained", "gone"}
    /\ token' = TRUE
    /\ UNCHANGED <<mixMode, flaky, mixPos, mixCells, mixClosed, mixArmed,
                   mixPc, call, segm, entered, left, got, refusals, progress>>

(* The future is dropped where it waits: its segment is committed, its park
   withdrawn. *)
DropFuture ==
    /\ \/ mixPc = "react" /\ call.pump = "await" /\ call.op # "build"
       \/ mixPc = "parked"
    /\ DropSegment(segm, "pending")
    /\ segm' = 0
    /\ Withdraw
    /\ mixPc' = "idle"
    /\ UNCHANGED <<mixMode, flaky, mixCells, mixClosed, call, token, entered, left,
                   got, refusals, progress>>

(* Producer::drop, Consumer::drop: the end is unarmed; nothing is drained. *)
DropHalf ==
    /\ mixPc = "idle"
    /\ mixArmed' = FALSE
    /\ mixPc' = "gone"
    /\ UNCHANGED <<mixMode, flaky, mixPos, mixCells, mixClosed, call,
                   token, segm, entered, left, got, refusals, progress>>

-----------------------------------------------------------------------------
Device == DeviceRefuses \/ \E n \in 1 .. Capacity : DeviceMoves(n)
Half == Build \/ Pump \/ Try \/ Pumped \/ EndPark \/ Drain \/ CloseReturns
User ==
    \/ \E op \in {"try", "async"}, min \in Minima : Begin(op, min)
    \/ \E n \in 0 .. Capacity : DropHalfSegment(n)
    \/ \E op \in {"close", "drain"} : Close(op)
    \/ CancelCall \/ DropFuture \/ DropHalf

MixNext == Device \/ DevicePends \/ Half \/ User

(* The caller's task runs, and a device that is awaited answers in the end.
   Nothing is assumed of the caller. *)
MixFairness ==
    /\ WF_mixVars(Half)
    /\ WF_mixVars(Device \/ DevicePends)

MixSpec == MixInit /\ [][MixNext]_mixVars /\ MixFairness

-----------------------------------------------------------------------------
(* Whatever the device moved is in the ring exactly once and leaves it in
   order: through short moves, a wrap inside a segment, a Pending device, a
   refusal, and a future dropped in the middle of a segment. *)
MixInOrder ==
    \A i \in 1 .. Len(got) : got[i] = Number(left + Capacity + 1 - Len(got) + i - 1)

(* A read_async, write_async or close_async of a demand the ring can hold
   returns, as long as the device does not refuse: nobody but the caller
   drives the device, so a call that parked would not be woken. *)
MixCallEnds ==
    (~flaky /\ call.min <= Capacity /\ mixPc \notin {"idle", "holding", "gone"})
        ~> mixPc \in {"idle", "holding", "gone"}

(* close_async leaves items in the ring only when it was cancelled, or when
   the device refused twice in a row, or refused without having taken
   anything: one refusal between two moves does not end the drain. *)
DrainIsPatient ==
    mixPc = "drained" /\ ~token /\ DataSize(mixPos) > 0
        => refusals = 2 \/ (refusals = 1 /\ ~progress)

(* Once the read end is closed, nothing more is taken from the input device:
   the items would be lost with the ring. *)
NoPullAfterClose ==
    [][mixMode = "in" /\ mixClosed => entered' = entered]_mixVars

=============================================================================
