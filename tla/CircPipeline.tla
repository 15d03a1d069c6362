---------------------------- MODULE CircPipeline ----------------------------
(***************************************************************************)
(* The circular buffer core with two active ends: the Pipeline that        *)
(* build_async returns for CircCore<DevProducer, DevConsumer>.             *)
(*                                                                         *)
(* One task drives both devices: it awaits one read of the input device,   *)
(* then one write to the output device, and so on.  The devices are the    *)
(* environment: a device may answer at any time, or never (Pending), and   *)
(* one that answers may move nothing (an error counts as nothing).         *)
(* In this composition nobody holds a half, so nobody ever closes a side:  *)
(* the TX_CLOSED and RX_CLOSED tests of the loop always find the bit clear *)
(* and are left out.                                                       *)
(*                                                                         *)
(* Items are numbered as the input device delivers them, modulo Modulus,   *)
(* which exceeds the capacity, so the stream of items has no end.          *)
(***************************************************************************)
EXTENDS IoPos, Sequences

CONSTANT Modulus        \* bound: number of distinct item numbers

ASSUME ModulusAssumption == Modulus \in Nat /\ Modulus > Capacity

VARIABLES blocking,             \* the devices answer only when they move
                                \*   something
          pos, cells,
          stndby, slot,         \* TX_STNDBY, RX_STNDBY and the wake slots
          pc,
          inMoved, outMoved,    \* progress of this round
          cancelled,            \* the token of this pipe_async call
          nIn, nOut,            \* next item to come in, next to go out
          batch                 \* the items of the last write

vars == <<blocking, pos, cells, stndby, slot, pc, inMoved, outMoved, cancelled,
          nIn, nOut, batch>>

Ends == {"tx", "rx"}

Init ==
    /\ blocking \in BOOLEAN
    /\ pos = StartPos
    /\ cells = [c \in Cells |-> 0]
    /\ stndby = [s \in Ends |-> FALSE]
    /\ slot = [s \in Ends |-> FALSE]
    /\ pc = "initIn"
    /\ inMoved = 0 /\ outMoved = 0
    /\ cancelled = FALSE
    /\ nIn = 0 /\ nOut = 0
    /\ batch = << >>

(* How much a device that was offered n cells may move.  Blocking devices
   do not answer "nothing". *)
Answers(n) == (IF blocking THEN 1 ELSE 0) .. n

(* The input device fills the n cells after the write position, which is then
   advanced; the output device takes the n cells after the read position. *)
Fill(n) ==
    /\ cells' = [c \in Cells |->
                    IF c \in pos.wp .. pos.wp + n - 1
                    THEN (nIn + (c - pos.wp)) % Modulus
                    ELSE cells[c]]
    /\ pos' = AdvanceWp(pos, n)
    /\ nIn' = (nIn + n) % Modulus

Deliver(n) ==
    /\ batch' = [i \in 1 .. n |-> cells[CellAt(pos.rp, i - 1)]]
    /\ pos' = AdvanceRp(pos, n)
    /\ nOut' = (nOut + n) % Modulus

-----------------------------------------------------------------------------
(* build_async: each device is polled once, whatever it moves is committed,
   and the end is armed. *)
InitInput ==
    /\ pc = "initIn"
    /\ \E n \in 0 .. FreeSize(pos) : Fill(n)
    /\ stndby' = [stndby EXCEPT !["tx"] = TRUE]
    /\ pc' = "initOut"
    /\ UNCHANGED <<blocking, slot, inMoved, outMoved, cancelled, nOut, batch>>

InitOutput ==
    /\ pc = "initOut"
    /\ \E n \in 0 .. DataSize(pos) : Deliver(n)
    /\ stndby' = [stndby EXCEPT !["rx"] = TRUE]
    /\ pc' = "ready"
    /\ UNCHANGED <<blocking, cells, slot, inMoved, outMoved, cancelled, nIn>>

(* pipe_async: the future is created and polled. *)
Pipe ==
    /\ pc = "ready"
    /\ cancelled' = FALSE
    /\ pc' = "loop"
    /\ UNCHANGED <<blocking, pos, cells, stndby, slot, inMoved, outMoved, nIn, nOut,
                   batch>>

(* The caller's token fires; the loop looks at it only at its head. *)
Cancel ==
    /\ pc \notin {"initIn", "initOut", "ready"} /\ ~cancelled
    /\ cancelled' = TRUE
    /\ UNCHANGED <<blocking, pos, cells, stndby, slot, pc, inMoved, outMoved, nIn, nOut,
                   batch>>

(* Head of the loop: return, or start one read of the input device unless
   the ring is full. *)
Loop ==
    /\ pc = "loop"
    /\ pc' = IF cancelled THEN "ready"
             ELSE IF FreeSize(pos) = 0 THEN "output" ELSE "reading"
    /\ inMoved' = 0
    /\ UNCHANGED <<blocking, pos, cells, stndby, slot, outMoved, cancelled, nIn, nOut,
                   batch>>

(* The physically contiguous free cells, and full ones. *)
InTakeAll(p) == FreeSize(p)
InTake(p) ==
    IF FreeSize(p) < Capacity - p.wp THEN FreeSize(p) ELSE Capacity - p.wp

OutTake(p) ==
    IF DataSize(p) < Capacity - p.rp THEN DataSize(p) ELSE Capacity - p.rp

(* The input device answers; what it moved is committed at once.  The commit
   fires the consumer's slot if it is armed; no waiter is registered, because
   the task that would wait is the one that runs. *)
InputAnswers ==
    /\ pc = "reading"
    /\ \E n \in Answers(InTake(pos)) :
         /\ inMoved' = n
         /\ Fill(n)
         /\ slot' = [slot EXCEPT !["rx"] = @ /\ ~(stndby["rx"] /\ n > 0)]
    /\ pc' = "output"
    /\ UNCHANGED <<blocking, stndby, outMoved, cancelled, nOut, batch>>

(* pipe_output_once starts a write unless the ring is empty. *)
Output ==
    /\ pc = "output"
    /\ pc' = IF DataSize(pos) = 0 THEN "round" ELSE "writing"
    /\ outMoved' = 0
    /\ UNCHANGED <<blocking, pos, cells, stndby, slot, inMoved, cancelled, nIn, nOut,
                   batch>>

OutputAnswers ==
    /\ pc = "writing"
    /\ \E n \in Answers(OutTake(pos)) :
         /\ outMoved' = n
         /\ Deliver(n)
         /\ slot' = [slot EXCEPT !["tx"] = @ /\ ~(stndby["tx"] /\ n > 0)]
    /\ pc' = "round"
    /\ UNCHANGED <<blocking, cells, stndby, inMoved, cancelled, nIn>>

(* A slip: parking whenever nothing came in. *)
RoundStopsEarly ==
    /\ pc = "round"
    /\ pc' = IF inMoved > 0 THEN "loop" ELSE "pending"
    /\ UNCHANGED <<blocking, pos, cells, stndby, slot, inMoved, outMoved, cancelled, nIn,
                   nOut, batch>>

(* End of a round.  Without progress the task parks: on the producer's slot
   when the ring is full, on the consumer's when it is empty, for ever when
   it is neither. *)
Round ==
    /\ pc = "round"
    /\ \/ /\ inMoved + outMoved > 0
          /\ pc' = "loop"
          /\ UNCHANGED <<stndby, slot>>
       \/ /\ inMoved + outMoved = 0
          /\ FreeSize(pos) = 0
          /\ pc' = "parkedTx"
          /\ stndby' = [stndby EXCEPT !["tx"] = TRUE]
          /\ slot' = [slot EXCEPT !["tx"] = TRUE]
       \/ /\ inMoved + outMoved = 0
          /\ FreeSize(pos) # 0 /\ DataSize(pos) = 0
          /\ pc' = "parkedRx"
          /\ stndby' = [stndby EXCEPT !["rx"] = TRUE]
          /\ slot' = [slot EXCEPT !["rx"] = TRUE]
       \/ /\ inMoved + outMoved = 0
          /\ FreeSize(pos) # 0 /\ DataSize(pos) # 0
          /\ pc' = "pending"
          /\ UNCHANGED <<stndby, slot>>
    /\ UNCHANGED <<blocking, pos, cells, inMoved, outMoved, cancelled, nIn, nOut, batch>>

(* A slip: the waiter of a dropped future left in its slot. *)
DropPipeKeepsSlot ==
    /\ pc \in {"reading", "writing", "parkedTx", "parkedRx", "pending"}
    /\ pc' = "ready"
    /\ UNCHANGED <<blocking, pos, cells, stndby, slot, inMoved, outMoved, cancelled, nIn,
                   nOut, batch>>

(* The caller drops the future; a park's guard deregisters and unarms. *)
DropPipe ==
    /\ pc \in {"reading", "writing", "parkedTx", "parkedRx", "pending"}
    /\ LET left == CASE pc = "parkedTx" -> {"tx"}
                     [] pc = "parkedRx" -> {"rx"}
                     [] OTHER -> {}
       IN /\ slot' = [s \in Ends |-> slot[s] /\ s \notin left]
          /\ stndby' = [s \in Ends |-> stndby[s] /\ s \notin left]
    /\ pc' = "ready"
    /\ UNCHANGED <<blocking, pos, cells, inMoved, outMoved, cancelled, nIn, nOut, batch>>

-----------------------------------------------------------------------------
(* What the task does by itself, and what its caller does. *)
Task == InitInput \/ InitOutput \/ Loop \/ Output \/ Round
Caller == Pipe \/ Cancel \/ DropPipe

Next == Task \/ Caller \/ InputAnswers \/ OutputAnswers

Spec == Init /\ [][Next]_vars

(* The future is spawned on an executor, so its own code runs, and the output
   device answers in the end.  The input device may stop delivering, and
   nothing is assumed of the caller. *)
OutputFair == Spec /\ WF_vars(Task) /\ WF_vars(OutputAnswers)

(* ... and an input device that never stops delivering. *)
DevicesFair == OutputFair /\ WF_vars(InputAnswers)

-----------------------------------------------------------------------------
(* Type invariant. *)
TypeOK ==
    /\ blocking \in BOOLEAN
    /\ pos \in Positions
    /\ cells \in [Cells -> 0 .. Modulus - 1]
    /\ stndby \in [Ends -> BOOLEAN] /\ slot \in [Ends -> BOOLEAN]
    /\ pc \in {"initIn", "initOut", "ready", "loop", "reading", "output",
               "writing", "round", "parkedTx", "parkedRx", "pending"}
    /\ inMoved \in 0 .. Capacity /\ outMoved \in 0 .. Capacity
    /\ cancelled \in BOOLEAN
    /\ nIn \in 0 .. Modulus - 1 /\ nOut \in 0 .. Modulus - 1
    /\ batch \in Seq(0 .. Modulus - 1)

(* The output device receives the items the input device delivered, in order,
   none missing and none twice, however the two devices split them and
   wherever the ring wraps. *)
DeliveredInOrder ==
    \A i \in 1 .. Len(batch) :
        batch[i] = (nOut + Modulus - Len(batch) + (i - 1)) % Modulus

(* A slot is registered exactly while its park is in progress: no dangling
   waiter survives a dropped pipeline future. *)
SlotOnlyWhileParked ==
    /\ slot["tx"] <=> pc = "parkedTx"
    /\ slot["rx"] <=> pc = "parkedRx"

(* As long as both devices move something when they answer and keep
   answering, whatever is in the ring goes out while the future is neither
   cancelled nor dropped. *)
DataFlows ==
    \A r \in 0 .. Modulus - 1 :
        (blocking /\ DataSize(pos) > 0 /\ nOut = r)
            ~> (nOut # r \/ cancelled \/ pc = "ready")

-----------------------------------------------------------------------------
(* Claims of the repository's comments that the code does not keep. *)

(* "What has been read is still committed and flows to the output pump when
   the device blocks": with a ready output device, the ring drains. *)
ReadDataReachesOutput == DataFlows

(* "On disconnect the pipeline ... drains the buffered rest to the output
   device and then ends". *)
DisconnectDrains ==
    pc = "ready" /\ cancelled => DataSize(pos) = 0

=============================================================================
