------------------------------ MODULE Segments ------------------------------
(***************************************************************************)
(* The segments a buffer lends (crates/abs_buff/src/buffer/segm_.rs, the   *)
(* slice buffers of slice_impl_.rs and the two-piece segments of           *)
(* buffex's reclaim_.rs): a window of cells with an offset of what has     *)
(* been consumed, children cut out of it, and a drop that adds the child's *)
(* offset to its parent's and, at the root, to the buffer's position.      *)
(*                                                                         *)
(* The borrow checker lets only the innermost child be used, so a buffer's *)
(* open segments are a chain.  The source buffer holds the items 1..Cap in *)
(* this order, the target has Cap free cells; both are rings that begin at *)
(* the cell start, or flat (start = 0).                                    *)
(***************************************************************************)
EXTENDS DemandRange, Sequences

CONSTANTS Cap,          \* cells of either buffer
          Wants,        \* demands callers state
          MaxOpen       \* open segments of both chains

ASSUME SegmentsAssumption ==
    /\ Cap \in Nat \ {0} /\ MaxOpen \in Nat \ {0}
    /\ \A d \in Wants : WellFormed(d)

Stores == {"ring", "slice", "array"}

VARIABLES store,        \* what the segments are cut from
          start,        \* the first cell
          rp, wp,       \* items consumed and cells filled, as committed
          rd, wr,       \* the chains of open read and write segments
          mem,          \* the target's cells, 0 when not written
          moved,        \* history: items moved out by consuming reads
          written,      \* history: items put in
          call,         \* an async move to or from a device
          unwinding     \* a panic is dropping the segments

segmVars == <<store, start, rp, wp, rd, wr, mem, moved, written, call, unwinding>>

-----------------------------------------------------------------------------
(* Windows.                                                                *)

Piece(from, len) == [from |-> from, len |-> len]
NoPiece == Piece(0, 0)
Segm(a, b, commits) == [a |-> a, b |-> b, off |-> 0, commits |-> commits]

LeastCount(s) == s.a.len + s.b.len - s.off
CellsFrom(p, o) == [i \in 1..(p.len - o) |-> p.from + o + i - 1]

\* remaining_ref, behind iter_slices: the cells not consumed, in order.
Remaining(s) == IF s.off < s.a.len THEN CellsFrom(s.a, s.off) \o CellsFrom(s.b, 0)
                                   ELSE CellsFrom(s.b, s.off - s.a.len)

\* current: what is left of the piece the offset is in.
Current(s) == IF s.off < s.a.len THEN Piece(s.a.from + s.off, s.a.len - s.off)
              ELSE Piece(s.b.from + s.off - s.a.len, s.a.len + s.b.len - s.off)

\* create_read_segm, create_write_segm and with_limit: n cells from pos on,
\* in two pieces when they go round the end.
Window(pos, n, commits) ==
    LET at == (start + pos) % Cap IN
    IF at + n <= Cap THEN Segm(Piece(at, n), NoPiece, commits)
    ELSE Segm(Piece(at, Cap - at), Piece(0, n - (Cap - at)), commits)

Upper(d) == IF d.kind = "AtLeast" THEN MaxVal ELSE d.hi
Lower(d) == IF d.kind = "LessThan" THEN 0 ELSE d.lo

\* How much is lent of what is there, for a demand it meets.
Lent(d, avail) == Smaller(Upper(d), avail)

Last(s) == s[Len(s)]
FrontOf(s) == SubSeq(s, 1, Len(s) - 1)
Advanced(chain, n) == [chain EXCEPT ![Len(chain)].off = @ + n]
First(s, n) == SubSeq(s, 1, n)

\* A slip: reclaim stores the child's offset as the parent's, over what the
\* parent has consumed itself.
PoppedReplaces(chain) ==
    IF Len(chain) = 1 THEN << >>
    ELSE [FrontOf(chain) EXCEPT ![Len(chain) - 1].off = Last(chain).off]

\* Drop for SegmRef and SegmMut: reclaim adds the offset to the parent's.
Popped(chain) == IF Len(chain) = 1 THEN << >> ELSE Advanced(FrontOf(chain), Last(chain).off)

-----------------------------------------------------------------------------
NoCall == [on |-> "none", cells |-> << >>, max |-> 0, c |-> 0]

SegmInit == /\ store \in Stores
            /\ start \in IF store = "ring" THEN 0..(Cap - 1) ELSE {0}
            /\ rp = 0 /\ wp = 0 /\ rd = << >> /\ wr = << >>
            /\ mem = [p \in 0..(Cap - 1) |-> 0]
            /\ moved = << >> /\ written = << >>
            /\ call = NoCall /\ unwinding = FALSE

\* The item in a cell of the source.
ItemAt(p) == ((p - start + Cap) % Cap) + 1
Items(cells) == [i \in DOMAIN cells |-> ItemAt(cells[i])]
Fresh(n) == [i \in 1..n |-> 100 + Len(written) + i]

\* The target with these items in these cells.
Stored(cells, items) ==
    [p \in DOMAIN mem |-> IF \E i \in DOMAIN items : cells[i] = p
                          THEN items[CHOOSE i \in DOMAIN items : cells[i] = p] ELSE mem[p]]

Idle == call = NoCall /\ ~unwinding
UnchangedRest == UNCHANGED <<store, start, unwinding>>

-----------------------------------------------------------------------------
(* Lending.                                                                *)

\* try_read of a ring or of a byte slice; a value that only borrows as a
\* slice (an array) is not advanced when the segment is dropped.
OpenRead(d) ==
    LET ready == Cap - rp IN
    /\ Idle /\ rd = << >>
    /\ ready > 0 /\ ready >= Lower(d)
    /\ rd' = <<Window(rp, Lent(d, ready), store # "array")>>
    /\ UnchangedRest /\ UNCHANGED <<rp, wp, wr, mem, moved, written, call>>

\* try_peek: NoReclaim, ReadReclaim::Peek.
OpenPeek(d) ==
    LET ready == Cap - rp IN
    /\ Idle /\ rd = << >> /\ store = "ring"
    /\ ready > 0 /\ ready >= Lower(d)
    /\ rd' = <<Window(rp, Lent(d, ready), FALSE)>>
    /\ UnchangedRest /\ UNCHANGED <<rp, wp, wr, mem, moved, written, call>>

\* try_write.
OpenWrite(d) ==
    LET free == Cap - wp IN
    /\ Idle /\ wr = << >>
    /\ free > 0 /\ free >= Lower(d)
    /\ wr' = <<Window(wp, Lent(d, free), store # "array")>>
    /\ UnchangedRest /\ UNCHANGED <<rp, wp, rd, mem, moved, written, call>>

-----------------------------------------------------------------------------
(* Children.                                                               *)

\* as_segm_ref, as_segm_mut.
AsSegm(s) == Segm(Current(s), NoPiece, TRUE)

\* take_segm_ref, take_segm_mut, when the compromise has a value.
TakeSegm(s, d) ==
    LET cur == Current(s)
        max == Compromise(d, LessThan(LeastCount(s))).hi
    IN Segm(Piece(cur.from, Smaller(max, cur.len)), NoPiece, TRUE)

ReadChild ==
    /\ Idle /\ rd # << >> /\ Len(rd) + Len(wr) < MaxOpen
    /\ \/ rd' = Append(rd, AsSegm(Last(rd)))
       \/ \E d \in Wants : /\ LeastCount(Last(rd)) > 0
                           /\ IsDemand(Compromise(d, LessThan(LeastCount(Last(rd)))))
                           /\ rd' = Append(rd, TakeSegm(Last(rd), d))
    /\ UnchangedRest /\ UNCHANGED <<rp, wp, wr, mem, moved, written, call>>

WriteChild ==
    /\ Idle /\ wr # << >> /\ Len(rd) + Len(wr) < MaxOpen
    /\ \/ wr' = Append(wr, AsSegm(Last(wr)))
       \/ \E d \in Wants : /\ LeastCount(Last(wr)) > 0
                           /\ IsDemand(Compromise(d, LessThan(LeastCount(Last(wr)))))
                           /\ wr' = Append(wr, TakeSegm(Last(wr), d))
    /\ UnchangedRest /\ UNCHANGED <<rp, wp, rd, mem, moved, written, call>>

\* Demand::between panics on an empty range: at_least(n) meets exactly n.
TakePanics ==
    /\ Idle
    /\ \E chain \in {rd, wr}, d \in Wants :
          /\ chain # << >> /\ LeastCount(Last(chain)) > 0
          /\ Compromise(d, LessThan(LeastCount(Last(chain)))) = Panic
    /\ unwinding' = TRUE
    /\ UNCHANGED <<store, start, rp, wp, rd, wr, mem, moved, written, call>>

\* Drop of the innermost read segment: into its parent, or, at the root,
\* advance_read (circular and ring), advance_slice (slices).
DropRead ==
    /\ call = NoCall /\ rd # << >>
    /\ rd' = Popped(rd)
    /\ rp' = IF Len(rd) = 1 /\ rd[1].commits THEN rp + rd[1].off ELSE rp
    /\ unwinding' = (unwinding /\ (rd' # << >> \/ wr # << >>))
    /\ UNCHANGED <<store, start, wp, wr, mem, moved, written, call>>

\* ... and of the innermost write segment: advance_write.
DropWrite ==
    /\ call = NoCall /\ wr # << >>
    /\ wr' = Popped(wr)
    /\ wp' = IF Len(wr) = 1 /\ wr[1].commits THEN wp + wr[1].off ELSE wp
    /\ unwinding' = (unwinding /\ (rd # << >> \/ wr' # << >>))
    /\ UNCHANGED <<store, start, rp, rd, mem, moved, written, call>>

-----------------------------------------------------------------------------
(* Moving items.  The trait's loops over as_segm children, which end when  *)
(* either side has nothing left, are one step.                             *)

NowMoved(items) == moved' = IF rd[1].commits THEN moved \o items ELSE moved
NowWritten(cells, items) ==
    /\ mem' = Stored(cells, items)
    /\ written' = IF wr[1].commits THEN written \o items ELSE written

\* move_items_to_segm, move_items_from_segm.
MoveItems ==
    /\ Idle /\ rd # << >> /\ wr # << >>
    /\ LET n == Smaller(LeastCount(Last(rd)), LeastCount(Last(wr)))
           items == Items(First(Remaining(Last(rd)), n))
       IN /\ NowMoved(items) /\ NowWritten(First(Remaining(Last(wr)), n), items)
          /\ rd' = Advanced(rd, n) /\ wr' = Advanced(wr, n)
    /\ UnchangedRest /\ UNCHANGED <<rp, wp, call>>

\* clone_items_to_segm of a child: the source keeps its offset.
CloneItems ==
    /\ Idle /\ Len(rd) > 1 /\ Len(wr) > 1
    /\ LET n == Smaller(LeastCount(Last(rd)), LeastCount(Last(wr)))
       IN /\ NowWritten(First(Remaining(Last(wr)), n), Items(First(Remaining(Last(rd)), n)))
          /\ wr' = Advanced(wr, n)
    /\ UnchangedRest /\ UNCHANGED <<rp, wp, rd, moved, call>>

\* move_items_to_buff into a slice of k cells.
MoveToBuff(k) ==
    /\ Idle /\ rd # << >>
    /\ LET n == Smaller(k, LeastCount(Last(rd)))
       IN NowMoved(Items(First(Remaining(Last(rd)), n))) /\ rd' = Advanced(rd, n)
    /\ UnchangedRest /\ UNCHANGED <<rp, wp, wr, mem, written, call>>

\* move_items_from_buff, clone_items_from_buff, from a slice of k items.
MoveFromBuff(k) ==
    /\ Idle /\ wr # << >>
    /\ LET n == Smaller(k, LeastCount(Last(wr)))
       IN NowWritten(First(Remaining(Last(wr)), n), Fresh(n)) /\ wr' = Advanced(wr, n)
    /\ UnchangedRest /\ UNCHANGED <<rp, wp, rd, moved, call>>

-----------------------------------------------------------------------------
(* The async moves of a child to an output and from an input: the cells    *)
(* are looked up once, then the loop runs until the demand's maximum, a    *)
(* zero, an error, or the future is dropped.                               *)

Calling(on, chain, d) ==
    LET agreed == Compromise(d, LessThan(LeastCount(Last(chain)))) IN
    /\ Idle /\ Len(chain) > 1
    /\ IsDemand(agreed) /\ agreed.hi > 0
    /\ call' = [on |-> on, cells |-> Remaining(Last(chain)), max |-> agreed.hi, c |-> 0]
    /\ UnchangedRest /\ UNCHANGED <<rp, wp, rd, wr, mem, moved, written>>

StartOutput(d) == Calling("out", rd, d)
StartInput(d) == Calling("in", wr, d)

\* After k more items: the loop head, and the early returns.
CallAfter(k, fails) == IF k = 0 \/ fails \/ call.c + k >= call.max THEN NoCall
                       ELSE [call EXCEPT !.c = @ + k]
Turn(k) == SubSeq(call.cells, call.c + 1, call.c + k)
MayTurn(k) == k <= Smaller(Len(call.cells), call.max) - call.c

\* The output took k items of those offered, and may report an error too.
OutputStep(k, fails) ==
    /\ call.on = "out" /\ MayTurn(k)
    /\ NowMoved(Items(Turn(k))) /\ rd' = Advanced(rd, k)
    /\ call' = CallAfter(k, fails)
    /\ UnchangedRest /\ UNCHANGED <<rp, wp, wr, mem, written>>

\* A slip: the next turn begins at the first cell again.
InputStepRestarts(k, fails) ==
    /\ call.on = "in" /\ MayTurn(k)
    /\ NowWritten(First(call.cells, k), Fresh(k)) /\ wr' = Advanced(wr, k)
    /\ call' = CallAfter(k, fails)
    /\ UnchangedRest /\ UNCHANGED <<rp, wp, rd, moved>>

\* The input gave k items.
InputStep(k, fails) ==
    /\ call.on = "in" /\ MayTurn(k)
    /\ NowWritten(Turn(k), Fresh(k)) /\ wr' = Advanced(wr, k)
    /\ call' = CallAfter(k, fails)
    /\ UnchangedRest /\ UNCHANGED <<rp, wp, rd, moved>>

\* The future is dropped at its await.
DropCall == /\ call # NoCall /\ call' = NoCall
            /\ UnchangedRest /\ UNCHANGED <<rp, wp, rd, wr, mem, moved, written>>

-----------------------------------------------------------------------------
SegmNext == \/ \E d \in Wants : \/ OpenRead(d) \/ OpenPeek(d) \/ OpenWrite(d)
                                \/ StartOutput(d) \/ StartInput(d)
            \/ ReadChild \/ WriteChild \/ TakePanics \/ DropRead \/ DropWrite
            \/ MoveItems \/ CloneItems
            \/ \E k \in 1..Cap : MoveToBuff(k) \/ MoveFromBuff(k)
            \/ \E k \in 0..Cap, fails \in BOOLEAN : OutputStep(k, fails) \/ InputStep(k, fails)
            \/ DropCall

SegmSpec == SegmInit /\ [][SegmNext]_segmVars

-----------------------------------------------------------------------------
(* Properties.                                                             *)

InFlight(chain) == IF chain # << >> /\ chain[1].commits
                   THEN LET Off[i \in 0..Len(chain)] == IF i = 0 THEN 0 ELSE Off[i - 1] + chain[i].off
                        IN Off[Len(chain)]
                   ELSE 0

\* Whatever chain of children items are moved through, round the end of the
\* buffer or not, to another segment, a slice or a device that takes them in
\* parts and fails, they leave the source each once and in order, and the
\* source's position plus the offsets of the open chain counts them.  So a
\* child dropped with items not moved leaves them to its parent, and the next
\* borrow begins with them ("only peek, do not consume", says the test
\* segm_ref_take_consume_next_is_next).
MovedOnce == /\ moved = [i \in 1..Len(moved) |-> i]
             /\ Len(moved) = rp + InFlight(rd)

\* The target holds what was put in, in order, from its first cell on, and
\* nothing elsewhere: a move through a child never writes past what the
\* position will be advanced by.
WrittenInOrder ==
    store # "array" =>
        /\ Len(written) = wp + InFlight(wr)
        /\ \A p \in DOMAIN mem : LET i == ItemAt(p) IN
              mem[p] = IF i <= Len(written) THEN written[i] ELSE 0

-----------------------------------------------------------------------------
(* Claims of the repository's comments that the code does not keep.        *)

\* A child that is shorter than the piece its parent had to cut it from is one
\* of take_segm's; it is dropped when the chain becomes shorter by it.
TakenDropped(chain, next) ==
    LET n == Len(chain) - 1 IN
    /\ n > 0 /\ Len(next) = n
    /\ Last(chain).a.len < Current(chain[n]).len

\* take_segm_ref and take_segm_mut: "Will reduce the length of the segment when
\* the taken slice drops. The amount of the reducing will be the size of taken
\* slice no matter if the items in it are actually moved or not."  The code
\* reduces it by the items moved, and a test of the same file asserts that.
TakenIsConsumed ==
    [][/\ TakenDropped(rd, rd') => Last(rd').off = rd[Len(rd) - 1].off + Last(rd).a.len
       /\ TakenDropped(wr, wr') => Last(wr').off = wr[Len(wr) - 1].off + Last(wr).a.len]_segmVars

\* "Create demand ranged which contains only one value": the buffer lends,
\* and take_segm cuts, a length the demand accepts.  The code takes max(),
\* the excluded end of the range, for the length.
LentIsAccepted ==
    rd # << >> => \E d \in Wants : rd[1].a.len + rd[1].b.len \in Accepts(d)

=============================================================================
