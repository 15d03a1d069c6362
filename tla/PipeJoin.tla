------------------------------ MODULE PipeJoin ------------------------------
(***************************************************************************)
(* PipeJoin of abs_buff (crates/abs_buff/src/pipelining/join.rs): one task *)
(* that lends segments from a buffer to read and from a buffer to write    *)
(* and moves the items of the first into the second, until either end      *)
(* stops.  The join may be given up, or may fail, and be begun anew on the *)
(* same buffers.                                                           *)
(*                                                                         *)
(* The buffers are any that keep the traits' contract: a read or a write   *)
(* answers with a segment that is not empty, with an error, or with both   *)
(* (SomeOf).  The source's items are 1, 2, ... in this order.              *)
(***************************************************************************)
EXTENDS Integers, Sequences

CONSTANTS Supply,       \* items the source may come to hold
          SizeMax,      \* usize::MAX, the largest count
          ItemSizes     \* size_of::<T>()

ASSUME PipeJoinAssumption ==
    Supply \in Nat /\ SizeMax \in Nat \ {0} /\ ItemSizes \subseteq Nat

VARIABLES itemSize,
          source,       \* items supplied, items consumed, closed
          sink,         \* free cells, closed
          sunk,         \* history: what was written
          join,         \* the task: count, the open read segment and its error
          result,       \* what the last join returned
          sunkBefore    \* history: Len(sunk) when the join began

joinVars == <<itemSize, source, sink, sunk, join, result, sunkBefore>>

NoJoin == [at |-> "idle", c |-> 0, lent |-> 0, off |-> 0, err |-> "none"]
NoResult == [kind |-> "none", count |-> 0]
Lesser(a, b) == IF a < b THEN a ELSE b

JoinInit == /\ itemSize \in ItemSizes
            /\ source = [ready |-> 0, pos |-> 0, closed |-> FALSE]
            /\ sink = [free |-> 0, closed |-> FALSE]
            /\ sunk = << >> /\ join = NoJoin /\ result = NoResult /\ sunkBefore = 0

-----------------------------------------------------------------------------
(* Errors: the retriable ones are Drained, Stuffed and Unsatisfied.        *)

Errors == {"Closing", "Cancelled", "Retriable"}

\* A slip: a closed end is tried again.
ShouldTerminateUnlessClosing(err) == err = "Cancelled"
ShouldTerminate(err) == err \in {"Closing", "Cancelled"}

\* The contract of a read or a write: an end that has nothing to lend answers
\* that it is closed, or to try again; one that has lends some of it, unless
\* the token fires.  An error may come with what is lent.
MayAnswer(n, err, nothing, closed) ==
    \/ n > 0 /\ err # "Closing"
    \/ n = 0 /\ err = "Cancelled"
    \/ n = 0 /\ nothing /\ err = IF closed THEN "Closing" ELSE "Retriable"

-----------------------------------------------------------------------------
(* The task: pipe_async_.                                                  *)

Ended(kind, count) == /\ result' = [kind |-> kind, count |-> count]
                      /\ join' = NoJoin

\* pipe_async is called; items without a size are not moved.
PipeAsync ==
    /\ join.at = "idle"
    /\ sunkBefore' = Len(sunk)
    /\ IF itemSize = 0 THEN Ended("NoOps", 0)
       ELSE join' = [NoJoin EXCEPT !.at = "head"] /\ result' = NoResult
    /\ UNCHANGED <<itemSize, source, sink, sunk>>

IsStuffedClosing == sink.closed /\ sink.free = 0
IsDrainedClosing == source.closed /\ source.pos = source.ready

\* The head of the loop.
LoopHead ==
    /\ join.at = "head"
    /\ IF join.c = SizeMax THEN Ended("SizeLimit", join.c)
       ELSE IF IsStuffedClosing THEN Ended("TxBlocked", join.c)
       ELSE IF IsDrainedClosing THEN Ended("RxDrained", join.c)
       ELSE join' = [join EXCEPT !.at = "read"] /\ UNCHANGED result
    /\ UNCHANGED <<itemSize, source, sink, sunk, sunkBefore>>

ReadDemand == SizeMax - join.c

\* read_async has an answer: n items are lent, or an error, or both.
ReadAnswers(n, err) ==
    /\ join.at = "read"
    /\ n <= Lesser(ReadDemand, source.ready - source.pos)
    /\ MayAnswer(n, err, source.ready = source.pos, source.closed)
    /\ join' = [join EXCEPT !.at = IF n > 0 THEN "inner" ELSE "after",
                            !.lent = n, !.off = 0, !.err = err]
    /\ UNCHANGED <<itemSize, source, sink, sunk, result, sunkBefore>>

\* The inner loop asks for room until the read segment is used up.
InnerHead ==
    /\ join.at = "inner"
    /\ join' = [join EXCEPT !.at = IF join.off = join.lent THEN "after" ELSE "write"]
    /\ UNCHANGED <<itemSize, source, sink, sunk, result, sunkBefore>>

\* A slip: the read segment is consumed whole when it is dropped.
DropSegmWhole == source' = [source EXCEPT !.pos = @ + join.lent]

\* Drop of the read segment: what was moved out of it is consumed.
DropSegm == source' = [source EXCEPT !.pos = @ + join.off]

\* write_async has an answer: n items go into the segment it lends, which may
\* be shorter than what is asked for, and an error may come with it.
WriteAnswers(n, err) ==
    /\ join.at = "write"
    /\ n <= Lesser(sink.free, join.lent - join.off)
    /\ MayAnswer(n, err, sink.free = 0, sink.closed)
    /\ sunk' = sunk \o [i \in 1..n |-> source.pos + join.off + i]
    /\ sink' = [sink EXCEPT !.free = @ - n]
    /\ IF ShouldTerminate(err)
       THEN /\ Ended("TxErr", join.c + n)
            /\ source' = [source EXCEPT !.pos = @ + join.off + n]
       ELSE /\ join' = [join EXCEPT !.at = "inner", !.c = @ + n, !.off = @ + n]
            /\ UNCHANGED <<source, result>>
    /\ UNCHANGED <<itemSize, sunkBefore>>

\* The read's error is looked at once its segment is used up.
AfterRead ==
    /\ join.at = "after"
    /\ DropSegm
    /\ IF ShouldTerminate(join.err) THEN Ended("RxErr", join.c)
       ELSE /\ join' = [NoJoin EXCEPT !.at = "head", !.c = join.c]
            /\ UNCHANGED result
    /\ UNCHANGED <<itemSize, sink, sunk, sunkBefore>>

\* The future is dropped at one of its awaits, and the segment with it.
DropJoin ==
    /\ join.at \in {"read", "write"}
    /\ DropSegm
    /\ join' = NoJoin /\ result' = NoResult
    /\ UNCHANGED <<itemSize, sink, sunk, sunkBefore>>

-----------------------------------------------------------------------------
(* The other users of the buffers.                                         *)

Refill == /\ source.ready < Supply /\ ~source.closed
          /\ source' = [source EXCEPT !.ready = @ + 1]
          /\ UNCHANGED <<itemSize, sink, sunk, join, result, sunkBefore>>
CloseSource == /\ source' = [source EXCEPT !.closed = TRUE]
               /\ UNCHANGED <<itemSize, sink, sunk, join, result, sunkBefore>>
MakeRoom == /\ sink.free < Supply /\ ~sink.closed
            /\ sink' = [sink EXCEPT !.free = @ + 1]
            /\ UNCHANGED <<itemSize, source, sunk, join, result, sunkBefore>>
CloseSink == /\ sink' = [sink EXCEPT !.closed = TRUE]
             /\ UNCHANGED <<itemSize, source, sunk, join, result, sunkBefore>>

JoinLocal == LoopHead \/ InnerHead \/ AfterRead
JoinAnswers == \E n \in 0..Supply, err \in Errors \cup {"none"} : ReadAnswers(n, err) \/ WriteAnswers(n, err)

JoinNext == PipeAsync \/ JoinLocal \/ JoinAnswers \/ DropJoin \/ Refill \/ CloseSource \/ MakeRoom \/ CloseSink

JoinSpec == JoinInit /\ [][JoinNext]_joinVars

-----------------------------------------------------------------------------
(* Properties.                                                             *)

\* Through any sequence of joins that fail, are cancelled, dropped at an await
\* or stopped by the largest count, every item is moved once and in order, the
\* source has consumed exactly what was moved, and the count a join returns is
\* what it moved: "no duplication, no loss" on a retry.
JoinKeepsItems ==
    /\ sunk = [i \in 1..Len(sunk) |-> i]
    /\ source.pos + join.off = Len(sunk)
    /\ join.at = "idle" /\ result.kind # "none" => result.count = Len(sunk) - sunkBefore
    /\ join.at # "idle" => join.c = Len(sunk) - sunkBefore /\ join.c <= SizeMax

\* A join on buffers that are both closed comes to an end: it does not go
\* round for ever on an error it takes for temporary.
JoinEnds == source.closed /\ sink.closed ~> join.at = "idle"

=============================================================================
