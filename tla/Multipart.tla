----------------------------- MODULE Multipart -----------------------------
(***************************************************************************)
(* The multipart transfer of crates/abs_buff_utils/src/multipart: an       *)
(* encoder that cuts what a source buffer holds into chunks of a length    *)
(* prefix and payload and writes them to a target buffer, and a decoder    *)
(* that reads the target and lends its caller the payload alone.  A zero   *)
(* prefix ends the stream.                                                 *)
(*                                                                         *)
(* The buffers are what TrBuffRead and TrBuffWrite promise: queues of      *)
(* bytes, whose read and write futures wait, fail, or return early when    *)
(* the token they were given is cancelled.                                 *)
(***************************************************************************)
EXTENDS Integers, Sequences

CONSTANTS Base,         \* values of a byte, 256 in the code
          PrefixLen,    \* bytes of a prefix
          TgtCap,       \* cells of the target buffer, at least PrefixLen
          Streams,      \* byte strings a source may be fed
          Mins,         \* lower bounds the decoder's caller asks for
          MaxStarts     \* calls of start_async

ASSUME MultipartAssumption ==
    /\ Base \in Nat /\ Base >= 2 /\ PrefixLen \in Nat \ {0} /\ TgtCap \in Nat
    /\ Streams \subseteq Seq(Nat) /\ Mins \subseteq Nat

\* PREFIX_MAX, 1 << BITS: how many values a prefix has.
PrefixMax == LET Power[k \in 0..PrefixLen] == IF k = 0 THEN 1 ELSE Power[k - 1] * Base
             IN Power[PrefixLen]

VARIABLES feed,         \* what the source is fed, byte by byte
          fed,          \* history: every byte given to the source
          src, srcClosed,
          tgt, tgtClosed,
          enc,          \* the encoder's future
          starts,       \* start_async calls so far
          cancelled,    \* its token
          torn,         \* history: started again in the middle of a chunk
          dec,          \* MultipartRecv, and where its read future is
          got           \* history: payload bytes the decoder's caller took

mpVars == <<feed, fed, src, srcClosed, tgt, tgtClosed, enc, starts, cancelled, torn, dec, got>>
srcVars == <<feed, fed, srcClosed>>
decVars == <<dec, got>>

Min2(a, b) == IF a <= b THEN a ELSE b
Drop(s, n) == SubSeq(s, n + 1, Len(s))
Room == TgtCap - Len(tgt)

\* The low PrefixLen bytes of to_be_bytes, and the decoder's reading of them.
PrefixBytes(n) ==
    LET Shifted[k \in 0..PrefixLen] == IF k = 0 THEN n ELSE Shifted[k - 1] \div Base
    IN [i \in 1..PrefixLen |-> Shifted[PrefixLen - i] % Base]
PrefixValue(bytes) ==
    LET Val[i \in 0..PrefixLen] == IF i = 0 THEN 0 ELSE Val[i - 1] * Base + bytes[i]
    IN Val[PrefixLen]

MpInit == /\ feed \in Streams /\ fed = << >> /\ src = << >> /\ srcClosed = FALSE
          /\ tgt = << >> /\ tgtClosed = FALSE
          /\ enc = [pc |-> "top", size |-> 0, cc |-> 0, held |-> << >>, room |-> 0, res |-> "running"]
          /\ starts = 1 /\ cancelled = FALSE /\ torn = FALSE
          /\ dec = [pc |-> "idle", left |-> 0, eof |-> FALSE, min |-> 0, lent |-> 0, err |-> "none"]
          /\ got = << >>

-----------------------------------------------------------------------------
(* The owners of the two buffers, and of the token.                        *)

Feed == /\ ~srcClosed /\ Len(fed) < Len(feed)
        /\ LET b == feed[Len(fed) + 1] IN fed' = Append(fed, b) /\ src' = Append(src, b)
        /\ UNCHANGED <<feed, srcClosed, tgt, tgtClosed, enc, starts, cancelled, torn, decVars>>
CloseSource == /\ ~srcClosed /\ srcClosed' = TRUE
               /\ UNCHANGED <<feed, fed, src, tgt, tgtClosed, enc, starts, cancelled, torn, decVars>>
CloseTarget == /\ enc.pc = "done" /\ ~tgtClosed /\ tgtClosed' = TRUE
               /\ UNCHANGED <<srcVars, src, tgt, enc, starts, cancelled, torn, decVars>>
Cancel == /\ enc.pc # "done" /\ ~cancelled /\ cancelled' = TRUE
          /\ UNCHANGED <<srcVars, src, tgt, tgtClosed, enc, starts, torn, decVars>>

-----------------------------------------------------------------------------
(* The encoder, multipart_send_async_.                                     *)

EncRest == UNCHANGED <<srcVars, tgtClosed, starts, cancelled, torn, decVars>>
Ends(r) == [enc EXCEPT !.pc = "done", !.res = r, !.held = << >>]

\* The payload of the next chunk; zero is the end's.
Chunk(avail) == Min2(avail, PrefixMax - 1)

\* Loop head: cancelled, data, the end, or nothing yet.
Top == /\ enc.pc = "top"
       /\ enc' = IF cancelled THEN Ends("left")
                 ELSE IF src # << >> THEN [enc EXCEPT !.pc = "prefix", !.size = Chunk(Len(src)), !.cc = 0]
                 ELSE [enc EXCEPT !.pc = IF srcClosed THEN "zero" ELSE "wait"]
       /\ EncRest /\ UNCHANGED <<src, tgt>>

\* The read that only waits: data, or Closing (is_read_eof_).
Waited == /\ enc.pc = "wait" /\ (src # << >> \/ srcClosed)
          /\ enc' = [enc EXCEPT !.pc = IF src # << >> THEN "top" ELSE "zero"]
          /\ EncRest /\ UNCHANGED <<src, tgt>>

\* write_zero_prefix_async_.
WriteZero == /\ enc.pc = "zero" /\ Room >= PrefixLen
             /\ tgt' = tgt \o PrefixBytes(0)
             /\ enc' = Ends("eof")
             /\ EncRest /\ UNCHANGED src

\* A slip: room for the whole chunk is asked for at once.
WritePrefixWhole == /\ enc.pc = "prefix" /\ Room >= PrefixLen + enc.size
                    /\ tgt' = tgt \o PrefixBytes(enc.size)
                    /\ enc' = [enc EXCEPT !.pc = "target"]
                    /\ EncRest /\ UNCHANGED src

\* The prefix alone, so that the target may be smaller than a chunk.
WritePrefix == /\ enc.pc = "prefix" /\ Room >= PrefixLen
               /\ tgt' = tgt \o PrefixBytes(enc.size)
               /\ enc' = [enc EXCEPT !.pc = "target"]
               /\ EncRest /\ UNCHANGED src

\* A target segment of what is free now.
TakeTarget == /\ enc.pc = "target" /\ Room > 0
              /\ enc' = [enc EXCEPT !.pc = "fill", !.room = Room]
              /\ EncRest /\ UNCHANGED <<src, tgt>>

\* One turn of the inner loop: at most the room, at most the rest of the
\* chunk; fewer when the source's data goes round its end.
Fill(n) == /\ enc.pc = "fill" /\ n \in 1..Min2(enc.room, enc.size - enc.cc)
           /\ src' = Drop(src, n)
           /\ enc' = [enc EXCEPT !.held = @ \o SubSeq(src, 1, n), !.room = @ - n, !.cc = @ + n]
           /\ EncRest /\ UNCHANGED tgt

\* The inner loop ends; dropping the segment commits what was moved into it.
DropTarget == /\ enc.pc = "fill" /\ (enc.room = 0 \/ enc.cc >= enc.size)
              /\ tgt' = tgt \o enc.held
              /\ enc' = [enc EXCEPT !.held = << >>, !.pc = IF enc.cc < enc.size THEN "target" ELSE "top"]
              /\ EncRest /\ UNCHANGED src

\* A future of either buffer returns an error: its own, because the token is
\* cancelled while it waits, or, in the middle of a chunk, because the source
\* says it is at its end although it counted these bytes (is_read_eof_).
WaitsForTarget == enc.pc \in {"prefix", "zero", "target"}
EncodeError(why) == IF WaitsForTarget THEN "Target" ELSE IF why = "eof" THEN "Invalid" ELSE "Source"
EncFails(why) == /\ enc.pc \in {"wait", "prefix", "zero", "target", "fill"}
                 /\ why = "cancelled" => cancelled /\ enc.pc # "fill"
                 /\ why = "eof" => enc.pc = "fill"
                 /\ tgt' = tgt \o enc.held
                 /\ enc' = [Ends(EncodeError(why))
                              EXCEPT !.size = IF enc.pc = "prefix" THEN 0 ELSE @]
                 /\ EncRest /\ UNCHANGED src

\* start_async again, with a new token.
MidChunk == enc.cc < enc.size
Restart == /\ enc.pc = "done" /\ ~tgtClosed /\ enc.res # "eof" /\ starts < MaxStarts
           /\ enc' = [enc EXCEPT !.pc = "top", !.size = 0, !.cc = 0, !.res = "running"]
           /\ starts' = starts + 1 /\ cancelled' = FALSE /\ torn' = (torn \/ MidChunk)
           /\ UNCHANGED <<srcVars, src, tgt, tgtClosed, decVars>>

-----------------------------------------------------------------------------
(* The decoder, multipart_decode_read_async_ and its segment.              *)

DecRest == UNCHANGED <<srcVars, src, tgtClosed, enc, starts, cancelled, torn>>

\* read_async with a lower bound: Eof again, or the rest of the chunk, or
\* the next prefix.
Read(min) == /\ dec.pc = "idle" /\ dec.err = "none"
             /\ dec' = [dec EXCEPT !.pc = IF dec.left = 0 THEN "prefix" ELSE "payload", !.min = min]
             /\ DecRest /\ UNCHANGED <<tgt, got>>

\* at_least(PrefixLen), or what is there once the writer has closed.
DecPrefix ==
    LET n == Min2(PrefixLen, Len(tgt))
        v == PrefixValue(SubSeq(tgt, 1, PrefixLen))
    IN /\ dec.pc = "prefix" /\ (n = PrefixLen \/ tgtClosed)
       /\ tgt' = Drop(tgt, n)
       /\ dec' = IF n < PrefixLen THEN [dec EXCEPT !.pc = "idle", !.err = "Invalid"]
                 ELSE IF v = 0 THEN [dec EXCEPT !.pc = "idle", !.err = "Eof", !.eof = TRUE]
                 ELSE [dec EXCEPT !.pc = "payload", !.left = v]
       /\ DecRest /\ UNCHANGED got

\* between(min, left) or less_than(left): at most the rest of the chunk.
DecPayload ==
    LET min == IF dec.min < dec.left THEN dec.min ELSE 0
    IN /\ dec.pc = "payload" /\ tgt # << >> /\ (Len(tgt) >= min \/ tgtClosed)
       /\ dec' = [dec EXCEPT !.pc = "lent", !.lent = Min2(dec.left, Len(tgt))]
       /\ DecRest /\ UNCHANGED <<tgt, got>>

\* The stream ends inside a chunk.
DecCutOff == /\ dec.pc = "payload" /\ tgt = << >> /\ tgtClosed
             /\ dec' = [dec EXCEPT !.pc = "idle", !.err = "Invalid"]
             /\ DecRest /\ UNCHANGED <<tgt, got>>

\* Cancelled, or an error of the source buffer: nothing is consumed.
DecReturns == /\ dec.pc \in {"prefix", "payload"}
              /\ dec' = [dec EXCEPT !.pc = "idle"]
              /\ DecRest /\ UNCHANGED <<tgt, got>>

\* A slip: the whole segment is counted off, whatever was taken of it.
UseCountsAll(k) == /\ dec.pc = "lent" /\ k <= dec.lent
                   /\ got' = got \o SubSeq(tgt, 1, k) /\ tgt' = Drop(tgt, k)
                   /\ dec' = [dec EXCEPT !.pc = "idle", !.left = @ - dec.lent, !.lent = 0]
                   /\ DecRest

\* The caller takes k bytes and drops the segment: the count of the chunk
\* goes down by what the segment lost.
Use(k) == /\ dec.pc = "lent" /\ k <= dec.lent
          /\ got' = got \o SubSeq(tgt, 1, k) /\ tgt' = Drop(tgt, k)
          /\ dec' = [dec EXCEPT !.pc = "idle", !.left = @ - k, !.lent = 0]
          /\ DecRest

-----------------------------------------------------------------------------
EncSteps == Top \/ Waited \/ WriteZero \/ WritePrefix \/ TakeTarget \/ DropTarget
            \/ \E n \in 1..TgtCap : Fill(n)
MpNext == \/ Feed \/ CloseSource \/ CloseTarget \/ Cancel \/ EncSteps
          \/ \E why \in {"error", "eof", "cancelled"} : EncFails(why)
          \/ Restart
          \/ \E m \in Mins : Read(m)
          \/ DecPrefix \/ DecPayload \/ DecCutOff \/ DecReturns
          \/ \E k \in 0..TgtCap : Use(k)

\* Both tasks are polled while they can go on, and the decoder's caller reads
\* on, giving up a wait or taking nothing of a segment only now and then.
MpFairness == /\ WF_mpVars(EncSteps) /\ WF_mpVars(CloseTarget)
              /\ WF_mpVars(\E m \in Mins : Read(m))
              /\ SF_mpVars(DecPrefix) /\ SF_mpVars(DecPayload) /\ SF_mpVars(DecCutOff)
              /\ SF_mpVars(\E k \in 1..TgtCap : Use(k))
MpSpec == MpInit /\ [][MpNext]_mpVars /\ MpFairness

-----------------------------------------------------------------------------
(* Properties.                                                             *)

\* What the decoder's caller takes is the payload as it was fed, with no
\* prefix in it and nothing missing, and Eof comes after all of it, unless
\* the encoder was started again in the middle of a chunk; Invalid is only
\* said of a stream whose encoder gave up.
Transparent ==
    ~torn => /\ Len(got) <= Len(fed) /\ got = SubSeq(fed, 1, Len(got))
             /\ dec.eof => srcClosed /\ got = fed
             /\ dec.err = "Invalid" => tgtClosed /\ enc.res # "eof"

\* A source that is closed reaches the decoder's caller to the end, however
\* small the target, unless the encoder stops on the way.
AllArrives == srcClosed ~> (dec.err # "none" \/ torn \/ (enc.pc = "done" /\ enc.res # "eof"))

=============================================================================
