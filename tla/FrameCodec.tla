----------------------------- MODULE FrameCodec -----------------------------
(***************************************************************************)
(* smux_v1 handshake frames as bytes: build_frame_ and parse_frame_, and   *)
(* read_frame_async_, which asks a buffer half for one field after another *)
(* as parse_frame_ finds out what it needs.                                *)
(*                                                                         *)
(* A peer may write the entries in any order and wider than necessary, and *)
(* end the frame with either checksum, so the input is a list of fields.   *)
(***************************************************************************)
EXTENDS HandshakeFrames

CONSTANTS FieldLists,   \* what a peer may write between magic and checksum
          Trailers,     \* header bytes it may use for the checksum
          MaxSizes,     \* max_size arguments
          Ideal         \* does the buffer lend no more bytes than were asked
                        \* for, and take out what it lent when the segment is
                        \* dropped unmoved?  Those of this repository lend one
                        \* byte more if it is there, and take out nothing

\* The bytes of a number from the last: what is left of it after 0..w shifts.
Shifts(v, w) ==
    LET rest[i \in 0..w] == IF i = 0 THEN v ELSE rest[i - 1] \div 256
    IN rest

\* A key is half a byte, 12 is the checksum's, and a number fits its width.
Field == [key : 0..15 \ {12}, width : {1, 2, 4, 8}, value : Nat]

ASSUME CodecAssumption ==
    /\ Ideal \in BOOLEAN /\ MaxSizes \subseteq Nat
    /\ FieldLists \subseteq Seq(Field)
    /\ \A fs \in FieldLists : \A i \in DOMAIN fs : Shifts(fs[i].value, fs[i].width)[fs[i].width] = 0
    /\ Trailers \subseteq {h \in 0..255 : h % 16 = 12}

VARIABLES fields, trailer, maxSize,     \* the frame written and the reader's limit
          stream,                       \* bytes the reader has not consumed
          kept,                         \* how many of them it has been lent before
          cut,                          \* has the peer closed inside the frame
          buf,                          \* buf[..len] of read_frame_async_
          res                           \* "reading", or the result

vars == <<fields, trailer, maxSize, stream, kept, cut, buf, res>>

-----------------------------------------------------------------------------
(* Writing.                                                                *)

MagicBytes == [INVITE |-> <<95, 27, 1, 105>>, ACCEPT |-> <<95, 27, 1, 65>>,
               REJECT |-> <<95, 27, 1, 74>>, CONFRM |-> <<95, 27, 1, 99>>]

\* to_be_bytes, cut to a width.
BigEndian(v, w) == [i \in 1..w |-> Shifts(v, w)[w - i] % 256]

\* The high half of a header byte and the width it stands for.
WidthCode == [w \in {1, 2, 4, 8} |-> CASE w = 1 -> 0 [] w = 2 -> 16 [] w = 4 -> 32 [] OTHER -> 48]

\* One entry as encode_basic_entry_ lays it out, for a given width.
EntryBytes(f) == <<WidthCode[f.width] + f.key>> \o BigEndian(f.value, f.width)

\* External: the crc crate, as a function of the bytes covered.
Checksum(bytes, n) ==
    LET sum[i \in 0..Len(bytes)] == IF i = 0 THEN 0 ELSE (sum[i - 1] * 31 + bytes[i]) % 65521
    IN BigEndian(sum[Len(bytes)], n)

TrailerLen(header) == IF header = 28 THEN 2 ELSE 4

\* build_frame_ up to each of the entries: the magic and the entries in turn.
Laid(magic, fs) ==
    LET bytes[i \in 0..Len(fs)] == IF i = 0 THEN MagicBytes[magic] ELSE bytes[i - 1] \o EntryBytes(fs[i])
    IN bytes

\* build_frame_: these, the trailer header, and the checksum over all of it.
BuildFrame(magic, fs, header) ==
    LET body == Laid(magic, fs)[Len(fs)] \o <<header>>
    IN body \o Checksum(body, TrailerLen(header))

-----------------------------------------------------------------------------
(* Reading.                                                                *)

\* A slip: only the last byte counts.
DecodeValueByte(bytes) == bytes[Len(bytes)]

\* decode_value_, which a usize of 64 bits keeps from failing.
DecodeValue(bytes) ==
    LET value[i \in 0..Len(bytes)] == IF i = 0 THEN 0 ELSE value[i - 1] * 256 + bytes[i]
    IN value[Len(bytes)]

Err(tag) == [tag |-> tag, entries |-> Empty, magic |-> "", n |-> 0]
NeedMore(n) == [Err("NeedMore") EXCEPT !.n = n]

\* header & 0x30
WidthOf(header) == CASE (header % 64) \div 16 = 0 -> 1 [] (header % 64) \div 16 = 1 -> 2
                     [] (header % 64) \div 16 = 2 -> 4 [] OTHER -> 8

\* The buffer does not reach up to this byte: parse_frame_ asks for more.
Lacks(b, upto) == Len(b) < upto

\* One turn of the loop of parse_frame_; s holds pos, the entries seen so far
\* and, once the loop has returned, its result.
Turn(b, max, magic, s) ==
    LET at == s.pos + 1
        header == b[at]
        key == header % 16
        end == at + (IF key = 12 THEN TrailerLen(header) ELSE WidthOf(header))
        v == DecodeValue(SubSeq(b, at + 1, end))
        Return(r) == [s EXCEPT !.out = r]
    IN IF s.out.tag # "more" THEN s
       ELSE IF Lacks(b, at) THEN Return(NeedMore(at))
       ELSE IF at > max THEN Return(Err("FrameTooLarge"))
       ELSE IF IF key = 12 THEN header \notin {28, 44} ELSE key \notin Keys THEN Return(Err("UnsupportedOption"))
       ELSE IF Lacks(b, end) THEN Return(NeedMore(end))
       ELSE IF end > max THEN Return(Err("FrameTooLarge"))
       ELSE IF key = 12
       THEN Return(IF SubSeq(b, at + 1, end) # Checksum(SubSeq(b, 1, at), TrailerLen(header))
                   THEN Err("ChecksumErr")
                   ELSE [tag |-> "ok", entries |-> s.entries, magic |-> magic, n |-> end])
       ELSE IF v = 0 \/ s.entries[key] # None THEN Return(Err("MalformedBody"))
       ELSE [pos |-> end, entries |-> [s.entries EXCEPT ![key] = v], out |-> s.out]

\* The loop after each of its turns, of which there are fewer than bytes.
Turns(b, max, magic) ==
    LET loop[k \in 0..Len(b)] == IF k = 0 THEN [pos |-> 4, entries |-> Empty, out |-> Err("more")]
                                 ELSE Turn(b, max, magic, loop[k - 1])
    IN loop

\* parse_frame_
ParseFrame(b, max) ==
    IF Lacks(b, 4) THEN NeedMore(4)
    ELSE IF max < 4 THEN Err("FrameTooLarge")
    ELSE IF \A m \in Magic : SubSeq(b, 1, 4) # MagicBytes[m] THEN Err("InvalidMagic")
    ELSE Turns(b, max, CHOOSE m \in Magic : SubSeq(b, 1, 4) = MagicBytes[m])[Len(b)].out

-----------------------------------------------------------------------------
\* The stream holds the frame and, behind it, the next one.
NextFrame == BuildFrame("CONFRM", << >>, 28)

Init == /\ fields \in FieldLists /\ trailer \in Trailers /\ maxSize \in MaxSizes
        /\ stream = BuildFrame("ACCEPT", fields, trailer) \o NextFrame
        /\ kept = 0 /\ cut = FALSE
        /\ buf = << >>
        /\ res = Err("reading")

\* How many bytes a buffer holding a of them lends for Demand::exactly(n).
Lent(n, a) == LET most == IF Ideal THEN n ELSE n + 1 IN IF a < most THEN a ELSE most

\* read_exact_into_: the demand is what NeedMore asks for.  The read ends when
\* that much has arrived, or the peer has closed after less; what is lent is
\* copied into the n bytes zeroed for it, of which it may leave some as they
\* are, or panic when it is longer.
ReadField == LET p == ParseFrame(buf, maxSize)
                 n == p.n - Len(buf) IN
    /\ res.tag = "reading" /\ p.tag = "NeedMore" /\ p.n <= Cap(maxSize)
    /\ \E a \in 1..Len(stream) : LET k == Lent(n, a) IN
         /\ a >= kept
         /\ IF k > n THEN res' = Err("Panic") /\ UNCHANGED buf
            ELSE buf' = buf \o [i \in 1..n |-> IF i <= k THEN stream[i] ELSE 0] /\ UNCHANGED res
         /\ cut' = (cut \/ a < n)
         /\ LET here == IF a < n THEN SubSeq(stream, 1, a) ELSE stream
            IN stream' = IF Ideal THEN SubSeq(here, k + 1, Len(here)) ELSE here
         /\ kept' = IF Ideal THEN 0 ELSE a
    /\ UNCHANGED <<fields, trailer, maxSize>>

\* read_frame_async_ returns: a frame or an error of its own, or the peer has
\* closed and the buffer has nothing left to lend.
Finish == LET p == ParseFrame(buf, maxSize) IN
    /\ res.tag = "reading"
    /\ \/ p.tag # "NeedMore" /\ res' = p /\ UNCHANGED cut
       \/ p.tag = "NeedMore" /\ p.n > Cap(maxSize) /\ res' = Err("FrameTooLarge") /\ UNCHANGED cut
       \/ p.tag = "NeedMore" /\ p.n <= Cap(maxSize) /\ kept = 0
          /\ res' = Err("PeerClosed") /\ cut' = TRUE
    /\ UNCHANGED <<fields, trailer, maxSize, stream, kept, buf>>

Next == ReadField \/ Finish
Spec == Init /\ [][Next]_vars

-----------------------------------------------------------------------------
(* Properties.                                                             *)

Done == res.tag # "reading"
Written == BuildFrame("ACCEPT", fields, trailer)

\* The rules of the protocol, said of the fields: known keys, each once, no
\* zero, one of the two checksums, and no longer than the limit.
Legal == /\ \A i \in DOMAIN fields : fields[i].key \in Keys /\ fields[i].value # 0
         /\ \A i, j \in DOMAIN fields : fields[i].key = fields[j].key => i = j
         /\ trailer \in {28, 44}
         /\ Len(Written) <= Cap(maxSize)
Meaning == [k \in Keys |-> IF \E i \in DOMAIN fields : fields[i].key = k
                           THEN fields[CHOOSE i \in DOMAIN fields : fields[i].key = k].value ELSE None]

\* read_frame_async_ returns a legal frame with the values written, whatever
\* their order and width, and leaves the next frame untouched in the stream,
\* unless the peer closes inside the frame; it returns an error for every
\* other frame, and never a frame with other values, although a field that is
\* cut short is filled up with zeros; and no more than max_size bytes are
\* ever taken for one frame, the only protection against a peer without end.
ReadsWhatWasSent ==
    /\ Len(buf) <= Cap(maxSize)
    /\ Done => /\ Legal /\ ~cut => res.tag = "ok" /\ stream = NextFrame
               /\ res.tag = "ok" => Legal /\ res.magic = "ACCEPT" /\ res.entries = Meaning

\* "from rx, read the out.len() bytes": what comes of that over the buffers of
\* this repository, which lend one byte more than Demand::exactly means and
\* have the bytes again the next time: no frame is ever read.
NoFrameIsRead == Done => res.tag \in {"Panic", "PeerClosed", "FrameTooLarge", "InvalidMagic"}

\* What parse_frame_ says of the first n bytes of the frame.
ParsedFrom(n) == ParseFrame(SubSeq(Written, 1, n), maxSize)
Beginnings == {n \in 0..Len(Written) : n <= Cap(maxSize)}

\* parse_frame_, of any beginning of a frame whatever its fields: it asks for
\* more bytes only if the frame has them, so that a reader which reads what it
\* is asked for never takes a byte of the next frame; it returns a frame only
\* for a legal one and with its values; and it asks or returns the frame, and
\* no error, for every beginning of a legal one.
ParsesAsBuilt ==
    \A n \in Beginnings : LET p == ParsedFrom(n) IN
        /\ p.tag = "NeedMore" => n < p.n /\ p.n <= Len(Written)
        /\ p.tag = "ok" => Legal /\ n = Len(Written) /\ p.magic = "ACCEPT" /\ p.entries = Meaning
        /\ Legal => p.tag = IF n = Len(Written) THEN "ok" ELSE "NeedMore"

\* A frame laid out as build_frame_ does it (keys in order, smallest width,
\* CRC-16) is parsed with the result the protocol model assumes, from whichever
\* of its beginnings that result is reached.
Canonical == /\ \A i \in DOMAIN fields : fields[i].key \in Keys /\ fields[i].width = Width(fields[i].value)
             /\ \A i, j \in DOMAIN fields : i < j => fields[i].key < fields[j].key
             /\ trailer = 28
MatchesProtocol ==
    Canonical => \A n \in Beginnings :
        LET p == ParsedFrom(n)
            expected == FrameError(Frame("ACCEPT", Meaning), maxSize)
        IN IF p.tag = "NeedMore" THEN p.n > Cap(maxSize) => expected = "FrameTooLarge" ELSE p.tag = expected

=============================================================================
