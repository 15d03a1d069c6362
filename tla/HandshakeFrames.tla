-------------------------- MODULE HandshakeFrames --------------------------
(***************************************************************************)
(* The frames of the smux_v1 handshake as the protocol sees them: a magic  *)
(* and, for each basic key, a value or nothing.  FrameCodec.tla has their  *)
(* bytes.                                                                  *)
(***************************************************************************)
EXTENDS Integers, Sequences, FiniteSets

CONSTANT BasicCount     \* K_BASIC_COUNT

ASSUME BasicCountAssumption == BasicCount \in Nat \ {0}

Keys == 0..(BasicCount - 1)
None == -1
Values == [Keys -> Nat \cup {None}]
Empty == [k \in Keys |-> None]
Magic == {"INVITE", "ACCEPT", "CONFRM", "REJECT"}
Frames == [magic : Magic, entries : Values]
Frame(m, v) == [magic |-> m, entries |-> v]

-----------------------------------------------------------------------------
(* What the codec does with a frame.                                       *)

\* encode_basic_entry_: the smallest of the four widths.
Width(v) == IF v < 256 THEN 1 ELSE IF v < 65536 THEN 2 ELSE IF v \div 65536 < 65536 THEN 4 ELSE 8

\* build_frame_: magic, the entries present up to key k, in the order of keys.
SizeUpto(entries, k) ==
    4 + Cardinality({p \in (0..k) \X (0..8) : entries[p[1]] # None /\ p[2] <= Width(entries[p[1]])})

\* A slip: the header byte of the trailer is not counted.
SizeNoHeader(entries) == SizeUpto(entries, BasicCount - 1) + 2

\* ... and the checksum trailer.
Size(entries) == SizeUpto(entries, BasicCount - 1) + 3

\* K_MAX_HANDSHAKE_FRAME
MaxHandshakeFrame == 64
Cap(maxSize) == IF maxSize < MaxHandshakeFrame THEN maxSize ELSE MaxHandshakeFrame

\* parse_frame_ and read_frame_async_: a frame of build_frame_ has one entry
\* per key and a good checksum, so what is left to go wrong is its size and
\* a zero value, whichever the reader meets first.
FrameError(f, maxSize) ==
    IF \E k \in Keys : f.entries[k] = 0 /\ SizeUpto(f.entries, k) <= Cap(maxSize) THEN "MalformedBody"
    ELSE IF Size(f.entries) > Cap(maxSize) THEN "FrameTooLarge"
    ELSE "ok"

\* A slip: the local value wins.
CompleteInviteLocal(l, entries) == [k \in Keys |-> IF l[k] # None THEN l[k] ELSE entries[k]]

\* complete_invite_: what the invitation mentions, else the local value.
CompleteInvite(l, entries) == [k \in Keys |-> IF entries[k] # None THEN entries[k] ELSE l[k]]

\* is_complete_, behind complete_values_.
IsComplete(entries) == \A k \in Keys : entries[k] # None

\* confirm_matches_.
ConfirmMatches(entries, expected) == IsComplete(entries) /\ entries = expected

=============================================================================
