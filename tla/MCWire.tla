------------------------------- MODULE MCWire -------------------------------
(***************************************************************************)
(* The handshake and the two byte formats for TLC; a behaviour is of one   *)
(* of the three.                                                           *)
(*                                                                         *)
(* Handshake: two keys, one of which an invitation may name with its high  *)
(* bits set, a reserved key, values of one and of two bytes, and zero.     *)
(* Handshake frames: lists of up to two fields, with both keys and one     *)
(* reserved key, values of one and two bytes, minimal and wider encodings. *)
(* Multipart: bytes are bits, prefixes are two of them (so a chunk has at  *)
(* most three), and the stream of four holds zeros a misaligned decoder    *)
(* would take for an end.                                                  *)
(***************************************************************************)
EXTENDS FrameCodec, Multipart, Handshake, SequencesExt

VARIABLE suite

MCField == {f \in [key : {0, 1, 4}, width : {1, 2, 8}, value : {0, 7, 300}] : f.value < 256 \/ f.width # 1}
MCFieldLists == SeqOf(MCField, 2)
MCStreams == {<<1, 0, 0, 1>>}

FramesIdle == /\ fields = << >> /\ trailer = 28 /\ maxSize = 3
              /\ stream = << >> /\ kept = 0 /\ cut = FALSE
              /\ buf = << >> /\ res = Err("reading")
MultipartIdle == /\ feed = << >> /\ fed = << >> /\ src = << >> /\ srcClosed = TRUE
                 /\ tgt = << >> /\ tgtClosed = TRUE
                 /\ enc = [pc |-> "done", size |-> 0, cc |-> 0, held |-> << >>, room |-> 0, res |-> "eof"]
                 /\ starts = 1 /\ cancelled = FALSE /\ torn = FALSE
                 /\ dec = [pc |-> "idle", left |-> 0, eof |-> TRUE, min |-> 0, lent |-> 0, err |-> "Eof"]
                 /\ got = << >>

Entry == [opts_key : {0, 1, 17, 4}, val_data : {0, 7, 300}]
MCInvites == {<< >>} \cup {<<a>> : a \in Entry} \cup {<<a, b>> : a \in Entry, b \in Entry}
MCLocals == [Keys -> {0, 9, 400}]

HandshakeIdle == /\ HsInit
                 /\ invite = << >> /\ local = [k \in Keys |-> 0]

MCInit == \/ suite = "frames" /\ Init /\ MultipartIdle /\ HandshakeIdle
          \/ suite = "multipart" /\ MpInit /\ FramesIdle /\ HandshakeIdle
          \/ suite = "handshake" /\ HsInit /\ FramesIdle /\ MultipartIdle
MCNext == /\ \/ suite = "frames" /\ Next /\ UNCHANGED <<mpVars, hsVars>>
             \/ suite = "multipart" /\ MpNext /\ UNCHANGED <<vars, hsVars>>
             \/ suite = "handshake" /\ HsNext /\ UNCHANGED <<vars, mpVars>>
          /\ UNCHANGED suite
MCSpec == /\ MCInit /\ [][MCNext]_<<vars, mpVars, hsVars, suite>>
          /\ MpFairness
          /\ WF_hsVars(suite = "handshake" /\ StepI)
          /\ WF_hsVars(suite = "handshake" /\ StepR)

=============================================================================
