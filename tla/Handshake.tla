----------------------------- MODULE Handshake -----------------------------
(***************************************************************************)
(* smux_v1 handshake: the initiator (HandshakeAgent) and the responder     *)
(* (HandshakeListener) negotiate the basic options over two reliable byte  *)
(* streams, one in each direction.                                         *)
(*                                                                         *)
(* A stream is a queue of whole frames: a frame is written by one commit,  *)
(* and FrameCodec.tla is about reading one field by field.  The reader is  *)
(* one that consumes the bytes it lends.  A side that fails drops both     *)
(* its halves, which the peer sees as the end of the stream.               *)
(***************************************************************************)
EXTENDS HandshakeFrames

CONSTANTS Invites,      \* entry lists callers pass to initiate_handshake
          Locals,       \* option values callers pass to accept_handshake
          MaxSizeI,     \* max_size of the initiator
          MaxSizeR      \* max_size of the responder

ASSUME HandshakeAssumption ==
    /\ Invites \subseteq Seq([opts_key : Nat, val_data : Nat])
    /\ Locals \subseteq [Keys -> Nat]
    /\ MaxSizeI \in Nat /\ MaxSizeR \in Nat

VARIABLES invite, local,        \* the callers' arguments
          pcI, resI, accepted,  \* initiator: state, result, options taken over
          pcR, resR, values,    \* responder: state, result, options offered
          toR, toI              \* frames under way

varsI == <<pcI, resI, accepted>>
varsR == <<pcR, resR, values>>
hsVars == <<invite, local, pcI, resI, accepted, pcR, resR, values, toR, toI>>

-----------------------------------------------------------------------------
(* The invitation.  The loop stops at the first entry it refuses.          *)

Key(e) == e.opts_key % 16
Refused(s, i) == \/ Key(s[i]) \notin Keys
                 \/ \E j \in 1..(i - 1) : Key(s[j]) = Key(s[i])
                 \/ s[i].val_data = 0
InviteError(s) ==
    IF \A i \in DOMAIN s : ~Refused(s, i) THEN "ok"
    ELSE LET i == CHOOSE i \in DOMAIN s : Refused(s, i) /\ \A j \in 1..(i - 1) : ~Refused(s, j)
         IN IF Key(s[i]) \notin Keys THEN "UnsupportedOption" ELSE "MalformedBody"

Proposed(s) == [k \in Keys |-> IF \E i \in DOMAIN s : Key(s[i]) = k
                               THEN s[CHOOSE i \in DOMAIN s : Key(s[i]) = k].val_data
                               ELSE None]

HsInit == /\ invite \in Invites /\ local \in Locals
        /\ pcI = "check" /\ resI = "running" /\ accepted = Empty
        /\ pcR = "awaitInvite" /\ resR = "running" /\ values = Empty
        /\ toR = << >> /\ toI = << >>

-----------------------------------------------------------------------------
(* The initiator: initiate_handshake_async_.                               *)

\* A side that is done with an error gives up both its halves; `reject' first
\* sends a REJECT, whose failure is ignored.
FailI(why) == pcI' = "failed" /\ resI' = why /\ UNCHANGED <<accepted, toR>>
RejectI(why) == pcI' = "sendReject" /\ resI' = why /\ UNCHANGED <<accepted, toR>>

CheckInvite ==
    /\ pcI = "check"
    /\ IF InviteError(invite) # "ok" THEN FailI(InviteError(invite))
       ELSE pcI' = "sendInvite" /\ UNCHANGED <<resI, accepted, toR>>
    /\ UNCHANGED <<invite, local, varsR, toI>>

SendInvite ==
    /\ pcI = "sendInvite"
    /\ toR' = Append(toR, Frame("INVITE", Proposed(invite)))
    /\ pcI' = "awaitAccept"
    /\ UNCHANGED <<invite, local, resI, accepted, varsR, toI>>

\* A slip: the end of the stream is looked at while waiting for ACCEPT only.
PeerClosedIOnce ==
    /\ pcI = "awaitAccept" /\ toI = << >> /\ pcR = "failed"
    /\ FailI("PeerClosed")
    /\ UNCHANGED <<invite, local, varsR, toI>>

\* The end of the stream before a frame: PeerClosed.
PeerClosedI ==
    /\ pcI \in {"awaitAccept", "awaitDone"} /\ toI = << >> /\ pcR = "failed"
    /\ FailI("PeerClosed")
    /\ UNCHANGED <<invite, local, varsR, toI>>

\* read_frame_async_, complete_values_ and the caller's `decide'.
ReadAccept == LET f == Head(toI) IN
    /\ pcI = "awaitAccept" /\ toI # << >>
    /\ toI' = Tail(toI)
    /\ IF FrameError(f, MaxSizeI) # "ok" THEN FailI(FrameError(f, MaxSizeI))
       ELSE IF f.magic = "REJECT" THEN FailI("PeerRejected")
       ELSE IF f.magic # "ACCEPT" THEN FailI("InvalidMagic")
       ELSE IF ~IsComplete(f.entries) THEN RejectI("Inconsistent")
       ELSE \/ RejectI("Rejected")
            \/ pcI' = "sendConfirm" /\ accepted' = f.entries /\ UNCHANGED <<resI, toR>>
    /\ UNCHANGED <<invite, local, varsR>>

\* A slip: the initiator returns as soon as its CONFRM is written.
SendConfirmReturns ==
    /\ pcI = "sendConfirm"
    /\ toR' = Append(toR, Frame("CONFRM", accepted))
    /\ pcI' = "ok" /\ resI' = "ok"
    /\ UNCHANGED <<invite, local, accepted, varsR, toI>>

SendConfirm ==
    /\ pcI = "sendConfirm"
    /\ toR' = Append(toR, Frame("CONFRM", accepted))
    /\ pcI' = "awaitDone"
    /\ UNCHANGED <<invite, local, resI, accepted, varsR, toI>>

SendRejectI ==
    /\ pcI = "sendReject"
    /\ pcI' = "failed"
    /\ toR' = Append(toR, Frame("REJECT", Empty))
    /\ UNCHANGED <<invite, local, resI, accepted, varsR, toI>>

\* The last frame must be an empty CONFRM; nothing is sent in any case.
ReadDone == LET f == Head(toI) IN
    /\ pcI = "awaitDone" /\ toI # << >>
    /\ toI' = Tail(toI)
    /\ IF FrameError(f, MaxSizeI) # "ok" THEN FailI(FrameError(f, MaxSizeI))
       ELSE IF f.magic # "CONFRM" THEN FailI("InvalidMagic")
       ELSE IF f.entries # Empty THEN FailI("Inconsistent")
       ELSE pcI' = "ok" /\ resI' = "ok" /\ UNCHANGED <<accepted, toR>>
    /\ UNCHANGED <<invite, local, varsR>>

-----------------------------------------------------------------------------
(* The responder: accept_handshake_async_.                                 *)

FailR(why) == pcR' = "failed" /\ resR' = why /\ UNCHANGED <<values, toI>>
RejectR(why) == pcR' = "sendReject" /\ resR' = why /\ UNCHANGED <<values, toI>>

PeerClosedR ==
    /\ pcR \in {"awaitInvite", "awaitConfirm"} /\ toR = << >> /\ pcI = "failed"
    /\ FailR("PeerClosed")
    /\ UNCHANGED <<invite, local, varsI, toR>>

ReadInvite == LET f == Head(toR) IN
    /\ pcR = "awaitInvite" /\ toR # << >>
    /\ toR' = Tail(toR)
    /\ IF FrameError(f, MaxSizeR) # "ok" THEN FailR(FrameError(f, MaxSizeR))
       ELSE IF f.magic # "INVITE" THEN FailR("InvalidMagic")
       ELSE \/ RejectR("Rejected")
            \/ pcR' = "sendAccept" /\ values' = CompleteInvite(local, f.entries) /\ UNCHANGED <<resR, toI>>
    /\ UNCHANGED <<invite, local, varsI>>

SendAccept ==
    /\ pcR = "sendAccept"
    /\ toI' = Append(toI, Frame("ACCEPT", values))
    /\ pcR' = "awaitConfirm"
    /\ UNCHANGED <<invite, local, resR, values, varsI, toR>>

ReadConfirm == LET f == Head(toR) IN
    /\ pcR = "awaitConfirm" /\ toR # << >>
    /\ toR' = Tail(toR)
    /\ IF FrameError(f, MaxSizeR) # "ok" THEN FailR(FrameError(f, MaxSizeR))
       ELSE IF f.magic # "CONFRM" THEN RejectR("InvalidMagic")
       ELSE IF ~ConfirmMatches(f.entries, values) THEN RejectR("Inconsistent")
       ELSE pcR' = "sendDone" /\ UNCHANGED <<resR, values, toI>>
    /\ UNCHANGED <<invite, local, varsI>>

\* The empty CONFRM and the result: nothing is awaited in between.
SendDone ==
    /\ pcR = "sendDone"
    /\ toI' = Append(toI, Frame("CONFRM", Empty))
    /\ pcR' = "ok" /\ resR' = "ok"
    /\ UNCHANGED <<invite, local, values, varsI, toR>>

SendRejectR ==
    /\ pcR = "sendReject"
    /\ pcR' = "failed"
    /\ toI' = Append(toI, Frame("REJECT", Empty))
    /\ UNCHANGED <<invite, local, resR, values, varsI, toR>>

-----------------------------------------------------------------------------
(* Every read and every write is an await that a cancellation token or an  *)
(* error of the transport may end.  A REJECT that cannot be sent changes   *)
(* nothing about the result.                                               *)

AbortI == /\ pcI \in {"sendInvite", "awaitAccept", "sendReject", "sendConfirm", "awaitDone"}
          /\ pcI' = "failed"
          /\ resI' \in IF pcI = "sendReject" THEN {resI} ELSE {"Cancelled", "RxErr", "TxErr"}
          /\ UNCHANGED <<invite, local, accepted, varsR, toR, toI>>

AbortR == /\ pcR \in {"awaitInvite", "sendReject", "sendAccept", "awaitConfirm", "sendDone"}
          /\ pcR' = "failed"
          /\ resR' \in IF pcR = "sendReject" THEN {resR} ELSE {"Cancelled", "RxErr", "TxErr"}
          /\ UNCHANGED <<invite, local, values, varsI, toR, toI>>

StepI == CheckInvite \/ SendInvite \/ PeerClosedI \/ ReadAccept \/ SendConfirm \/ SendRejectI \/ ReadDone
StepR == PeerClosedR \/ ReadInvite \/ SendAccept \/ ReadConfirm \/ SendDone \/ SendRejectR
HsNext == StepI \/ StepR \/ AbortI \/ AbortR

\* Both tasks are polled again whenever what they await is there; nobody has
\* to cancel anything.
HsSpec == HsInit /\ [][HsNext]_hsVars /\ WF_hsVars(StepI) /\ WF_hsVars(StepR)

-----------------------------------------------------------------------------
(* Properties.                                                             *)

Results == {"running", "ok", "Rejected", "PeerRejected", "Cancelled", "RxErr", "TxErr", "InvalidMagic",
            "FrameTooLarge", "MalformedBody", "UnsupportedOption", "Inconsistent", "PeerClosed"}

\* Every variable has its type.
HsTypeOK ==
    /\ invite \in Invites /\ local \in Locals
    /\ pcI \in {"check", "sendInvite", "awaitAccept", "sendReject", "sendConfirm", "awaitDone", "ok", "failed"}
    /\ pcR \in {"awaitInvite", "sendReject", "sendAccept", "awaitConfirm", "sendDone", "ok", "failed"}
    /\ resI \in Results /\ resR \in Results
    /\ accepted \in Values /\ values \in Values
    /\ toR \in Seq(Frames) /\ toI \in Seq(Frames)

\* A responder that delivers a HandshakeEndpoint has negotiated what the
\* initiator's caller accepted: the invited value where the invitation mentions
\* the key, else its own, and none of them zero.
Agreement ==
    resR = "ok" => /\ accepted = values
                   /\ \A k \in Keys : /\ values[k] > 0
                                      /\ values[k] \in {Proposed(invite)[k], local[k]}
                                      /\ Proposed(invite)[k] # None => values[k] = Proposed(invite)[k]

\* The initiator's success is never one-sided: the frame that completes it
\* was written by a responder that had succeeded, and the streams both hand on
\* to the connection layer hold no byte of the handshake.
InitiatorIsLast == resI = "ok" => resR = "ok" /\ toI = << >> /\ toR = << >>

\* Nobody waits for ever: once initiate_handshake has begun each side ends with
\* a result, whatever the other one decides, and whenever either is cancelled.
BothEnd == pcI # "check" ~> (pcI \in {"ok", "failed"} /\ pcR \in {"ok", "failed"})

=============================================================================
