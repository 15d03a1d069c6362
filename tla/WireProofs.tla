---------------------------- MODULE WireProofs -----------------------------
(***************************************************************************)
(* The two protocols that put a stream of bytes to use.  What the two      *)
(* sides of the smux_v1 handshake know of each other when they succeed,    *)
(* for every number of basic keys, every invitation, every choice of local *)
(* values and every frame size.  That the multipart transfer hands its     *)
(* reader what its writer was given, for every size of a byte, of a prefix *)
(* and of the buffers, and every stream.  And that a handshake frame is    *)
(* read back from its bytes as it was written, whatever its fields, for    *)
(* every list of fields and every limit.                                   *)
(***************************************************************************)
EXTENDS Handshake, FrameCodec, Multipart, FiniteSetTheorems, WellFoundedInduction, TLAPS

-----------------------------------------------------------------------------
(* What the codec and the option lists guarantee.                          *)

(* A longer prefix of the entries takes at least as many bytes. *)
LEMMA SizeGrows ==
    ASSUME NEW v \in Values, NEW k \in Keys
    PROVE  /\ SizeUpto(v, k) \in Nat /\ Size(v) \in Nat
           /\ SizeUpto(v, k) <= Size(v)
<1> DEFINE B(j) == {p \in (0..j) \X (0..8) : v[p[1]] # None /\ p[2] <= Width(v[p[1]])}
<1>1. BasicCount - 1 \in Int /\ k \in Int /\ k <= BasicCount - 1
  BY BasicCountAssumption DEF Keys
<1>2. IsFiniteSet((0..(BasicCount - 1)) \X (0..8))
  <2>1. IsFiniteSet(0..(BasicCount - 1))
    BY <1>1, FS_Interval
  <2>2. IsFiniteSet(0..8)
    <3>1. 0 \in Int /\ 8 \in Int
      OBVIOUS
    <3> QED BY <3>1, FS_Interval
  <2> QED BY <2>1, <2>2, FS_Product
<1>3. B(k) \subseteq B(BasicCount - 1)
  BY <1>1
<1>4. IsFiniteSet(B(BasicCount - 1))
  BY <1>2, FS_Subset
<1>5. /\ Cardinality(B(k)) \in Nat /\ Cardinality(B(BasicCount - 1)) \in Nat
      /\ Cardinality(B(k)) <= Cardinality(B(BasicCount - 1))
  BY <1>3, <1>4, FS_Subset, FS_CardinalityType
<1> QED BY <1>5 DEF SizeUpto, Size

(* parse_frame_ lets no zero value through, and neither does the bound on the
   size hide one behind the part that is read. *)
LEMMA NoZeroPasses ==
    ASSUME NEW f \in Frames, NEW m \in Nat, FrameError(f, m) = "ok"
    PROVE  \A k \in Keys : f.entries[k] # 0
<1> SUFFICES ASSUME NEW k \in Keys, f.entries[k] = 0 PROVE FALSE
  OBVIOUS
<1>1. f.entries \in Values
  BY DEF Frames
<1>2. Cap(m) \in Nat
  BY DEF Cap, MaxHandshakeFrame
<1>3. ~(SizeUpto(f.entries, k) <= Cap(m))
  BY DEF FrameError
<1>4. ~(Size(f.entries) > Cap(m))
  BY DEF FrameError
<1> QED BY <1>1, <1>2, <1>3, <1>4, SizeGrows

(* The values an invitation mentions are values of the codec. *)
LEMMA ProposedType ==
    ASSUME NEW s \in Invites
    PROVE  Proposed(s) \in Values
<1> DEFINE E == [opts_key : Nat, val_data : Nat]
<1>1. \A j \in DOMAIN s : s[j] \in E
  <2>1. s \in Seq(E)
    BY HandshakeAssumption
  <2> HIDE DEF E
  <2> QED BY <2>1
<1>2. ASSUME NEW k \in Keys, \E i \in DOMAIN s : Key(s[i]) = k
      PROVE  s[CHOOSE i \in DOMAIN s : Key(s[i]) = k].val_data \in Nat
  <2>1. PICK i \in DOMAIN s : i = CHOOSE j \in DOMAIN s : Key(s[j]) = k
    BY <1>2
  <2> QED BY <2>1, <1>1
<1> QED BY <1>2 DEF Proposed, Values

(* complete_invite_ yields values of the codec, each the invited or the local
   one, and the invited one where there is one. *)
LEMMA Completed ==
    ASSUME NEW l \in Locals, NEW v \in Values
    PROVE  /\ CompleteInvite(l, v) \in Values
           /\ \A k \in Keys : /\ CompleteInvite(l, v)[k] \in {v[k], l[k]}
                              /\ v[k] # None => CompleteInvite(l, v)[k] = v[k]
BY HandshakeAssumption DEF CompleteInvite, Values

(* Frames of the two sides. *)
LEMMA FrameType ==
    ASSUME NEW m \in Magic, NEW v \in Values
    PROVE  /\ Frame(m, v) \in Frames
           /\ Frame(m, v).magic = m /\ Frame(m, v).entries = v
BY DEF Frame, Frames

(* The first frame of a queue is read, the others stay. *)
LEMMA Reading ==
    ASSUME NEW q \in Seq(Frames), q # << >>
    PROVE  Head(q) \in Frames /\ Tail(q) \in Seq(Frames)
OBVIOUS

-----------------------------------------------------------------------------
(* The invariant: what is under way, by the responder's state.             *)

Accept == Frame("ACCEPT", values)
Confirm == Frame("CONFRM", accepted)
DoneFrame == Frame("CONFRM", Empty)

(* A result of a side is ok exactly when its call has returned so. *)
ResultInv == (resI = "ok" <=> pcI = "ok") /\ (resR = "ok" <=> pcR = "ok")

(* Before the invitation is sent nothing is under way. *)
SilentInv == pcI \in {"check", "sendInvite"} =>
                 toR = << >> /\ toI = << >> /\ pcR \in {"awaitInvite", "failed"}

(* The responder waits for the invitation, or has nothing more to read. *)
InvitedInv ==
    /\ pcR = "awaitInvite" =>
          /\ toI = << >> /\ pcI \in {"check", "sendInvite", "awaitAccept", "failed"}
          /\ toR \in {<< >>, <<Frame("INVITE", Proposed(invite))>>}
    /\ pcR = "sendAccept" =>
          toI = << >> /\ toR = << >> /\ pcI \in {"awaitAccept", "failed"}
    /\ pcR \in {"sendAccept", "awaitConfirm", "sendDone", "ok"} =>
          values = CompleteInvite(local, Proposed(invite))

(* The responder waits for the confirmation of what it has offered. *)
OfferedInv ==
    pcR = "awaitConfirm" =>
        /\ pcI \in {"awaitAccept", "sendConfirm", "sendReject", "awaitDone", "failed"}
        /\ pcI = "awaitAccept" => toI = <<Accept>> /\ toR = << >>
        /\ pcI \in {"sendConfirm", "sendReject"} => toI = << >> /\ toR = << >>
        /\ pcI = "awaitDone" => toI = << >> /\ toR = <<Confirm>>
        /\ pcI \in {"sendConfirm", "awaitDone"} => accepted = values
        /\ pcI = "failed" => \/ toR \in {<< >>, <<Frame("REJECT", Empty)>>}
                             \/ toR = <<Confirm>> /\ toI = << >> /\ accepted = values
        /\ toI \in {<< >>, <<Accept>>}

(* The responder has read the confirmation it waited for. *)
ConfirmedInv ==
    pcR \in {"sendDone", "ok"} =>
        /\ accepted = values /\ \A k \in Keys : values[k] > 0
        /\ toR = << >>
        /\ pcI \in {"awaitDone", "ok", "failed"}
        /\ pcR = "sendDone" => toI = << >> /\ pcI # "ok"
        /\ pcI = "awaitDone" /\ pcR = "ok" => toI = <<DoneFrame>>
        /\ pcI = "ok" => toI = << >>

(* A responder that has given up has sent no CONFRM, and never will. *)
RefusedInv ==
    pcR \in {"sendReject", "failed"} =>
        pcI # "ok" /\ \A i \in 1..Len(toI) : toI[i].magic # "CONFRM"

HsInv == /\ HsTypeOK /\ ResultInv /\ SilentInv /\ InvitedInv
         /\ OfferedInv /\ ConfirmedInv /\ RefusedInv

-----------------------------------------------------------------------------
(* Preservation.                                                           *)

(* The handshake begins in the invariant. *)
LEMMA HsInitInv == HsInit => HsInv
<1> SUFFICES ASSUME HsInit PROVE HsInv
  OBVIOUS
<1>1. Empty \in Values
  BY DEF Empty, Values
<1>2. HsTypeOK
  BY <1>1 DEF HsInit, HsTypeOK, Results
<1>3. ResultInv /\ SilentInv /\ InvitedInv /\ OfferedInv /\ ConfirmedInv /\ RefusedInv
  BY DEF HsInit, ResultInv, SilentInv, InvitedInv, OfferedInv, ConfirmedInv, RefusedInv
<1> QED BY <1>2, <1>3 DEF HsInv

(* What a frame is refused for is a result that is not ok. *)
LEMMA FrameErrors ==
    ASSUME NEW f, NEW m
    PROVE  FrameError(f, m) \in {"ok", "MalformedBody", "FrameTooLarge"}
BY DEF FrameError

(* ... and so is what an invitation is refused for. *)
LEMMA InviteErrors ==
    ASSUME NEW s
    PROVE  InviteError(s) \in {"ok", "UnsupportedOption", "MalformedBody"}
BY DEF InviteError

(* A step of either side keeps the types. *)
LEMMA HsTyping == HsInv /\ HsNext => HsTypeOK'
<1> SUFFICES ASSUME HsInv, HsNext PROVE HsTypeOK'
  OBVIOUS
<1> USE DEF HsTypeOK, varsI, varsR
<1>1. HsTypeOK /\ Empty \in Values /\ Proposed(invite) \in Values
  BY ProposedType DEF HsInv, Empty, Values
<1>2. \A m \in Magic, v \in Values : Frame(m, v) \in Frames
  BY FrameType
<1>3. \A m \in Magic, v \in Values :
          Append(toR, Frame(m, v)) \in Seq(Frames) /\ Append(toI, Frame(m, v)) \in Seq(Frames)
  BY <1>1, <1>2
<1>4. /\ "INVITE" \in Magic /\ "ACCEPT" \in Magic /\ "CONFRM" \in Magic /\ "REJECT" \in Magic
  BY DEF Magic
<1>5. \A f, m : FrameError(f, m) \in Results
  BY FrameErrors DEF Results
<1>6. \A s : InviteError(s) \in Results
  BY InviteErrors DEF Results
<1>7. /\ toI # << >> => Head(toI) \in Frames /\ Tail(toI) \in Seq(Frames)
      /\ toR # << >> => Head(toR) \in Frames /\ Tail(toR) \in Seq(Frames)
  BY <1>1, Reading
<1>8. \A f \in Frames : f.entries \in Values /\ CompleteInvite(local, f.entries) \in Values
  BY <1>1, Completed DEF Frames
<1>a. CASE CheckInvite
  BY <1>1, <1>6, <1>a DEF CheckInvite, FailI
<1>b. CASE SendInvite
  BY <1>1, <1>3, <1>4, <1>b DEF SendInvite
<1>c. CASE PeerClosedI \/ PeerClosedR
  BY <1>1, <1>c DEF PeerClosedI, PeerClosedR, FailI, FailR, Results
<1>d. CASE ReadAccept
  BY <1>1, <1>5, <1>7, <1>8, <1>d DEF ReadAccept, FailI, RejectI, Results
<1>e. CASE SendConfirm \/ SendRejectI
  BY <1>1, <1>3, <1>4, <1>e DEF SendConfirm, SendRejectI
<1>f. CASE ReadDone
  BY <1>1, <1>5, <1>7, <1>f DEF ReadDone, FailI, Results
<1>g. CASE ReadInvite
  BY <1>1, <1>5, <1>7, <1>8, <1>g DEF ReadInvite, FailR, RejectR, Results
<1>h. CASE SendAccept \/ SendDone \/ SendRejectR
  BY <1>1, <1>3, <1>4, <1>h DEF SendAccept, SendDone, SendRejectR, Results
<1>i. CASE ReadConfirm
  BY <1>1, <1>5, <1>7, <1>i DEF ReadConfirm, FailR, RejectR, Results
<1>j. CASE AbortI \/ AbortR
  BY <1>1, <1>j DEF AbortI, AbortR, Results
<1> QED BY <1>a, <1>b, <1>c, <1>d, <1>e, <1>f, <1>g, <1>h, <1>i, <1>j
        DEF HsNext, StepI, StepR

(* The results that stand for a failure. *)
LEMMA FailureResults ==
    /\ \A f, m : FrameError(f, m) # "ok" => FrameError(f, m) \in Results \ {"ok"}
    /\ \A s : InviteError(s) # "ok" => InviteError(s) \in Results \ {"ok"}
BY FrameErrors, InviteErrors DEF Results

(* The initiator's steps. *)
LEMMA InitiatorSteps == HsInv /\ (StepI \/ AbortI) => HsInv'
<1> SUFFICES ASSUME HsInv, StepI \/ AbortI PROVE HsInv'
  OBVIOUS
<1> USE DEF varsI, varsR
<1>1. HsTypeOK /\ HsTypeOK'
  BY HsTyping DEF HsNext, HsInv
<1>2. toR \in Seq(Frames) /\ toI \in Seq(Frames)
  BY <1>1 DEF HsTypeOK
<1> DEFINE Rest == ResultInv /\ SilentInv /\ InvitedInv /\ OfferedInv /\ ConfirmedInv /\ RefusedInv
<1> SUFFICES Rest'
  BY <1>1 DEF HsInv
<1>3. Rest
  BY DEF HsInv
<1> USE DEF ResultInv, SilentInv, InvitedInv, OfferedInv, ConfirmedInv, RefusedInv,
            Accept, Confirm, DoneFrame
<1>a. CASE CheckInvite
  BY <1>3, <1>a DEF CheckInvite, FailI
<1>b. CASE SendInvite
  BY <1>2, <1>3, <1>b DEF SendInvite
<1>c. CASE PeerClosedI
  BY <1>3, <1>c DEF PeerClosedI, FailI
<1>d. CASE ReadAccept
  <2>1. ResultInv'
    BY <1>3, <1>d, FailureResults DEF ReadAccept, FailI, RejectI
  <2>2. SilentInv' /\ InvitedInv'
    BY <1>3, <1>d DEF ReadAccept, FailI, RejectI
  <2>3. OfferedInv'
    <3> SUFFICES ASSUME pcR = "awaitConfirm" PROVE OfferedInv'
      BY <1>d DEF ReadAccept
    <3>1. toI = <<Accept>> /\ toR = << >> /\ toI' = << >> /\ toR' = << >>
      BY <1>2, <1>3, <1>d DEF ReadAccept, FailI, RejectI
    <3>2. Head(toI).entries = values /\ values' = values
      BY <3>1, <1>d, FrameType DEF ReadAccept, Frame
    <3> QED BY <3>1, <3>2, <1>d DEF ReadAccept, FailI, RejectI
  <2>4. ConfirmedInv'
    BY <1>3, <1>d DEF ReadAccept, FailI, RejectI
  <2>5. RefusedInv'
    <3> SUFFICES ASSUME pcR \in {"sendReject", "failed"} PROVE RefusedInv'
      BY <1>d DEF ReadAccept
    <3>1. pcI' # "ok"
      BY <1>3, <1>d DEF ReadAccept, FailI, RejectI
    <3>2. \A i \in 1..Len(toI') : toI'[i].magic # "CONFRM"
      BY <1>2, <1>3, <1>d DEF ReadAccept
    <3> QED BY <3>1, <3>2
  <2> QED BY <2>1, <2>2, <2>3, <2>4, <2>5
<1>e. CASE SendConfirm
  <2>1. toR = << >> => toR' = <<Confirm'>>
    BY <1>e DEF SendConfirm
  <2>2. ResultInv' /\ SilentInv' /\ InvitedInv'
    BY <1>3, <1>e DEF SendConfirm
  <2>3. OfferedInv'
    BY <1>3, <1>e, <2>1 DEF SendConfirm
  <2>4. ConfirmedInv' /\ RefusedInv'
    BY <1>3, <1>e DEF SendConfirm
  <2> QED BY <2>2, <2>3, <2>4
<1>f. CASE SendRejectI
  <2>1. toR = << >> => toR' = <<Frame("REJECT", Empty)>>
    BY <1>f DEF SendRejectI
  <2>2. ResultInv' /\ SilentInv' /\ InvitedInv'
    BY <1>3, <1>f DEF SendRejectI
  <2>3. OfferedInv'
    BY <1>3, <1>f, <2>1 DEF SendRejectI
  <2>4. ConfirmedInv' /\ RefusedInv'
    BY <1>3, <1>f DEF SendRejectI
  <2> QED BY <2>2, <2>3, <2>4
<1>g. CASE ReadDone
  <2>1. ResultInv'
    BY <1>3, <1>g, FailureResults DEF ReadDone, FailI
  <2>2. SilentInv' /\ InvitedInv' /\ OfferedInv'
    BY <1>3, <1>g DEF ReadDone, FailI
  <2>3. ConfirmedInv'
    <3>1. toI = <<DoneFrame>> => toI' = << >>
      BY <1>2, <1>g DEF ReadDone
    <3> QED BY <1>3, <1>g, <3>1 DEF ReadDone, FailI
  <2>4. RefusedInv'
    <3> SUFFICES ASSUME pcR \in {"sendReject", "failed"} PROVE RefusedInv'
      BY <1>g DEF ReadDone
    <3>1. Head(toI) = toI[1] /\ 1 \in 1..Len(toI)
      BY <1>2, <1>g DEF ReadDone
    <3>2. pcI' # "ok"
      BY <1>3, <1>g, <3>1 DEF ReadDone, FailI
    <3>3. \A i \in 1..Len(toI') : toI'[i].magic # "CONFRM"
      BY <1>2, <1>3, <1>g DEF ReadDone
    <3> QED BY <3>2, <3>3
  <2> QED BY <2>1, <2>2, <2>3, <2>4
<1>h. CASE AbortI
  <2>1. ResultInv'
    BY <1>3, <1>h DEF AbortI
  <2>2. SilentInv' /\ InvitedInv'
    BY <1>3, <1>h DEF AbortI
  <2>3. OfferedInv'
    BY <1>3, <1>h DEF AbortI
  <2>4. ConfirmedInv' /\ RefusedInv'
    BY <1>3, <1>h DEF AbortI
  <2> QED BY <2>1, <2>2, <2>3, <2>4
<1> QED BY <1>a, <1>b, <1>c, <1>d, <1>e, <1>f, <1>g, <1>h DEF StepI

(* The responder's steps. *)
LEMMA ResponderSteps == HsInv /\ (StepR \/ AbortR) => HsInv'
<1> SUFFICES ASSUME HsInv, StepR \/ AbortR PROVE HsInv'
  OBVIOUS
<1> USE DEF varsI, varsR
<1>1. HsTypeOK /\ HsTypeOK'
  BY HsTyping DEF HsNext, HsInv
<1>2. toR \in Seq(Frames) /\ toI \in Seq(Frames)
  BY <1>1 DEF HsTypeOK
<1> DEFINE Rest == ResultInv /\ SilentInv /\ InvitedInv /\ OfferedInv /\ ConfirmedInv /\ RefusedInv
<1> SUFFICES Rest'
  BY <1>1 DEF HsInv
<1>3. Rest
  BY DEF HsInv
<1> USE DEF ResultInv, SilentInv, InvitedInv, OfferedInv, ConfirmedInv, RefusedInv,
            Accept, Confirm, DoneFrame
<1>a. CASE PeerClosedR
  <2>1. ResultInv' /\ SilentInv' /\ InvitedInv' /\ OfferedInv' /\ ConfirmedInv'
    BY <1>3, <1>a DEF PeerClosedR, FailR
  <2>2. RefusedInv'
    <3>1. toI = << >> \/ (pcR = "awaitConfirm" /\ pcI = "failed")
      BY <1>3, <1>a DEF PeerClosedR
    <3>2. toI = << >> \/ toI = <<Accept>>
      BY <1>3, <1>a, <3>1 DEF PeerClosedR
    <3>3. \A i \in 1..Len(toI) : toI[i].magic # "CONFRM"
      BY <3>2 DEF Frame
    <3> QED BY <1>3, <1>a, <3>3 DEF PeerClosedR, FailR
  <2> QED BY <2>1, <2>2
<1>b. CASE ReadInvite
  <2>1. /\ toI = << >> /\ pcI \in {"awaitAccept", "failed"} /\ toR' = << >>
        /\ Head(toR).entries = Proposed(invite)
    BY <1>2, <1>3, <1>b DEF ReadInvite, Frame
  <2>2. ResultInv' /\ SilentInv' /\ InvitedInv'
    BY <1>3, <1>b, <2>1, FailureResults DEF ReadInvite, FailR, RejectR
  <2>3. OfferedInv' /\ ConfirmedInv' /\ RefusedInv'
    BY <1>3, <1>b, <2>1 DEF ReadInvite, FailR, RejectR
  <2> QED BY <2>2, <2>3
<1>c. CASE SendAccept
  BY <1>2, <1>3, <1>c DEF SendAccept
<1>d. CASE ReadConfirm
  <2>1. toI' = toI /\ toR' = << >> /\ values' = values
    BY <1>2, <1>3, <1>d DEF ReadConfirm, FailR, RejectR
  <2>2. ResultInv' /\ SilentInv' /\ InvitedInv' /\ OfferedInv'
    BY <1>3, <1>d, <2>1, FailureResults DEF ReadConfirm, FailR, RejectR
  <2>3. CASE pcR' = "sendDone"
    <3>1. /\ FrameError(Head(toR), MaxSizeR) = "ok" /\ Head(toR).magic = "CONFRM"
          /\ ConfirmMatches(Head(toR).entries, values)
      BY <2>3, <1>d DEF ReadConfirm, FailR, RejectR
    <3>2. toR = <<Confirm>> /\ toI = << >> /\ accepted = values /\ pcI \in {"awaitDone", "failed"}
      BY <1>3, <1>d, <3>1 DEF ReadConfirm, Frame
    <3>3. \A k \in Keys : values[k] > 0
      <4>1. Head(toR) \in Frames
        BY <1>2, <1>d DEF ReadConfirm
      <4>2. \A k \in Keys : values[k] # 0 /\ values[k] # None
        BY <3>1, <4>1, NoZeroPasses, HandshakeAssumption
        DEF ConfirmMatches, IsComplete
      <4>3. \A k \in Keys : values[k] \in Nat \cup {None}
        BY <1>1 DEF HsTypeOK, Values
      <4> QED BY <4>2, <4>3 DEF None
    <3>4. ConfirmedInv' /\ RefusedInv'
      BY <2>1, <2>3, <3>2, <3>3, <1>d DEF ReadConfirm
    <3> QED BY <2>2, <3>4
  <2>4. CASE pcR' # "sendDone"
    <3>1. pcR' \in {"sendReject", "failed"}
      BY <2>4, <1>d DEF ReadConfirm, FailR, RejectR
    <3>2. \A i \in 1..Len(toI) : toI[i].magic # "CONFRM"
      BY <1>3, <1>d DEF ReadConfirm, Frame
    <3>3. pcI' # "ok"
      BY <1>3, <1>d DEF ReadConfirm
    <3>4. ConfirmedInv' /\ RefusedInv'
      BY <2>1, <3>1, <3>2, <3>3
    <3> QED BY <2>2, <3>4
  <2> QED BY <2>3, <2>4
<1>e. CASE SendDone
  <2>1. toI' = <<DoneFrame>>
    BY <1>3, <1>e DEF SendDone
  <2> QED BY <1>3, <1>e, <2>1 DEF SendDone
<1>f. CASE SendRejectR
  <2>1. /\ toI' \in Seq(Frames) /\ Len(toI') = Len(toI) + 1
        /\ \A i \in 1..Len(toI) : toI'[i] = toI[i]
        /\ toI'[Len(toI) + 1] = Frame("REJECT", Empty)
    BY <1>1, <1>2, <1>f DEF SendRejectR, HsTypeOK
  <2>2. \A i \in 1..Len(toI') : toI'[i].magic # "CONFRM"
    BY <1>3, <1>2, <1>f, <2>1 DEF SendRejectR, Frame
  <2> QED BY <1>3, <1>f, <2>2 DEF SendRejectR
<1>h. CASE AbortR
  <2>1. toI' = toI /\ toR' = toR /\ pcR' = "failed" /\ UNCHANGED <<pcI, resI, accepted, values>>
    BY <1>h DEF AbortR
  <2>2. ResultInv'
    BY <1>3, <1>h DEF AbortR
  <2>3. \A i \in 1..Len(toI) : toI[i].magic # "CONFRM"
    <3>1. CASE pcR = "sendReject"
      BY <1>3, <3>1
    <3>2. CASE pcR # "sendReject"
      <4>1. toI = << >> \/ toI = <<Accept>>
        BY <1>3, <1>h, <3>2 DEF AbortR
      <4> QED BY <4>1 DEF Frame
    <3> QED BY <3>1, <3>2
  <2>4. SilentInv' /\ InvitedInv' /\ OfferedInv' /\ ConfirmedInv'
    BY <1>3, <2>1
  <2>5. RefusedInv'
    BY <1>3, <1>h, <2>1, <2>3 DEF AbortR
  <2> QED BY <2>2, <2>4, <2>5
<1> QED BY <1>a, <1>b, <1>c, <1>d, <1>e, <1>f, <1>h DEF StepR

(* The invariant holds throughout. *)
THEOREM HsInvariance == HsSpec => []HsInv
<1>1. HsInv /\ UNCHANGED hsVars => HsInv'
  BY DEF HsInv, hsVars, HsTypeOK, ResultInv, SilentInv, InvitedInv, OfferedInv,
         ConfirmedInv, RefusedInv, Accept, Confirm, DoneFrame
<1>2. HsInv /\ [HsNext]_hsVars => HsInv'
  BY <1>1, InitiatorSteps, ResponderSteps DEF HsNext
<1> QED BY HsInitInv, <1>2, PTL DEF HsSpec

-----------------------------------------------------------------------------
(* What the two calls promise.                                             *)

(* A responder that delivers an endpoint has negotiated what the initiator's
   caller accepted: the invited value where the invitation mentions the key,
   else its own, and none of them zero. *)
THEOREM AgreementAlways == HsSpec => []Agreement
<1>1. HsInv => Agreement
  <2> SUFFICES ASSUME HsInv, resR = "ok" PROVE Agreement
    BY DEF Agreement
  <2>1. /\ pcR = "ok" /\ values = CompleteInvite(local, Proposed(invite))
        /\ accepted = values /\ \A k \in Keys : values[k] > 0
    BY DEF HsInv, ResultInv, InvitedInv, ConfirmedInv
  <2>2. Proposed(invite) \in Values /\ local \in Locals
    BY ProposedType DEF HsInv, HsTypeOK
  <2> QED BY <2>1, <2>2, Completed DEF Agreement
<1> QED BY <1>1, HsInvariance, PTL

(* The initiator's success is never one-sided, and leaves no byte of the
   handshake in either stream. *)
THEOREM InitiatorAlwaysLast == HsSpec => []InitiatorIsLast
<1>1. HsInv => InitiatorIsLast
  <2> SUFFICES ASSUME HsInv, resI = "ok"
               PROVE  resR = "ok" /\ toI = << >> /\ toR = << >>
    BY DEF InitiatorIsLast
  <2>1. pcI = "ok"
    BY DEF HsInv, ResultInv
  <2>2. pcR = "ok"
    BY <2>1 DEF HsInv, HsTypeOK, InvitedInv, OfferedInv, ConfirmedInv, RefusedInv
  <2> QED BY <2>1, <2>2 DEF HsInv, ResultInv, ConfirmedInv
<1> QED BY <1>1, HsInvariance, PTL


-----------------------------------------------------------------------------
(* Sequences.                                                              *)

(* One sequence after another. *)
LEMMA Concat ==
    ASSUME NEW S, NEW x \in Seq(S), NEW y \in Seq(S)
    PROVE  /\ x \o y \in Seq(S) /\ Len(x \o y) = Len(x) + Len(y)
           /\ \A i \in 1 .. Len(x) + Len(y) : (x \o y)[i] = IF i <= Len(x) THEN x[i] ELSE y[i - Len(x)]
OBVIOUS

(* One element more. *)
LEMMA OneMore ==
    ASSUME NEW S, NEW x \in Seq(S), NEW e \in S
    PROVE  /\ Append(x, e) \in Seq(S) /\ Len(Append(x, e)) = Len(x) + 1
           /\ Append(x, e)[Len(x) + 1] = e
           /\ \A i \in 1 .. Len(x) : Append(x, e)[i] = x[i]
OBVIOUS

-----------------------------------------------------------------------------
(* Induction over the naturals, on sets.                                   *)

(* A set of naturals has a least element. *)
LEMMA LeastNatural ==
    ASSUME NEW S \in SUBSET Nat, S # {}
    PROVE  \E m \in S : \A k \in S : m <= k
<1>1. PICK x \in S : \A y \in S : ~(<<y, x>> \in OpToRel(<, Nat))
  BY WFMin, NatLessThanWellFounded
<1>2. \A y \in S : ~(y < x)
  BY <1>1 DEF OpToRel
<1>3. x \in Nat /\ \A y \in S : y \in Nat
  OBVIOUS
<1> QED BY <1>2, <1>3

(* Induction, on sets. *)
LEMMA Induction ==
    ASSUME NEW S, 0 \in S, \A n \in Nat : n \in S => n + 1 \in S
    PROVE  \A n \in Nat : n \in S
<1> SUFFICES ASSUME Nat \ S # {} PROVE FALSE
  OBVIOUS
<1>1. PICK m \in Nat \ S : \A k \in Nat \ S : m <= k
  BY LeastNatural
<1>2. m # 0 /\ m - 1 \in Nat /\ m - 1 \notin Nat \ S
  BY <1>1
<1> QED BY <1>1, <1>2

-----------------------------------------------------------------------------
(* The prefix of a chunk.                                                  *)

(* Division with a remainder. *)
LEMMA Division ==
    ASSUME NEW a \in Nat, NEW b \in Nat, b > 0
    PROVE  a \div b \in Nat /\ a % b \in Nat /\ (a \div b) * b + (a % b) = a
BY Z3

(* A quotient stays below a bound that is a multiple of the divisor. *)
LEMMA QuotientBelow ==
    ASSUME NEW a \in Nat, NEW b \in Nat, NEW p \in Nat, b > 0, a < p * b
    PROVE  a \div b < p
<1>1. a \div b \in Nat /\ (a \div b) * b <= a
  BY Division
<1> SUFFICES ASSUME a \div b >= p PROVE FALSE
  BY <1>1
<1> DEFINE q == a \div b
<1>2. q \in Nat /\ q >= p /\ q * b <= a
  BY <1>1
<1> HIDE DEF q
<1>3. p * b <= q * b
  BY ONLY <1>2, p \in Nat, b \in Nat, b > 0, Z3
<1>4. p * b \in Nat /\ q * b \in Nat
  BY ONLY <1>2, p \in Nat, b \in Nat
<1> QED BY <1>2, <1>3, <1>4

(* f is given up to m by its first value and a step. *)
StepsFrom(a, G, m, f) ==
    f \in [0..m -> Nat] /\ f[0] = a /\ \A k \in 1..m : f[k] = G[f[k - 1]]

(* A function may be given by its first value and a step. *)
LEMMA StepFunction ==
    ASSUME NEW a \in Nat, NEW G \in [Nat -> Nat], NEW n \in Nat
    PROVE  \E f : StepsFrom(a, G, n, f)
<1> DEFINE S == {m \in Nat : \E f : StepsFrom(a, G, m, f)}
<1>1. 0 \in S
  <2>1. StepsFrom(a, G, 0, [k \in 0..0 |-> a])
    BY DEF StepsFrom
  <2> QED BY <2>1
<1>2. \A m \in Nat : m \in S => m + 1 \in S
  <2> SUFFICES ASSUME NEW m \in Nat, m \in S PROVE \E g : StepsFrom(a, G, m + 1, g)
    OBVIOUS
  <2>1. PICK f : StepsFrom(a, G, m, f)
    OBVIOUS
  <2>2. f \in [0..m -> Nat] /\ f[0] = a /\ \A k \in 1..m : f[k] = G[f[k - 1]]
    BY ONLY <2>1 DEF StepsFrom
  <2>3. G[f[m]] \in Nat
    BY <2>2
  <2>4. PICK g : g = [k \in 0..(m + 1) |-> IF k <= m THEN f[k] ELSE G[f[m]]]
    OBVIOUS
  <2>5. g \in [0..(m + 1) -> Nat]
    <3>1. ASSUME NEW k \in 0..(m + 1) PROVE g[k] \in Nat
      <4>1. CASE k <= m
        <5>1. k \in 0..m
          BY <4>1
        <5>2. g[k] = f[k]
          BY ONLY <2>4, <4>1, k \in 0..(m + 1)
        <5> QED BY ONLY <2>2, <5>1, <5>2
      <4>2. CASE ~(k <= m)
        BY <2>3, <2>4, <4>2
      <4> QED BY <4>1, <4>2
    <3> QED BY ONLY <2>4, <3>1
  <2>6. \A k \in 0..m : g[k] = f[k]
    BY ONLY <2>4, m \in Nat
  <2>7. g[m + 1] = G[g[m]]
    BY ONLY <2>4, <2>6, m \in Nat
  <2>8. g[0] = a
    BY ONLY <2>2, <2>6, m \in Nat, SMTT(60)
  <2>9. ASSUME NEW k \in 1..(m + 1) PROVE g[k] = G[g[k - 1]]
    <3>1. CASE k <= m
      <4>1. k \in 1..m /\ k \in 0..m /\ k - 1 \in 0..m
        BY <3>1
      <4>2. g[k] = f[k] /\ g[k - 1] = f[k - 1] /\ f[k] = G[f[k - 1]]
        BY ONLY <2>2, <2>6, <4>1
      <4> QED BY ONLY <4>2
    <3>2. CASE ~(k <= m)
      <4>1. k = m + 1 /\ k - 1 = m
        BY <3>2
      <4> QED BY ONLY <2>7, <4>1
    <3> QED BY <3>1, <3>2
  <2>10. StepsFrom(a, G, m + 1, g)
    BY ONLY <2>5, <2>8, <2>9 DEF StepsFrom
  <2> QED BY ONLY <2>10
<1> HIDE DEF S
<1>3. n \in S
  BY <1>1, <1>2, Induction
<1> QED BY <1>3 DEF S

(* The powers of Base, up to the bound of a prefix. *)
LEMMA Powers ==
    \E pw \in [0..PrefixLen -> Nat] :
        /\ pw[0] = 1 /\ \A k \in 1..PrefixLen : pw[k] = pw[k - 1] * Base
        /\ PrefixMax = pw[PrefixLen]
<1> DEFINE G == [x \in Nat |-> x * Base]
           Rec(f) == [k \in 0..PrefixLen |-> IF k = 0 THEN 1 ELSE f[k - 1] * Base]
           P == CHOOSE f : f = Rec(f)
<1>0. Base \in Nat /\ PrefixLen \in Nat /\ PrefixLen > 0
  BY MultipartAssumption
<1>1. G \in [Nat -> Nat]
  BY <1>0
<1>2. PICK f : StepsFrom(1, G, PrefixLen, f)
  <2>1. 1 \in Nat
    OBVIOUS
  <2> HIDE DEF G
  <2> QED BY <1>0, <1>1, <2>1, StepFunction
<1>3. f = Rec(f)
  <2>1. f \in [0..PrefixLen -> Nat] /\ f[0] = 1 /\ \A k \in 1..PrefixLen : f[k] = f[k - 1] * Base
    <3>1. f \in [0..PrefixLen -> Nat] /\ f[0] = 1 /\ \A k \in 1..PrefixLen : f[k] = G[f[k - 1]]
      BY <1>2 DEF StepsFrom
    <3>2. ASSUME NEW k \in 1..PrefixLen PROVE f[k] = f[k - 1] * Base
      <4>1. k - 1 \in 0..PrefixLen
        BY <1>0
      <4>2. f[k - 1] \in Nat
        BY <3>1, <4>1
      <4>3. G[f[k - 1]] = f[k - 1] * Base
        BY <4>2
      <4> QED BY <3>1, <4>3
    <3> QED BY <3>1, <3>2
  <2> HIDE DEF G
  <2> QED BY <1>0, <2>1
<1>4. P = Rec(P)
  BY <1>3
<1>5. PrefixMax = P[PrefixLen]
  BY DEF PrefixMax
<1> HIDE DEF P
<1> DEFINE S == {k \in Nat : k <= PrefixLen => P[k] \in Nat}
<1>6. \A k \in Nat : k \in S
  <2>1. 0 \in S
    BY <1>0, <1>4
  <2>2. \A k \in Nat : k \in S => k + 1 \in S
    <3> SUFFICES ASSUME NEW k \in Nat, k \in S, k + 1 <= PrefixLen PROVE P[k + 1] \in Nat
      OBVIOUS
    <3>1. P[k] \in Nat
      BY <1>0
    <3>2. k + 1 \in 0..PrefixLen /\ k + 1 # 0 /\ (k + 1) - 1 = k
      BY <1>0
    <3>3. P[k + 1] = P[k] * Base
      BY <1>4, <3>2
    <3> QED BY <1>0, <3>1, <3>3
  <2> HIDE DEF S
  <2> QED BY <2>1, <2>2, Induction
<1>7. P \in [0..PrefixLen -> Nat]
  <2>1. \A k \in 0..PrefixLen : P[k] \in Nat
    BY <1>0, <1>6
  <2> QED BY <1>4, <2>1
<1>8. P[0] = 1
  BY <1>0, <1>4
<1>9. ASSUME NEW k \in 1..PrefixLen PROVE P[k] = P[k - 1] * Base
  <2>1. k \in 0..PrefixLen /\ k # 0
    BY <1>0
  <2> QED BY <1>4, <2>1
<1> QED BY <1>5, <1>7, <1>8, <1>9

(* What a prefix can say: the number written is the number read. *)
LEMMA PrefixRoundTrip ==
    /\ PrefixMax \in Nat /\ PrefixMax >= 2
    /\ \A n \in 0..(PrefixMax - 1) :
          /\ PrefixBytes(n) \in Seq(Nat) /\ Len(PrefixBytes(n)) = PrefixLen
          /\ \A bytes : (\A i \in 1..PrefixLen : bytes[i] = PrefixBytes(n)[i]) => PrefixValue(bytes) = n
<1>0. Base \in Nat /\ Base > 0 /\ Base >= 2 /\ PrefixLen \in Nat /\ PrefixLen > 0
  BY MultipartAssumption
<1>1. PICK pw \in [0..PrefixLen -> Nat] :
          /\ pw[0] = 1 /\ \A k \in 1..PrefixLen : pw[k] = pw[k - 1] * Base
          /\ PrefixMax = pw[PrefixLen]
  BY Powers
<1>2. PrefixMax \in Nat /\ PrefixMax >= 2
  <2> DEFINE S == {k \in Nat : k <= PrefixLen => pw[k] >= 1}
  <2>1. 0 \in S
    BY <1>1
  <2>2. \A k \in Nat : k \in S => k + 1 \in S
    <3> SUFFICES ASSUME NEW k \in Nat, k \in S, k + 1 <= PrefixLen PROVE pw[k + 1] >= 1
      OBVIOUS
    <3>1. k + 1 \in 1..PrefixLen /\ k \in 0..PrefixLen /\ (k + 1) - 1 = k
      BY <1>0
    <3>2. pw[k + 1] = pw[k] * Base
      BY <1>1, <3>1
    <3>3. pw[k] \in Nat /\ pw[k] >= 1
      BY <1>0, <3>1
    <3> QED BY ONLY <1>0, <3>2, <3>3, Z3
  <2>3. PrefixLen - 1 \in S
    <3>1. PrefixLen - 1 \in Nat
      BY <1>0
    <3> HIDE DEF S
    <3>2. \A k \in Nat : k \in S
      BY <2>1, <2>2, Induction
    <3> QED BY <3>1, <3>2
  <2>4. pw[PrefixLen - 1] \in Nat /\ pw[PrefixLen - 1] >= 1 /\ pw[PrefixLen] = pw[PrefixLen - 1] * Base
    BY <1>0, <1>1, <2>3
  <2>5. pw[PrefixLen] \in Nat /\ pw[PrefixLen] >= 2
    BY ONLY <1>0, <2>4, Z3
  <2> QED BY ONLY <1>1, <2>5
<1>3. ASSUME NEW n \in 0..(PrefixMax - 1)
      PROVE  /\ PrefixBytes(n) \in Seq(Nat) /\ Len(PrefixBytes(n)) = PrefixLen
             /\ \A bytes : (\A i \in 1..PrefixLen : bytes[i] = PrefixBytes(n)[i]) => PrefixValue(bytes) = n
  <2> DEFINE G == [x \in Nat |-> x \div Base]
             Rec(f) == [k \in 0..PrefixLen |-> IF k = 0 THEN n ELSE f[k - 1] \div Base]
             P == CHOOSE f : f = Rec(f)
  <2>0. n \in Nat /\ n < PrefixMax
    BY <1>2
  <2>1. \A x \in Nat : x \div Base \in Nat
    BY <1>0, Division
  <2>2. PICK f : StepsFrom(n, G, PrefixLen, f)
    <3>1. G \in [Nat -> Nat]
      BY <2>1
    <3> HIDE DEF G
    <3> QED BY <1>0, <2>0, <3>1, StepFunction
  <2>3. f = Rec(f)
    <3>1. f \in [0..PrefixLen -> Nat] /\ f[0] = n /\ \A k \in 1..PrefixLen : f[k] = G[f[k - 1]]
      BY <2>2 DEF StepsFrom
    <3>2. ASSUME NEW k \in 1..PrefixLen PROVE f[k] = f[k - 1] \div Base
      <4>1. k - 1 \in 0..PrefixLen
        BY <1>0
      <4>2. f[k - 1] \in Nat
        BY <3>1, <4>1
      <4>3. G[f[k - 1]] = f[k - 1] \div Base
        BY <4>2
      <4> QED BY <3>1, <4>3
    <3> HIDE DEF G
    <3> QED BY <1>0, <3>1, <3>2
  <2>4. P = Rec(P)
    BY <2>3
  <2>5. PrefixBytes(n) = [i \in 1..PrefixLen |-> P[PrefixLen - i] % Base]
    BY DEF PrefixBytes
  <2> HIDE DEF P, G
  <2>6. P[0] = n
    BY <1>0, <2>4
  <2>7. ASSUME NEW k \in 1..PrefixLen PROVE P[k] = P[k - 1] \div Base
    <3>1. k \in 0..PrefixLen /\ k # 0
      BY <1>0
    <3> QED BY <2>4, <3>1
  <2>8. ASSUME NEW k \in Nat, k <= PrefixLen PROVE P[k] \in Nat /\ P[k] < pw[PrefixLen - k]
    <3> DEFINE S == {j \in Nat : j <= PrefixLen => P[j] \in Nat /\ P[j] < pw[PrefixLen - j]}
    <3>1. 0 \in S
      BY <1>0, <1>1, <2>0, <2>6, SMTT(40)
    <3>2. \A j \in Nat : j \in S => j + 1 \in S
      <4> SUFFICES ASSUME NEW j \in Nat, j \in S, j + 1 <= PrefixLen
                   PROVE  P[j + 1] \in Nat /\ P[j + 1] < pw[PrefixLen - (j + 1)]
        OBVIOUS
      <4>1. P[j] \in Nat /\ P[j] < pw[PrefixLen - j]
        BY <1>0
      <4>2. PICK r : r = PrefixLen - j
        OBVIOUS
      <4>3. r \in 1..PrefixLen /\ PrefixLen - (j + 1) = r - 1 /\ r - 1 \in 0..PrefixLen
        BY <1>0, <4>2
      <4>4. pw[r] = pw[r - 1] * Base /\ pw[r - 1] \in Nat
        BY <1>1, <4>3
      <4>5. j + 1 \in 1..PrefixLen /\ (j + 1) - 1 = j
        BY <1>0
      <4>6. P[j + 1] = P[j] \div Base
        BY <2>7, <4>5
      <4>7. P[j] < pw[r - 1] * Base
        BY ONLY <4>1, <4>2, <4>4
      <4>8. P[j] \div Base < pw[r - 1]
        BY ONLY <1>0, <4>1, <4>4, <4>7, QuotientBelow
      <4> QED BY ONLY <2>1, <4>1, <4>3, <4>6, <4>8
    <3> HIDE DEF S
    <3>3. k \in S
      BY <3>1, <3>2, Induction
    <3> QED BY <2>8, <3>3 DEF S
  <2>9. PrefixBytes(n) \in Seq(Nat) /\ Len(PrefixBytes(n)) = PrefixLen
    <3>1. ASSUME NEW i \in 1..PrefixLen PROVE P[PrefixLen - i] % Base \in Nat
      <4>1. PrefixLen - i \in Nat /\ PrefixLen - i <= PrefixLen
        BY <1>0
      <4>2. P[PrefixLen - i] \in Nat
        BY <2>8, <4>1
      <4> QED BY <1>0, <4>2, Division
    <3>2. PrefixBytes(n) \in [1..PrefixLen -> Nat]
      BY <2>5, <3>1
    <3> QED BY <1>0, <3>2
  <2>10. ASSUME NEW bytes, \A i \in 1..PrefixLen : bytes[i] = PrefixBytes(n)[i]
         PROVE  PrefixValue(bytes) = n
    <3> DEFINE Red(v) == [i \in 0..PrefixLen |-> IF i = 0 THEN 0 ELSE v[i - 1] * Base + bytes[i]]
               V == CHOOSE v : v = Red(v)
    <3>1. PICK g : g = [i \in 0..PrefixLen |-> P[PrefixLen - i]]
      OBVIOUS
    <3>2. P[PrefixLen] = 0
      <4>1. P[PrefixLen] \in Nat /\ P[PrefixLen] < pw[PrefixLen - PrefixLen] /\ PrefixLen - PrefixLen = 0
        BY <1>0, <2>8
      <4> QED BY ONLY <1>1, <4>1
    <3>3. ASSUME NEW i \in 1..PrefixLen
          PROVE  P[PrefixLen - (i - 1)] * Base + bytes[i] = P[PrefixLen - i]
      <4>1. PICK r : r = PrefixLen - i
        OBVIOUS
      <4>2. r \in Nat /\ r <= PrefixLen /\ r + 1 \in 1..PrefixLen /\ (r + 1) - 1 = r /\ PrefixLen - (i - 1) = r + 1
        BY <1>0, <4>1
      <4>3. P[r + 1] = P[r] \div Base /\ P[r] \in Nat
        BY <2>7, <2>8, <4>2
      <4>4. bytes[i] = P[r] % Base
        BY <2>5, <2>10, <4>1
      <4>5. (P[r] \div Base) * Base + (P[r] % Base) = P[r]
        BY ONLY <1>0, <4>3, Division
      <4> QED BY ONLY <4>1, <4>2, <4>3, <4>4, <4>5
    <3>4. g = Red(g)
      <4>1. ASSUME NEW i \in 0..PrefixLen PROVE g[i] = IF i = 0 THEN 0 ELSE g[i - 1] * Base + bytes[i]
        <5>1. CASE i = 0
          <6>1. PrefixLen - 0 = PrefixLen
            BY <1>0
          <6> QED BY <1>0, <3>1, <3>2, <5>1, <6>1
        <5>2. CASE i # 0
          <6>1. i \in 1..PrefixLen /\ i - 1 \in 0..PrefixLen
            BY <1>0, <5>2
          <6>2. g[i] = P[PrefixLen - i] /\ g[i - 1] = P[PrefixLen - (i - 1)]
            BY ONLY <3>1, <6>1, i \in 0..PrefixLen
          <6>3. g[i] = g[i - 1] * Base + bytes[i]
            BY ONLY <3>3, <6>1, <6>2
          <6> QED BY <5>2, <6>3
        <5> QED BY <5>1, <5>2
      <4>2. Red(g) = g
        BY <3>1, <4>1
      <4> QED BY <4>2
    <3>5. V = Red(V)
      BY <3>4
    <3>6. PrefixValue(bytes) = V[PrefixLen]
      BY DEF PrefixValue
    <3> HIDE DEF V
    <3> DEFINE S == {i \in Nat : i <= PrefixLen => V[i] = P[PrefixLen - i]}
    <3>7. 0 \in S
      <4>1. PrefixLen - 0 = PrefixLen /\ 0 \in 0..PrefixLen
        BY <1>0
      <4>2. V[0] = 0
        BY <3>5, <4>1
      <4> QED BY <3>2, <4>1, <4>2
    <3>8. \A i \in Nat : i \in S => i + 1 \in S
      <4> SUFFICES ASSUME NEW i \in Nat, i \in S, i + 1 <= PrefixLen
                   PROVE  V[i + 1] = P[PrefixLen - (i + 1)]
        OBVIOUS
      <4>1. i + 1 \in 1..PrefixLen /\ i + 1 \in 0..PrefixLen /\ i + 1 # 0 /\ (i + 1) - 1 = i
        BY <1>0
      <4>2. V[i] = P[PrefixLen - i]
        BY <1>0
      <4>3. V[i + 1] = V[i] * Base + bytes[i + 1]
        BY <3>5, <4>1
      <4>4. P[PrefixLen - ((i + 1) - 1)] * Base + bytes[i + 1] = P[PrefixLen - (i + 1)]
        BY ONLY <3>3, <4>1
      <4> QED BY ONLY <4>1, <4>2, <4>3, <4>4
    <3>9. PrefixLen \in S
      <4> HIDE DEF S
      <4> QED BY <1>0, <3>7, <3>8, Induction
    <3>10. V[PrefixLen] = P[PrefixLen - PrefixLen] /\ PrefixLen - PrefixLen = 0
      BY <1>0, <3>9
    <3> QED BY ONLY <2>6, <3>6, <3>10
  <2> QED BY <2>9, <2>10
<1> QED BY <1>2, <1>3

-----------------------------------------------------------------------------
(* Multipart: what is on the way from the encoder to the decoder.          *)

Encs == [pc : {"top", "wait", "zero", "prefix", "target", "fill", "done"}, size : Nat, cc : Nat,
         held : Seq(Nat), room : Nat, res : {"running", "left", "eof", "Target", "Source", "Invalid"}]
Decs == [pc : {"idle", "prefix", "payload", "lent"}, left : Nat, eof : BOOLEAN, min : Nat,
         lent : Nat, err : {"none", "Eof", "Invalid"}]

MpTypes == /\ feed \in Seq(Nat) /\ fed \in Seq(Nat) /\ src \in Seq(Nat) /\ tgt \in Seq(Nat) /\ got \in Seq(Nat)
           /\ enc \in Encs /\ dec \in Decs

(* Where the encoder is, and what it then knows. *)
EncState ==
    /\ enc.cc <= enc.size
    /\ enc.pc \in {"top", "wait", "zero"} => enc.cc = enc.size
    /\ enc.pc # "fill" => enc.held = << >>
    /\ enc.pc = "prefix" => enc.cc = 0 /\ enc.size \in 1..(PrefixMax - 1) /\ enc.size <= Len(src)
    /\ (enc.pc = "zero" \/ enc.res = "eof") => srcClosed /\ src = << >>
    /\ enc.res = "eof" => enc.cc = enc.size
    /\ enc.pc # "done" <=> enc.res = "running"
    /\ tgtClosed => enc.pc = "done"

(* The same of the decoder. *)
DecState ==
    /\ dec.pc = "prefix" => dec.left = 0
    /\ dec.pc = "payload" => dec.left > 0
    /\ dec.pc = "lent" => dec.lent <= dec.left /\ dec.lent <= Len(tgt)
    /\ dec.pc # "idle" => dec.err = "none"
    /\ dec.eof => dec.err = "Eof"
    /\ dec.err = "Invalid" => tgtClosed /\ enc.res # "eof"

(* Everything that was written to the target, wire, is a list of chunks: the
   c-th begins after at[c] bytes of it and carries what was fed after pay[c]
   bytes, up to the next chunk's; the last entry is where the next will begin. *)
Chunked(wire, at, pay, c) ==
    /\ pay[c + 1] - pay[c] \in 1..(PrefixMax - 1)
    /\ at[c + 1] = at[c] + PrefixLen + (pay[c + 1] - pay[c])
    /\ at[c] + PrefixLen <= Len(wire)
    /\ \A i \in 1..PrefixLen : wire[at[c] + i] = PrefixBytes(pay[c + 1] - pay[c])[i]
Layout(wire, at, pay) ==
    /\ wire \in Seq(Nat) /\ at \in Seq(Nat) /\ pay \in Seq(Nat)
    /\ Len(at) = Len(pay) /\ Len(at) >= 1 /\ at[1] = 0 /\ pay[1] = 0
    /\ \A c \in 1..Len(at) : at[c] <= at[Len(at)] /\ pay[c] <= pay[Len(at)]
    /\ \A c \in 1..(Len(at) - 1) : Chunked(wire, at, pay, c)

(* The payload of a chunk, as far as it was written, is what was fed. *)
Carries(wire, at, pay, c) ==
    \A q \in 1..(pay[c + 1] - pay[c]) :
        at[c] + PrefixLen + q <= Len(wire) => wire[at[c] + PrefixLen + q] = fed[pay[c] + q]
Payload(wire, at, pay) == \A c \in 1..(Len(at) - 1) : Carries(wire, at, pay, c)

(* The source holds the end of what was fed. *)
Source == /\ Len(src) <= Len(fed)
          /\ \A i \in 1..Len(src) : src[i] = fed[Len(fed) - Len(src) + i]

(* Bytes of the chunk whose prefix is written that are still in the source. *)
Owed == IF enc.pc = "prefix" THEN 0 ELSE enc.size - enc.cc

(* The encoder has written, or holds, all of the last chunk but what it owes:
   h is what it holds, o what it owes, r its result, f what was fed and k how
   much of that is in the source. *)
SentBy(wire, at, pay, h, o, r, f, k) ==
    /\ Len(wire) + Len(h) + o = at[Len(at)] + (IF r = "eof" THEN PrefixLen ELSE 0)
    /\ Len(f) - k + o = pay[Len(at)]
    /\ o <= k
    /\ Len(h) <= Len(f) - k
    /\ \A j \in 1..Len(h) : h[j] = f[Len(f) - k - Len(h) + j]
    /\ r = "eof" => \A i \in 1..PrefixLen : wire[at[Len(at)] + i] = PrefixBytes(0)[i]
Sent(wire, at, pay) == SentBy(wire, at, pay, enc.held, Owed, enc.res, fed, Len(src))

(* The target holds the end of what was written, and the decoder is between two
   chunks or, with left bytes to go, inside of one. *)
Between(wire, at, pay, d) ==
    /\ Len(wire) - Len(tgt) + dec.left = at[d] /\ Len(got) + dec.left = pay[d]
    /\ dec.left > 0 => d > 1 /\ dec.left <= pay[d] - pay[d - 1]
Holds(wire) ==
    /\ Len(tgt) <= Len(wire)
    /\ \A i \in 1..Len(tgt) : tgt[i] = wire[Len(wire) - Len(tgt) + i]
Taken == /\ Len(got) <= Len(fed)
         /\ \A q \in 1..Len(got) : got[q] = fed[q]
Received(wire, at, pay) ==
    /\ dec.eof => enc.res = "eof" /\ Len(got) = pay[Len(at)]
    /\ ~dec.eof => \E d \in 1..Len(at) : Between(wire, at, pay, d)

Flow(wire, at, pay) ==
    /\ Layout(wire, at, pay) /\ Payload(wire, at, pay) /\ Sent(wire, at, pay)
    /\ Holds(wire) /\ Received(wire, at, pay)

(* The inductive invariant of the transfer. *)
MpGood == /\ MpTypes /\ EncState /\ DecState /\ Source /\ Taken
          /\ \E wire, at, pay : Flow(wire, at, pay)
MpInv == torn \/ MpGood

(* It gives what the decoder's caller sees. *)
LEMMA MpInvGives == MpInv => Transparent
<1> SUFFICES ASSUME MpGood, ~torn PROVE Transparent
  BY DEF MpInv, Transparent
<1>1. PICK wire, at, pay : Flow(wire, at, pay)
  BY DEF MpGood
<1>2. got = SubSeq(fed, 1, Len(got)) /\ Len(got) <= Len(fed)
  BY DEF MpGood, MpTypes, Taken
<1>3. ASSUME dec.eof PROVE srcClosed /\ got = fed
  <2>1. enc.res = "eof" /\ Len(got) = pay[Len(at)]
    BY <1>1, <1>3 DEF Flow, Received
  <2>2. srcClosed /\ src = << >> /\ enc.cc = enc.size /\ enc.pc # "prefix"
    BY <2>1 DEF MpGood, EncState
  <2>3. enc.size - enc.cc = 0
    BY <2>2 DEF MpGood, MpTypes, Encs
  <2>4. Len(fed) = pay[Len(at)]
    BY <1>1, <2>2, <2>3 DEF MpGood, MpTypes, Flow, Sent, SentBy, Owed
  <2>5. Len(got) = Len(fed)
    BY <2>1, <2>4
  <2>6. got \in Seq(Nat) /\ fed \in Seq(Nat) /\ \A q \in 1..Len(got) : got[q] = fed[q]
    BY DEF MpGood, MpTypes, Taken
  <2>7. got = fed
    BY ONLY <2>5, <2>6
  <2> QED BY <2>2, <2>7
<1> QED BY <1>2, <1>3 DEF MpGood, DecState, Transparent

(* It holds at the start. *)
LEMMA MpInvInit == MpInit => MpInv
<1> SUFFICES ASSUME MpInit PROVE MpGood
  BY DEF MpInv
<1>0. PrefixLen \in Nat /\ Streams \subseteq Seq(Nat)
  BY MultipartAssumption
<1>1. MpTypes
  <2>1. enc \in Encs
    BY DEF MpInit, Encs
  <2>2. dec \in Decs
    BY DEF MpInit, Decs
  <2> QED BY <1>0, <2>1, <2>2 DEF MpInit, MpTypes
<1>2. EncState /\ DecState /\ Source /\ Taken
  BY DEF MpInit, EncState, DecState, Source, Taken
<1>3. Flow(<< >>, <<0>>, <<0>>)
  <2>1. Layout(<< >>, <<0>>, <<0>>) /\ Payload(<< >>, <<0>>, <<0>>)
    BY DEF Layout, Payload
  <2>2. Sent(<< >>, <<0>>, <<0>>)
    BY DEF MpInit, Sent, SentBy, Owed
  <2>3. Holds(<< >>)
    BY DEF MpInit, Holds
  <2>4. Between(<< >>, <<0>>, <<0>>, 1)
    BY DEF MpInit, Between
  <2>5. Received(<< >>, <<0>>, <<0>>)
    BY <2>4 DEF MpInit, Received
  <2> QED BY <2>1, <2>2, <2>3, <2>5 DEF Flow
<1> QED BY <1>1, <1>2, <1>3 DEF MpGood

-----------------------------------------------------------------------------
(* What a write to the target, and a byte fed to the source, leave true.   *)

(* The chunks stay where they are when bytes are added. *)
LEMMA LayoutGrows ==
    ASSUME NEW wire, NEW at, NEW pay, NEW x \in Seq(Nat), NEW w2,
           Layout(wire, at, pay), w2 = wire \o x
    PROVE  Layout(w2, at, pay)
<1>0. PrefixLen \in Nat /\ wire \in Seq(Nat) /\ at \in Seq(Nat) /\ pay \in Seq(Nat) /\ Len(at) = Len(pay)
  BY MultipartAssumption DEF Layout
<1>1. /\ w2 \in Seq(Nat) /\ Len(w2) = Len(wire) + Len(x)
      /\ \A i \in 1 .. Len(wire) + Len(x) : w2[i] = IF i <= Len(wire) THEN wire[i] ELSE x[i - Len(wire)]
  BY <1>0, Concat
<1>2. ASSUME NEW c \in 1..(Len(at) - 1) PROVE Chunked(w2, at, pay, c)
  <2>1. Chunked(wire, at, pay, c)
    BY DEF Layout
  <2>2. at[c] \in Nat /\ Len(wire) \in Nat /\ Len(x) \in Nat
    BY ONLY <1>0, c \in 1..(Len(at) - 1), x \in Seq(Nat), SMTT(60)
  <2>3. at[c] + PrefixLen <= Len(wire)
    BY <2>1 DEF Chunked
  <2>4. at[c] + PrefixLen <= Len(w2)
    BY <1>0, <1>1, <2>2, <2>3, SMTT(40)
  <2>5. ASSUME NEW i \in 1..PrefixLen PROVE w2[at[c] + i] = wire[at[c] + i]
    <3>1. at[c] + i \in 1 .. Len(wire) + Len(x) /\ at[c] + i <= Len(wire)
      <4>1. i \in 1..PrefixLen /\ PrefixLen \in Nat
        BY <1>0
      <4> QED BY ONLY <2>2, <2>3, <4>1
    <3> QED BY <1>1, <3>1
  <2> QED BY <2>1, <2>4, <2>5 DEF Chunked
<1> QED BY <1>1, <1>2 DEF Layout

(* The prefix of k bytes is written where the last chunk ends. *)
Begins(wire, at, pay, k, w2, at2, pay2) ==
    /\ k \in 1..(PrefixMax - 1) /\ Len(wire) = at[Len(at)] /\ w2 = wire \o PrefixBytes(k)
    /\ at2 = Append(at, at[Len(at)] + PrefixLen + k) /\ pay2 = Append(pay, pay[Len(at)] + k)

(* What one chunk more means for the numbers. *)
Longer(wire, at, pay, k, w2, at2, pay2) ==
    /\ Len(at2) = Len(at) + 1 /\ Len(w2) = Len(wire) + PrefixLen
    /\ \A c \in 1..Len(at) : at2[c] = at[c] /\ pay2[c] = pay[c]
    /\ at2[Len(at) + 1] = at[Len(at)] + PrefixLen + k /\ pay2[Len(at) + 1] = pay[Len(at)] + k

(* A prefix begins a new chunk. *)
LEMMA LayoutExtends ==
    ASSUME NEW wire, NEW at, NEW pay, NEW k, NEW w2, NEW at2, NEW pay2,
           Layout(wire, at, pay), Begins(wire, at, pay, k, w2, at2, pay2)
    PROVE  Layout(w2, at2, pay2) /\ Longer(wire, at, pay, k, w2, at2, pay2)
<1> USE DEF Begins
<1>0. /\ PrefixLen \in Nat /\ wire \in Seq(Nat) /\ at \in Seq(Nat) /\ pay \in Seq(Nat)
      /\ Len(at) = Len(pay) /\ Len(at) >= 1
  BY MultipartAssumption DEF Layout
<1>1. PICK n : n = Len(at)
  OBVIOUS
<1>2. /\ n \in Nat /\ n >= 1 /\ k \in Nat /\ k >= 1 /\ at[n] \in Nat /\ pay[n] \in Nat /\ Len(wire) \in Nat
      /\ Len(wire) = at[n] /\ Len(pay) = n
  BY <1>0, <1>1, PrefixRoundTrip
<1>3. PICK b : b = PrefixBytes(k)
  OBVIOUS
<1>4. b \in Seq(Nat) /\ Len(b) = PrefixLen
  <2>1. k \in 0..(PrefixMax - 1)
    BY PrefixRoundTrip
  <2> QED BY <1>3, <2>1, PrefixRoundTrip
<1>5. /\ w2 \in Seq(Nat) /\ Len(w2) = Len(wire) + PrefixLen
      /\ \A i \in 1 .. Len(wire) + PrefixLen : w2[i] = IF i <= Len(wire) THEN wire[i] ELSE b[i - Len(wire)]
  <2>1. w2 = wire \o b
    BY <1>3
  <2> QED BY ONLY <1>0, <1>4, <2>1, Concat, ZenonT(60)
<1>6. /\ at2 \in Seq(Nat) /\ Len(at2) = n + 1 /\ at2[n + 1] = at[n] + PrefixLen + k
      /\ \A c \in 1..n : at2[c] = at[c]
  <2>1. PICK e : e = at[n] + PrefixLen + k
    OBVIOUS
  <2>2. e \in Nat /\ at2 = Append(at, e)
    BY <1>0, <1>1, <1>2, <2>1, SMTT(40)
  <2> QED BY ONLY <1>0, <1>1, <2>1, <2>2, OneMore
<1>7. /\ pay2 \in Seq(Nat) /\ Len(pay2) = n + 1 /\ pay2[n + 1] = pay[n] + k
      /\ \A c \in 1..n : pay2[c] = pay[c]
  <2>1. PICK e : e = pay[n] + k
    OBVIOUS
  <2>2. e \in Nat /\ pay2 = Append(pay, e)
    BY <1>0, <1>1, <1>2, <2>1, SMTT(40)
  <2> QED BY ONLY <1>0, <1>1, <2>1, <2>2, OneMore
<1>8. \A c \in 1..(n + 1) : at2[c] <= at2[n + 1] /\ pay2[c] <= pay2[n + 1]
  <2> SUFFICES ASSUME NEW c \in 1..(n + 1) PROVE at2[c] <= at2[n + 1] /\ pay2[c] <= pay2[n + 1]
    OBVIOUS
  <2>1. CASE c = n + 1
    BY <1>0, <1>2, <1>6, <1>7, <2>1, SMTT(40)
  <2>2. CASE c # n + 1
    <3>1. c \in 1..n
      BY <1>2, <2>2
    <3>2. at[c] <= at[n] /\ pay[c] <= pay[n] /\ at[c] \in Nat /\ pay[c] \in Nat
      BY <1>0, <1>1, <3>1, SMTT(40) DEF Layout
    <3>3. at2[c] = at[c] /\ pay2[c] = pay[c]
      BY <1>6, <1>7, <3>1
    <3>4. at[c] <= at2[n + 1]
      <4>1. at2[n + 1] = at[n] + PrefixLen + k /\ at[n] \in Nat /\ k \in Nat /\ PrefixLen \in Nat
        BY <1>0, <1>2, <1>6
      <4> QED BY ONLY <3>2, <4>1
    <3>5. pay[c] <= pay2[n + 1]
      <4>1. pay2[n + 1] = pay[n] + k /\ pay[n] \in Nat /\ k \in Nat
        BY <1>2, <1>7
      <4> QED BY ONLY <3>2, <4>1
    <3> QED BY ONLY <3>3, <3>4, <3>5
  <2> QED BY <2>1, <2>2
<1>9. ASSUME NEW c \in 1..n PROVE Chunked(w2, at2, pay2, c)
  <2>1. CASE c = n
    <3>1. at2[n] = at[n] /\ pay2[n] = pay[n]
      BY <1>2, <1>6, <1>7
    <3>2. pay2[n + 1] - pay2[n] = k
      BY <1>2, <1>7, <3>1
    <3>3. at2[n] + PrefixLen <= Len(w2)
      BY <1>0, <1>2, <1>5, <3>1
    <3>4. ASSUME NEW i \in 1..PrefixLen PROVE w2[at2[n] + i] = b[i]
      <4>1. at[n] + i \in 1 .. Len(wire) + PrefixLen /\ ~(at[n] + i <= Len(wire)) /\ (at[n] + i) - Len(wire) = i
        BY <1>0, <1>2, SMTT(40)
      <4> QED BY <1>5, <3>1, <4>1
    <3>5. at2[n + 1] = at2[n] + PrefixLen + k
      BY <1>6, <3>1
    <3>6. k \in 1..(PrefixMax - 1)
      OBVIOUS
    <3> QED BY ONLY <1>3, <2>1, <3>2, <3>3, <3>4, <3>5, <3>6 DEF Chunked
  <2>2. CASE c # n
    <3>1. c \in 1..(Len(at) - 1) /\ c \in 1..n /\ c + 1 \in 1..n
      BY <1>1, <1>2, <2>2
    <3>2. Chunked(wire, at, pay, c)
      BY <3>1 DEF Layout
    <3>3. at2[c] = at[c] /\ pay2[c] = pay[c] /\ at2[c + 1] = at[c + 1] /\ pay2[c + 1] = pay[c + 1]
      BY <1>6, <1>7, <3>1
    <3>4. at[c] \in Nat /\ at[c] + PrefixLen <= Len(wire)
      <4>1. at[c] \in Nat
        BY ONLY <1>0, <1>1, <3>1
      <4> QED BY ONLY <3>2, <4>1 DEF Chunked
    <3>5. at2[c] + PrefixLen <= Len(w2)
      BY <1>0, <1>2, <1>5, <3>3, <3>4, SMTT(60)
    <3>6. ASSUME NEW i \in 1..PrefixLen PROVE w2[at2[c] + i] = wire[at[c] + i]
      <4>1. at[c] + i \in 1 .. Len(wire) + PrefixLen /\ at[c] + i <= Len(wire)
        <5>1. i \in 1..PrefixLen /\ PrefixLen \in Nat /\ Len(wire) \in Nat
          BY <1>0, <1>2
        <5> QED BY ONLY <3>4, <5>1
      <4> QED BY <1>5, <3>3, <4>1
    <3> QED BY ONLY <3>2, <3>3, <3>5, <3>6 DEF Chunked
  <2> QED BY <2>1, <2>2
<1>10. at2[1] = 0 /\ pay2[1] = 0
  BY <1>2, <1>6, <1>7 DEF Layout
<1>11. Len(at2) - 1 = n /\ Len(at2) >= 1 /\ Len(at2) = Len(pay2)
  BY <1>2, <1>6, <1>7
<1>12. Layout(w2, at2, pay2)
  BY ONLY <1>5, <1>6, <1>7, <1>8, <1>9, <1>10, <1>11 DEF Layout
<1> QED BY ONLY <1>1, <1>5, <1>6, <1>7, <1>12 DEF Longer

(* The target keeps being the end of what was written. *)
LEMMA HoldsGrows ==
    ASSUME NEW wire \in Seq(Nat), NEW x \in Seq(Nat), NEW w2, tgt \in Seq(Nat),
           Holds(wire), w2 = wire \o x, tgt' = tgt \o x
    PROVE  /\ Holds(w2)' /\ tgt' \in Seq(Nat) /\ w2 \in Seq(Nat) /\ Len(w2) = Len(wire) + Len(x)
           /\ Len(tgt') = Len(tgt) + Len(x)
<1>1. /\ w2 \in Seq(Nat) /\ Len(w2) = Len(wire) + Len(x)
      /\ \A i \in 1 .. Len(wire) + Len(x) : w2[i] = IF i <= Len(wire) THEN wire[i] ELSE x[i - Len(wire)]
  BY Concat
<1>2. PICK t : t = tgt
  OBVIOUS
<1>3. PICK t2 : t2 = tgt'
  OBVIOUS
<1>4. /\ t2 \in Seq(Nat) /\ Len(t2) = Len(t) + Len(x)
      /\ \A i \in 1 .. Len(t) + Len(x) : t2[i] = IF i <= Len(t) THEN t[i] ELSE x[i - Len(t)]
  <2>1. t \in Seq(Nat) /\ t2 = t \o x
    BY <1>2, <1>3
  <2> QED BY ONLY <2>1, Concat, x \in Seq(Nat)
<1>5. Len(t) <= Len(wire) /\ \A i \in 1..Len(t) : t[i] = wire[Len(wire) - Len(t) + i]
  BY <1>2 DEF Holds
<1>6. Len(t) \in Nat /\ Len(wire) \in Nat /\ Len(x) \in Nat
  BY <1>2
<1>7. ASSUME NEW i \in 1..Len(t2) PROVE t2[i] = w2[Len(w2) - Len(t2) + i]
  <2>1. i \in 1 .. Len(t) + Len(x) /\ Len(w2) - Len(t2) = Len(wire) - Len(t)
    BY <1>1, <1>4, <1>6
  <2>2. PICK p : p = Len(wire) - Len(t) + i
    OBVIOUS
  <2>3. p \in 1 .. Len(wire) + Len(x)
    BY <1>5, <1>6, <2>1, <2>2
  <2>4. CASE i <= Len(t)
    <3>1. i \in 1..Len(t) /\ p <= Len(wire)
      BY <1>5, <1>6, <2>2, <2>4
    <3>2. t2[i] = t[i] /\ t[i] = wire[p] /\ w2[p] = wire[p]
      BY <1>1, <1>4, <1>5, <2>1, <2>2, <2>3, <3>1
    <3> QED BY ONLY <2>1, <2>2, <3>2
  <2>5. CASE ~(i <= Len(t))
    <3>1. ~(p <= Len(wire)) /\ p - Len(wire) = i - Len(t)
      BY <1>5, <1>6, <2>2, <2>5
    <3>2. t2[i] = x[i - Len(t)] /\ w2[p] = x[p - Len(wire)]
      BY <1>1, <1>4, <2>1, <2>3, <2>5, <3>1
    <3> QED BY ONLY <2>1, <2>2, <3>1, <3>2
  <2> QED BY <2>4, <2>5
<1>8. Len(t2) <= Len(w2)
  BY <1>1, <1>4, <1>5, <1>6
<1>9. Holds(w2)'
  BY <1>3, <1>7, <1>8 DEF Holds
<1> QED BY <1>1, <1>2, <1>3, <1>4, <1>9

(* The numbers of a chunk. *)
Numbers(wire, at, pay, c, a, a1, y, y1, w, an, yn) ==
    /\ a \in Nat /\ a1 \in Nat /\ y \in Nat /\ y1 \in Nat /\ w \in Nat /\ an \in Nat /\ yn \in Nat
    /\ a = at[c] /\ a1 = at[c + 1] /\ y = pay[c] /\ y1 = pay[c + 1] /\ w = Len(wire)
    /\ an = at[Len(at)] /\ yn = pay[Len(at)] /\ a1 <= an /\ y1 <= yn
    /\ a1 = a + PrefixLen + (y1 - y) /\ y1 - y \in 1..(PrefixMax - 1) /\ a + PrefixLen <= w

(* Every chunk has them. *)
LEMMA ChunkNumbers ==
    ASSUME NEW wire, NEW at, NEW pay, NEW c, Layout(wire, at, pay), c \in 1..(Len(at) - 1)
    PROVE  \E a, a1, y, y1, w, an, yn : Numbers(wire, at, pay, c, a, a1, y, y1, w, an, yn)
<1>0. /\ wire \in Seq(Nat) /\ at \in Seq(Nat) /\ pay \in Seq(Nat) /\ Len(at) = Len(pay) /\ Len(at) \in Nat
      /\ Len(wire) \in Nat /\ Len(at) >= 1
  BY DEF Layout
<1>1. c \in 1..Len(at) /\ c + 1 \in 1..Len(at) /\ Len(at) \in 1..Len(at)
  BY <1>0
<1>2. /\ at[c] \in Nat /\ at[c + 1] \in Nat /\ pay[c] \in Nat /\ pay[c + 1] \in Nat
      /\ at[Len(at)] \in Nat /\ pay[Len(at)] \in Nat
  BY ONLY <1>0, <1>1, SMTT(60)
<1>3. at[c + 1] <= at[Len(at)] /\ pay[c + 1] <= pay[Len(at)]
  BY <1>1 DEF Layout
<1>4. Chunked(wire, at, pay, c)
  BY DEF Layout
<1>5. Numbers(wire, at, pay, c, at[c], at[c + 1], pay[c], pay[c + 1], Len(wire), at[Len(at)], pay[Len(at)])
  BY ONLY <1>0, <1>2, <1>3, <1>4 DEF Chunked, Numbers
<1> QED BY <1>5

(* A chunk that is written to its end is not touched by what comes after. *)
LEMMA CarriesKept ==
    ASSUME NEW wire, NEW at, NEW pay, NEW w2, NEW at2, NEW pay2, NEW c \in 1..(Len(at) - 1),
           Layout(wire, at, pay), Payload(wire, at, pay), fed' = fed,
           at[Len(at)] <= Len(wire), \A i \in 1..Len(wire) : w2[i] = wire[i],
           at2[c] = at[c], pay2[c] = pay[c], pay2[c + 1] = pay[c + 1]
    PROVE  Carries(w2, at2, pay2, c)'
<1>0. PrefixLen \in Nat
  BY MultipartAssumption
<1>1. Carries(wire, at, pay, c)
  BY DEF Payload
<1>2. PICK a, a1, y, y1, w, an, yn : Numbers(wire, at, pay, c, a, a1, y, y1, w, an, yn)
  BY ChunkNumbers
<1>3. /\ a = at[c] /\ a1 = at[c + 1] /\ y = pay[c] /\ y1 = pay[c + 1] /\ w = Len(wire)
      /\ an = at[Len(at)] /\ yn = pay[Len(at)] /\ a1 <= an /\ y1 <= yn
      /\ a1 = a + PrefixLen + (y1 - y) /\ y1 - y \in 1..(PrefixMax - 1) /\ a + PrefixLen <= w
      /\ a \in Nat /\ a1 \in Nat /\ y \in Nat /\ y1 \in Nat /\ w \in Nat /\ an \in Nat /\ yn \in Nat
  BY <1>2 DEF Numbers
<1>4. an <= w
  BY <1>3
<1>5. ASSUME NEW q \in 1..(y1 - y)
      PROVE  w2[a + PrefixLen + q] = fed[y + q]
  <2>0. q \in Int /\ q >= 1 /\ q <= y1 - y
    OBVIOUS
  <2>1. a + PrefixLen + q \in 1..w /\ a + PrefixLen + q <= w
    <3>1. /\ a1 <= an /\ a1 = a + PrefixLen + (y1 - y)
          /\ a \in Nat /\ a1 \in Nat /\ y \in Nat /\ y1 \in Nat /\ w \in Nat /\ an \in Nat
      BY ONLY <1>3
    <3> QED BY ONLY <1>0, <1>4, <2>0, <3>1
  <2>2. wire[a + PrefixLen + q] = fed[y + q]
    BY <1>1, <1>3, <2>1 DEF Carries
  <2> QED BY <1>3, <2>1, <2>2
<1> QED BY <1>3, <1>5 DEF Carries

(* What the encoder holds is the next part of the chunk it is in. *)
LEMMA PayloadGrows ==
    ASSUME NEW wire, NEW at, NEW pay, NEW w2, MpTypes,
           Layout(wire, at, pay), Payload(wire, at, pay), Sent(wire, at, pay), enc.res # "eof",
           EncState, w2 = wire \o enc.held, fed' = fed
    PROVE  Payload(w2, at, pay)'
<1>0. PrefixLen \in Nat /\ wire \in Seq(Nat) /\ at \in Seq(Nat) /\ pay \in Seq(Nat) /\ Len(at) = Len(pay)
  BY MultipartAssumption DEF Layout
<1>1. PICK n : n = Len(at)
  OBVIOUS
<1>2. PICK h : h = enc.held
  OBVIOUS
<1>3. PICK o : o = Owed
  OBVIOUS
<1>4. h \in Seq(Nat) /\ o \in Nat
  BY <1>2, <1>3 DEF MpTypes, Encs, Owed, EncState
<1>5. /\ w2 \in Seq(Nat) /\ Len(w2) = Len(wire) + Len(h)
      /\ \A i \in 1 .. Len(wire) + Len(h) : w2[i] = IF i <= Len(wire) THEN wire[i] ELSE h[i - Len(wire)]
  <2>1. w2 = wire \o h
    BY <1>2
  <2> QED BY ONLY <1>0, <1>4, <2>1, Concat
<1>6. PICK s : s = Len(fed) - Len(src)
  OBVIOUS
<1>7. /\ s \in Int /\ Len(wire) + Len(h) + o = at[n] /\ s + o = pay[n]
      /\ \A j \in 1..Len(h) : h[j] = fed[s - Len(h) + j]
  <2>1. s \in Int
    BY <1>6 DEF MpTypes
  <2>2. Len(wire) + Len(h) + o = at[n] + 0
    BY <1>1, <1>2, <1>3 DEF Sent, SentBy
  <2>3. at[n] \in Nat
    BY <1>0, <1>1 DEF Layout
  <2>4. s + o = pay[n] /\ \A j \in 1..Len(h) : h[j] = fed[s - Len(h) + j]
    BY <1>1, <1>2, <1>3, <1>6 DEF Sent, SentBy
  <2> QED BY ONLY <2>1, <2>2, <2>3, <2>4
<1>8. ASSUME NEW c \in 1..(n - 1), NEW q \in 1..(pay[c + 1] - pay[c]),
             at[c] + PrefixLen + q <= Len(w2)
      PROVE  w2[at[c] + PrefixLen + q] = fed[pay[c] + q]
  <2>1. Carries(wire, at, pay, c) /\ c \in 1..(Len(at) - 1)
    BY <1>1, <1>8 DEF Payload
  <2>2. PICK a, a1, y, y1, w, an, yn : Numbers(wire, at, pay, c, a, a1, y, y1, w, an, yn)
    BY <2>1, ChunkNumbers
  <2>3. /\ a = at[c] /\ a1 = at[c + 1] /\ y = pay[c] /\ y1 = pay[c + 1] /\ w = Len(wire)
        /\ an = at[Len(at)] /\ yn = pay[Len(at)] /\ a1 <= an /\ y1 <= yn
        /\ a1 = a + PrefixLen + (y1 - y) /\ y1 - y \in 1..(PrefixMax - 1) /\ a + PrefixLen <= w
        /\ a \in Nat /\ a1 \in Nat /\ y \in Nat /\ y1 \in Nat /\ w \in Nat /\ an \in Nat /\ yn \in Nat
    BY <2>2 DEF Numbers
  <2>4. /\ q \in Int /\ q >= 1 /\ q <= y1 - y /\ a1 = a + PrefixLen + (y1 - y) /\ a + PrefixLen <= w
        /\ a \in Nat /\ a1 \in Nat /\ y \in Nat /\ y1 \in Nat /\ w \in Nat /\ PrefixLen \in Nat
    BY <1>0, <2>3
  <2>5. PICK p : p = a + PrefixLen + q
    OBVIOUS
  <2>6. PICK l \in Nat : l = Len(h)
    BY <1>4
  <2>7. p <= w + l
    BY <1>5, <1>8, <2>3, <2>5, <2>6
  <2>8. p \in Nat /\ p >= 1 /\ p \in 1 .. w + l
    BY ONLY <2>4, <2>5, <2>6, <2>7, l \in Nat
  <2>9. \A i \in 1 .. w + l : w2[i] = IF i <= w THEN wire[i] ELSE h[i - w]
    BY ONLY <1>5, <2>3, <2>6
  <2>10. CASE p <= w
    <3>1. w2[p] = wire[p]
      BY ONLY <2>8, <2>10, <2>9
    <3>2. wire[p] = fed[y + q]
      BY <2>1, <2>3, <2>5, <2>10 DEF Carries
    <3> QED BY ONLY <2>3, <2>5, <3>1, <3>2
  <2>11. CASE ~(p <= w)
    <3>1. c + 1 = n
      <4> SUFFICES ASSUME c + 1 # n PROVE FALSE
        OBVIOUS
      <4>1. c + 1 \in 1..(Len(at) - 1)
        BY <1>0, <1>1
      <4>2. at[c + 1] + PrefixLen <= Len(wire)
        BY <4>1 DEF Layout, Chunked
      <4>3. a1 + PrefixLen <= w
        BY ONLY <2>3, <4>2
      <4> QED BY ONLY <2>4, <2>5, <2>11, <4>3
    <3>2. PICK j : j = p - w
      OBVIOUS
    <3>3. w + l + o = a1 /\ s + o = y1
      BY ONLY <1>7, <2>3, <2>6, <3>1
    <3>4. j \in 1..l /\ y + q = s - l + j
      BY ONLY <1>4, <1>7, <2>4, <2>5, <2>8, <2>11, <3>2, <3>3, l \in Nat
    <3>5. w2[p] = h[j]
      BY ONLY <2>8, <2>11, <2>9, <3>2
    <3>6. h[j] = fed[s - l + j]
      BY ONLY <1>7, <2>6, <3>4
    <3>7. w2[p] = fed[y + q]
      BY ONLY <3>4, <3>5, <3>6
    <3> QED BY ONLY <2>3, <2>5, <3>7
  <2> QED BY <2>10, <2>11
<1> QED BY <1>1, <1>8 DEF Payload, Carries

(* One byte more is fed. *)
LEMMA PayloadFed ==
    ASSUME NEW wire, NEW at, NEW pay, fed \in Seq(Nat), fed' \in Seq(Nat),
           Layout(wire, at, pay), Payload(wire, at, pay), pay[Len(at)] <= Len(fed),
           \A i \in 1..Len(fed) : fed'[i] = fed[i]
    PROVE  Payload(wire, at, pay)'
<1>0. wire \in Seq(Nat) /\ at \in Seq(Nat) /\ pay \in Seq(Nat) /\ Len(at) = Len(pay)
  BY DEF Layout
<1>1. ASSUME NEW c \in 1..(Len(at) - 1), NEW q \in 1..(pay[c + 1] - pay[c]),
             at[c] + PrefixLen + q <= Len(wire)
      PROVE  wire[at[c] + PrefixLen + q] = fed'[pay[c] + q]
  <2>1. Carries(wire, at, pay, c)
    BY DEF Payload
  <2>2. c + 1 \in 1..Len(at) /\ pay[c] \in Nat /\ pay[c + 1] \in Nat /\ pay[Len(at)] \in Nat /\ Len(fed) \in Nat
    BY <1>0, SMTT(40)
  <2>3. pay[c + 1] <= pay[Len(at)]
    BY <2>2 DEF Layout
  <2>4. q \in Int /\ q >= 1 /\ q <= pay[c + 1] - pay[c]
    BY <2>2
  <2>5. pay[c] + q \in 1..Len(fed)
    BY ONLY <2>2, <2>3, <2>4, pay[Len(at)] <= Len(fed)
  <2>6. wire[at[c] + PrefixLen + q] = fed[pay[c] + q]
    BY <1>1, <2>1 DEF Carries
  <2> QED BY <2>5, <2>6
<1> QED BY <1>1 DEF Payload, Carries

(* A write leaves the decoder where it is. *)
LEMMA ReceivedGrows ==
    ASSUME NEW wire, NEW at, NEW pay, NEW w2, NEW at2, NEW pay2,
           MpTypes, Layout(wire, at, pay), Received(wire, at, pay), ~dec.eof,
           Len(w2) - Len(tgt') = Len(wire) - Len(tgt), dec' = dec, got' = got,
           Len(at2) \in Nat, Len(at2) >= Len(at), \A c \in 1..Len(at) : at2[c] = at[c] /\ pay2[c] = pay[c]
    PROVE  Received(w2, at2, pay2)'
<1>1. PICK d \in 1..Len(at) : Between(wire, at, pay, d)
  BY DEF Received
<1>2. Len(at) \in Nat
  BY DEF Layout
<1>3. d \in 1..Len(at2)
  BY <1>2
<1>4. at2[d] = at[d] /\ pay2[d] = pay[d] /\ (d > 1 => pay2[d - 1] = pay[d - 1])
  BY <1>2
<1>5. Between(w2, at2, pay2, d)'
  BY <1>1, <1>4 DEF Between
<1> QED BY <1>3, <1>5 DEF Received

-----------------------------------------------------------------------------
(* The owners of the buffers, and the steps of the encoder.                *)

(* What the encoder's state matters for: what it holds, what it owes, and
   whether it has ended the stream. *)
LEMMA Quiet ==
    ASSUME MpGood, feed' = feed, fed' = fed, src' = src, tgt' = tgt, dec' = dec, got' = got,
           enc' \in Encs, enc'.held = enc.held, Owed' = Owed, enc'.res = "eof" <=> enc.res = "eof",
           EncState', DecState'
    PROVE  MpGood'
<1>1. PICK wire, at, pay : Flow(wire, at, pay)
  BY DEF MpGood
<1>2. MpTypes'
  BY DEF MpGood, MpTypes
<1>3. Source' /\ Taken'
  BY DEF MpGood, Source, Taken
<1>4. Layout(wire, at, pay)' /\ Payload(wire, at, pay)'
  BY <1>1 DEF Flow, Payload, Carries
<1>5. Sent(wire, at, pay)'
  <2>1. CASE enc'.res = enc.res
    BY <1>1, <2>1 DEF Flow, Sent
  <2>2. CASE enc'.res # "eof" /\ enc.res # "eof"
    <3>1. PICK r : r = enc.res
      OBVIOUS
    <3>2. PICK r2 : r2 = enc'.res
      OBVIOUS
    <3>3. PICK h : h = enc.held
      OBVIOUS
    <3>4. PICK o : o = Owed
      OBVIOUS
    <3>5. PICK k : k = Len(src)
      OBVIOUS
    <3>6. SentBy(wire, at, pay, h, o, r, fed, k)
      BY <1>1, <3>1, <3>3, <3>4, <3>5 DEF Flow, Sent
    <3>7. SentBy(wire, at, pay, h, o, r2, fed, k)
      BY <2>2, <3>1, <3>2, <3>6 DEF SentBy
    <3> QED BY <3>2, <3>3, <3>4, <3>5, <3>7 DEF Sent
  <2> QED BY <2>1, <2>2
<1>6. Holds(wire)'
  BY <1>1 DEF Flow, Holds
<1>7. Received(wire, at, pay)'
  BY <1>1 DEF Flow, Received, Between
<1>8. Flow(wire, at, pay)'
  BY <1>4, <1>5, <1>6, <1>7 DEF Flow
<1> QED BY <1>2, <1>3, <1>8 DEF MpGood

(* Closing either buffer and cancelling the encoder move nothing. *)
LEMMA OwnersKeep ==
    ASSUME MpGood, CloseSource \/ CloseTarget \/ Cancel
    PROVE  MpGood'
<1>1. /\ feed' = feed /\ fed' = fed /\ src' = src /\ tgt' = tgt /\ dec' = dec /\ got' = got /\ enc' = enc
      /\ (srcClosed => srcClosed') /\ (tgtClosed => tgtClosed') /\ (tgtClosed' => tgtClosed \/ enc.pc = "done")
  BY DEF CloseSource, CloseTarget, Cancel, srcVars, decVars
<1>2. EncState' /\ DecState'
  BY <1>1 DEF MpGood, EncState, DecState
<1>3. Owed' = Owed
  BY <1>1 DEF Owed
<1>4. enc' \in Encs
  BY <1>1 DEF MpGood, MpTypes
<1> QED BY <1>1, <1>2, <1>3, <1>4, Quiet

(* What is fed goes to the end of the source. *)
LEMMA FeedKeeps ==
    ASSUME MpGood, Feed
    PROVE  MpGood'
<1>1. PICK b : b = feed[Len(fed) + 1]
  OBVIOUS
<1>2. PICK f : f = fed
  OBVIOUS
<1>3. PICK s : s = src
  OBVIOUS
<1>4. f \in Seq(Nat) /\ s \in Seq(Nat) /\ feed \in Seq(Nat)
  BY <1>2, <1>3 DEF MpGood, MpTypes
<1>5. b \in Nat
  BY <1>1, <1>2, <1>4 DEF Feed
<1>6. PICK f2 : f2 = fed'
  OBVIOUS
<1>7. PICK s2 : s2 = src'
  OBVIOUS
<1>8. /\ f2 \in Seq(Nat) /\ Len(f2) = Len(f) + 1 /\ f2[Len(f) + 1] = b
      /\ \A i \in 1..Len(f) : f2[i] = f[i]
  <2>1. f2 = Append(f, b)
    BY <1>1, <1>2, <1>6 DEF Feed
  <2> QED BY ONLY <1>4, <1>5, <2>1, OneMore
<1>9. /\ s2 \in Seq(Nat) /\ Len(s2) = Len(s) + 1 /\ s2[Len(s) + 1] = b
      /\ \A i \in 1..Len(s) : s2[i] = s[i]
  <2>1. s2 = Append(s, b)
    BY <1>1, <1>2, <1>3, <1>7 DEF Feed
  <2> QED BY ONLY <1>4, <1>5, <2>1, OneMore
<1>10. PICK m \in Nat : m = Len(f)
  BY <1>4
<1>11. PICK k \in Nat : k = Len(s)
  BY <1>4
<1>12. /\ k <= m /\ \A i \in 1..k : s[i] = f[m - k + i]
  BY <1>2, <1>3, <1>10, <1>11 DEF MpGood, Source
<1>13. /\ feed' = feed /\ tgt' = tgt /\ dec' = dec /\ got' = got /\ enc' = enc
       /\ srcClosed' = srcClosed /\ tgtClosed' = tgtClosed /\ ~srcClosed
  BY DEF Feed, decVars
<1>14. MpTypes'
  BY <1>6, <1>7, <1>8, <1>9, <1>13 DEF MpGood, MpTypes
<1>15. Source'
  <2>1. ASSUME NEW i \in 1..(k + 1) PROVE s2[i] = f2[(m + 1) - (k + 1) + i]
    <3>1. i \in Int /\ i >= 1 /\ i <= k + 1
      OBVIOUS
    <3>2. CASE i <= k
      <4>1. i \in 1..k /\ m - k + i \in 1..m /\ (m + 1) - (k + 1) + i = m - k + i
        BY ONLY <1>12, <3>1, <3>2, m \in Nat, k \in Nat
      <4> QED BY ONLY <1>8, <1>9, <1>10, <1>11, <1>12, <4>1, ZenonT(60)
    <3>3. CASE ~(i <= k)
      <4>1. i = k + 1 /\ (m + 1) - (k + 1) + i = m + 1
        BY ONLY <3>1, <3>3, m \in Nat, k \in Nat
      <4> QED BY ONLY <1>8, <1>9, <1>10, <1>11, <4>1
    <3> QED BY <3>2, <3>3
  <2>2. Len(f2) = m + 1 /\ Len(s2) = k + 1 /\ k + 1 <= m + 1
    BY <1>8, <1>9, <1>10, <1>11, <1>12
  <2> QED BY ONLY <1>6, <1>7, <2>1, <2>2 DEF Source
<1>16. Taken'
  <2>1. PICK g : g = Len(got)
    OBVIOUS
  <2>2. g \in Nat /\ g <= m /\ \A q \in 1..g : got[q] = f[q]
    BY <1>2, <1>10, <2>1 DEF MpGood, MpTypes, Taken
  <2>3. \A q \in 1..g : f2[q] = f[q]
    BY <1>8, <1>10, <2>2
  <2>4. g <= m + 1 /\ \A q \in 1..g : got[q] = f2[q]
    BY <2>2, <2>3
  <2> QED BY <1>6, <1>8, <1>10, <1>13, <2>1, <2>4 DEF Taken
<1>17. EncState' /\ DecState'
  <2>1. k <= Len(s2) /\ Len(s2) \in Nat
    BY <1>9, <1>11
  <2>2. ~(enc.pc = "zero" \/ enc.res = "eof")
    BY <1>13 DEF MpGood, EncState
  <2>3. enc.size <= k => enc.size <= Len(s2)
    BY <2>1 DEF MpGood, MpTypes, Encs
  <2>4. EncState'
    BY <1>3, <1>7, <1>11, <1>13, <2>2, <2>3 DEF MpGood, EncState
  <2> QED BY <1>13, <2>4 DEF MpGood, DecState
<1>18. PICK wire, at, pay : Flow(wire, at, pay)
  BY DEF MpGood
<1>19. Flow(wire, at, pay)'
  <2>1. PICK o : o = Owed
    OBVIOUS
  <2>2. PICK h : h = enc.held
    OBVIOUS
  <2>3. PICK r : r = enc.res
    OBVIOUS
  <2>4. o \in Nat /\ h \in Seq(Nat) /\ Len(h) \in Nat
    BY <2>1, <2>2 DEF MpGood, MpTypes, Encs, EncState, Owed
  <2>5. SentBy(wire, at, pay, h, o, r, f, k)
    BY <1>2, <1>3, <1>11, <1>18, <2>1, <2>2, <2>3 DEF Flow, Sent
  <2>6. /\ o <= k /\ Len(h) <= m - k /\ m - k + o = pay[Len(at)]
        /\ \A j \in 1..Len(h) : h[j] = f[m - k - Len(h) + j]
    BY ONLY <1>10, <2>5 DEF SentBy
  <2>7. Payload(wire, at, pay)'
    <3>1. fed \in Seq(Nat) /\ fed' \in Seq(Nat) /\ \A i \in 1..Len(fed) : fed'[i] = fed[i]
      BY <1>2, <1>4, <1>6, <1>8
    <3>2. pay[Len(at)] <= Len(fed)
      BY <1>2, <1>10, <1>12, <2>4, <2>6
    <3> QED BY <1>18, <3>1, <3>2, PayloadFed DEF Flow
  <2>8. SentBy(wire, at, pay, h, o, r, f2, k + 1)
    <3>1. ASSUME NEW j \in 1..Len(h) PROVE h[j] = f2[m - k - Len(h) + j]
      <4>1. m - k - Len(h) + j \in 1..m
        BY <1>12, <2>4, <2>6
      <4> QED BY <1>8, <1>10, <2>6, <4>1
    <3>2. o <= k + 1 /\ Len(f2) - (k + 1) = m - k
      BY <1>8, <1>10, <2>4, <2>6
    <3> QED BY ONLY <2>5, <2>6, <3>1, <3>2 DEF SentBy
  <2>9. Sent(wire, at, pay)'
    <3>1. Owed' = o /\ enc'.held = h /\ enc'.res = r /\ fed' = f2 /\ Len(src') = k + 1
      BY <1>6, <1>7, <1>9, <1>11, <1>13, <2>1, <2>2, <2>3 DEF Owed
    <3> QED BY ONLY <2>8, <3>1 DEF Sent
  <2>10. Holds(wire)' /\ Received(wire, at, pay)' /\ Layout(wire, at, pay)'
    BY <1>13, <1>18 DEF Flow, Holds, Received, Between
  <2> QED BY <2>7, <2>9, <2>10 DEF Flow
<1> QED BY <1>14, <1>15, <1>16, <1>17, <1>19 DEF MpGood

(* The loop head, the wait for the source, the target's segment and a new start
   at the end of a chunk neither write nor read. *)
LEMMA TopKeeps ==
    ASSUME MpGood, Top
    PROVE  MpGood'
<1>1. /\ feed' = feed /\ fed' = fed /\ src' = src /\ tgt' = tgt /\ dec' = dec /\ got' = got
      /\ srcClosed' = srcClosed /\ tgtClosed' = tgtClosed /\ enc.pc = "top"
  BY DEF Top, EncRest, srcVars, decVars
<1>2. /\ enc \in Encs /\ enc.cc = enc.size /\ enc.held = << >> /\ enc.res = "running" /\ ~tgtClosed
      /\ src \in Seq(Nat)
  BY <1>1 DEF MpGood, MpTypes, EncState
<1>3. enc.size - enc.cc = 0 /\ Owed = 0
  BY <1>1, <1>2 DEF Encs, Owed
<1>4. CASE cancelled
  <2>1. enc' = [enc EXCEPT !.pc = "done", !.res = "left", !.held = << >>]
    BY <1>4 DEF Top, Ends
  <2>2. /\ enc' \in Encs /\ enc'.held = << >> /\ enc'.pc = "done" /\ enc'.res = "left"
        /\ enc'.size = enc.size /\ enc'.cc = enc.cc
    BY <1>2, <2>1 DEF Encs
  <2>3. Owed' = Owed
    BY <1>3, <2>2 DEF Owed
  <2>4. EncState'
    BY <1>1, <1>2, <2>2 DEF MpGood, EncState
  <2>5. DecState'
    BY <1>1, <2>2 DEF MpGood, DecState
  <2> QED BY <1>1, <1>2, <2>2, <2>3, <2>4, <2>5, Quiet
<1>5. CASE ~cancelled /\ src # << >>
  <2>1. enc' = [enc EXCEPT !.pc = "prefix", !.size = Chunk(Len(src)), !.cc = 0]
    BY <1>5 DEF Top
  <2>2. PICK z : z = Chunk(Len(src))
    OBVIOUS
  <2>3. z \in 1..(PrefixMax - 1) /\ z <= Len(src) /\ z \in Nat
    <3>1. Len(src) \in Nat /\ Len(src) >= 1
      BY <1>2, <1>5
    <3> QED BY <2>2, <3>1, PrefixRoundTrip DEF Chunk, Min2
  <2>4. /\ enc' \in Encs /\ enc'.held = << >> /\ enc'.pc = "prefix" /\ enc'.res = "running"
        /\ enc'.size = z /\ enc'.cc = 0
    BY <1>2, <2>1, <2>2, <2>3 DEF Encs
  <2>5. Owed' = Owed
    BY <1>3, <2>4 DEF Owed
  <2>6. EncState'
    BY <1>1, <1>2, <2>3, <2>4 DEF MpGood, EncState
  <2>7. DecState'
    BY <1>1, <2>4 DEF MpGood, DecState
  <2> QED BY <1>1, <1>2, <2>4, <2>5, <2>6, <2>7, Quiet
<1>6. CASE ~cancelled /\ src = << >>
  <2>1. PICK p : p = IF srcClosed THEN "zero" ELSE "wait"
    OBVIOUS
  <2>2. enc' = [enc EXCEPT !.pc = p]
    BY <1>6, <2>1 DEF Top
  <2>3. p \in {"zero", "wait"} /\ (p = "zero" => srcClosed)
    BY <2>1
  <2>4. /\ enc' \in Encs /\ enc'.held = << >> /\ enc'.pc = p /\ enc'.res = "running"
        /\ enc'.size = enc.size /\ enc'.cc = enc.cc
    BY <1>2, <2>2, <2>3 DEF Encs
  <2>5. Owed' = Owed
    BY <1>3, <2>3, <2>4 DEF Owed
  <2>6. EncState'
    BY <1>1, <1>2, <1>6, <2>3, <2>4 DEF MpGood, EncState
  <2>7. DecState'
    BY <1>1, <2>4 DEF MpGood, DecState
  <2> QED BY <1>1, <1>2, <2>4, <2>5, <2>6, <2>7, Quiet
<1> QED BY <1>4, <1>5, <1>6

(* The read that only waits. *)
LEMMA WaitedKeeps ==
    ASSUME MpGood, Waited
    PROVE  MpGood'
<1>1. /\ feed' = feed /\ fed' = fed /\ src' = src /\ tgt' = tgt /\ dec' = dec /\ got' = got
      /\ srcClosed' = srcClosed /\ tgtClosed' = tgtClosed /\ enc.pc = "wait"
  BY DEF Waited, EncRest, srcVars, decVars
<1>2. /\ enc \in Encs /\ enc.cc = enc.size /\ enc.held = << >> /\ enc.res = "running" /\ ~tgtClosed
  BY <1>1 DEF MpGood, MpTypes, EncState
<1>3. PICK p : p = IF src # << >> THEN "top" ELSE "zero"
  OBVIOUS
<1>4. p \in {"top", "zero"} /\ (p = "zero" => srcClosed /\ src = << >>)
  BY <1>3 DEF Waited
<1>5. enc' = [enc EXCEPT !.pc = p]
  BY <1>3 DEF Waited
<1>6. /\ enc' \in Encs /\ enc'.held = << >> /\ enc'.pc = p /\ enc'.res = "running"
      /\ enc'.size = enc.size /\ enc'.cc = enc.cc
  BY <1>2, <1>4, <1>5 DEF Encs
<1>7. Owed' = Owed
  BY <1>1, <1>4, <1>6 DEF Owed
<1>8. EncState'
  BY <1>1, <1>2, <1>4, <1>6 DEF MpGood, EncState
<1>9. DecState'
  BY <1>1, <1>6 DEF MpGood, DecState
<1> QED BY <1>1, <1>2, <1>6, <1>7, <1>8, <1>9, Quiet

(* A segment of the target. *)
LEMMA TakeTargetKeeps ==
    ASSUME MpGood, TakeTarget
    PROVE  MpGood'
<1>1. /\ feed' = feed /\ fed' = fed /\ src' = src /\ tgt' = tgt /\ dec' = dec /\ got' = got
      /\ srcClosed' = srcClosed /\ tgtClosed' = tgtClosed /\ enc.pc = "target"
  BY DEF TakeTarget, EncRest, srcVars, decVars
<1>2. /\ enc \in Encs /\ enc.held = << >> /\ enc.res = "running" /\ ~tgtClosed
  BY <1>1 DEF MpGood, MpTypes, EncState
<1>3. PICK r : r = Room
  OBVIOUS
<1>4. r \in Nat
  BY <1>3, MultipartAssumption DEF TakeTarget, Room, MpGood, MpTypes
<1>5. enc' = [enc EXCEPT !.pc = "fill", !.room = r]
  BY <1>3 DEF TakeTarget
<1>6. /\ enc' \in Encs /\ enc'.held = << >> /\ enc'.pc = "fill" /\ enc'.res = "running"
      /\ enc'.size = enc.size /\ enc'.cc = enc.cc
  BY <1>2, <1>4, <1>5 DEF Encs
<1>7. Owed' = Owed
  BY <1>1, <1>6 DEF Owed
<1>8. EncState'
  BY <1>1, <1>2, <1>6 DEF MpGood, EncState
<1>9. DecState'
  BY <1>1, <1>6 DEF MpGood, DecState
<1> QED BY <1>1, <1>2, <1>6, <1>7, <1>8, <1>9, Quiet

(* start_async after a whole chunk. *)
LEMMA RestartKeeps ==
    ASSUME MpGood, Restart, ~MidChunk
    PROVE  MpGood'
<1>1. /\ feed' = feed /\ fed' = fed /\ src' = src /\ tgt' = tgt /\ dec' = dec /\ got' = got
      /\ srcClosed' = srcClosed /\ tgtClosed' = tgtClosed /\ enc.pc = "done" /\ ~tgtClosed /\ enc.res # "eof"
  BY DEF Restart, srcVars, decVars
<1>2. enc \in Encs /\ enc.held = << >> /\ enc.cc <= enc.size /\ ~(enc.cc < enc.size)
  BY <1>1 DEF MpGood, MpTypes, EncState, MidChunk
<1>3. Owed = 0
  BY <1>1, <1>2 DEF Encs, Owed
<1>4. enc' = [enc EXCEPT !.pc = "top", !.size = 0, !.cc = 0, !.res = "running"]
  BY DEF Restart
<1>5. /\ enc' \in Encs /\ enc'.held = << >> /\ enc'.pc = "top" /\ enc'.res = "running"
      /\ enc'.size = 0 /\ enc'.cc = 0
  BY <1>2, <1>4 DEF Encs
<1>6. Owed' = Owed
  BY <1>3, <1>5 DEF Owed
<1>7. EncState'
  BY <1>1, <1>5 DEF EncState
<1>8. DecState'
  BY <1>1, <1>5 DEF MpGood, DecState
<1> QED BY <1>1, <1>2, <1>5, <1>6, <1>7, <1>8, Quiet

(* A sequence is cut in two. *)
LEMMA Halves ==
    ASSUME NEW s \in Seq(Nat), NEW n \in Nat, n <= Len(s)
    PROVE  /\ SubSeq(s, 1, n) \in Seq(Nat) /\ Len(SubSeq(s, 1, n)) = n
           /\ \A i \in 1..n : SubSeq(s, 1, n)[i] = s[i]
           /\ Drop(s, n) \in Seq(Nat) /\ Len(Drop(s, n)) = Len(s) - n
           /\ \A i \in 1..(Len(s) - n) : Drop(s, n)[i] = s[n + i]
<1>1. SubSeq(s, 1, n) \in Seq(Nat) /\ Len(SubSeq(s, 1, n)) = n /\ \A i \in 1..n : SubSeq(s, 1, n)[i] = s[i]
  OBVIOUS
<1>2. Drop(s, n) \in Seq(Nat) /\ Len(Drop(s, n)) = Len(s) - n
  BY DEF Drop
<1>3. \A i \in 1..(Len(s) - n) : Drop(s, n)[i] = s[n + i]
  BY DEF Drop
<1> QED BY <1>1, <1>2, <1>3

(* The inner loop moves bytes from the source to what the encoder holds. *)
LEMMA FillKeeps ==
    ASSUME NEW n \in 1..TgtCap, MpGood, Fill(n)
    PROVE  MpGood'
<1>1. /\ feed' = feed /\ fed' = fed /\ tgt' = tgt /\ dec' = dec /\ got' = got
      /\ srcClosed' = srcClosed /\ tgtClosed' = tgtClosed /\ enc.pc = "fill"
  BY DEF Fill, EncRest, srcVars, decVars
<1>2. enc \in Encs /\ enc.res = "running" /\ ~tgtClosed /\ enc.cc <= enc.size
  BY <1>1 DEF MpGood, MpTypes, EncState
<1>3. PICK f : f = fed
  OBVIOUS
<1>4. PICK s : s = src
  OBVIOUS
<1>5. PICK h : h = enc.held
  OBVIOUS
<1>6. PICK o : o = enc.size - enc.cc
  OBVIOUS
<1>7. f \in Seq(Nat) /\ s \in Seq(Nat) /\ h \in Seq(Nat) /\ o \in Nat /\ Owed = o
  BY <1>1, <1>2, <1>3, <1>4, <1>5, <1>6 DEF MpGood, MpTypes, Encs, Owed
<1>8. PICK wire, at, pay : Flow(wire, at, pay)
  BY DEF MpGood
<1>9. PICK k \in Nat : k = Len(s)
  BY <1>7
<1>10. PICK m \in Nat : m = Len(f)
  BY <1>7
<1>11. PICK l \in Nat : l = Len(h)
  BY <1>7
<1>12. SentBy(wire, at, pay, h, o, "running", f, k)
  BY <1>2, <1>3, <1>4, <1>5, <1>7, <1>8, <1>9 DEF Flow, Sent
<1>13. n \in Nat /\ n >= 1 /\ n <= o /\ n <= enc.room
  <2>1. enc.room \in Nat /\ n \in 1..Min2(enc.room, enc.size - enc.cc) /\ enc.size - enc.cc = o
    BY <1>2, <1>6 DEF Encs, Fill
  <2> QED BY <1>7, <2>1 DEF Min2
<1>14. /\ m - k + o = pay[Len(at)] /\ o <= k /\ l <= m - k
       /\ \A j \in 1..l : h[j] = f[m - k - l + j]
       /\ Len(wire) + l + o = at[Len(at)] + 0
  BY ONLY <1>10, <1>11, <1>12 DEF SentBy
<1>15. PICK s2 : s2 = Drop(s, n)
  OBVIOUS
<1>16. PICK e : e = SubSeq(s, 1, n)
  OBVIOUS
<1>17. n <= k
  BY ONLY <1>7, <1>13, <1>14, k \in Nat
<1>18. /\ e \in Seq(Nat) /\ Len(e) = n /\ \A i \in 1..n : e[i] = s[i]
       /\ s2 \in Seq(Nat) /\ Len(s2) = k - n /\ \A i \in 1..(k - n) : s2[i] = s[n + i]
  BY ONLY <1>7, <1>9, <1>13, <1>15, <1>16, <1>17, Halves
<1>19. PICK h2 : h2 = h \o e
  OBVIOUS
<1>20. /\ h2 \in Seq(Nat) /\ Len(h2) = l + n
       /\ \A i \in 1 .. l + n : h2[i] = IF i <= l THEN h[i] ELSE e[i - l]
  <2>1. e \in Seq(Nat) /\ Len(e) = n
    BY <1>18
  <2>2. /\ h2 \in Seq(Nat) /\ Len(h2) = Len(h) + Len(e)
        /\ \A i \in 1 .. Len(h) + Len(e) : h2[i] = IF i <= Len(h) THEN h[i] ELSE e[i - Len(h)]
    BY ONLY <1>7, <1>19, <2>1, Concat
  <2> QED BY ONLY <1>11, <2>1, <2>2
<1>21. k <= m /\ \A i \in 1..k : s[i] = f[m - k + i]
  BY <1>3, <1>4, <1>9, <1>10 DEF MpGood, Source
<1>22. src' = s2
  BY <1>4, <1>15 DEF Fill
<1>23. PICK r : r = enc.room - n
  OBVIOUS
<1>24. PICK c : c = enc.cc + n
  OBVIOUS
<1>25. r \in Nat /\ c \in Nat /\ c <= enc.size /\ enc.size - c = o - n
  BY <1>2, <1>6, <1>13, <1>23, <1>24 DEF Encs
<1>26. enc' = [enc EXCEPT !.held = h2, !.room = r, !.cc = c]
  <2>1. h2 = enc.held \o SubSeq(src, 1, n)
    BY <1>4, <1>5, <1>16, <1>19
  <2> QED BY <1>23, <1>24, <2>1 DEF Fill
<1>27. /\ enc' \in Encs /\ enc'.held = h2 /\ enc'.pc = "fill" /\ enc'.res = "running"
       /\ enc'.size = enc.size /\ enc'.cc = c
  BY <1>1, <1>2, <1>20, <1>25, <1>26 DEF Encs
<1>28. Owed' = o - n
  BY <1>25, <1>27 DEF Owed
<1>29. MpTypes'
  BY <1>1, <1>18, <1>22, <1>27 DEF MpGood, MpTypes
<1>30. EncState' /\ DecState'
  BY <1>1, <1>2, <1>25, <1>27 DEF MpGood, EncState, DecState
<1>31. Source'
  <2>1. ASSUME NEW i \in 1..(k - n) PROVE s2[i] = f[m - (k - n) + i]
    <3>1. i \in Int /\ n + i \in 1..k /\ m - k + (n + i) = m - (k - n) + i
      BY ONLY <1>13, <1>17, i \in 1..(k - n), m \in Nat, k \in Nat
    <3> QED BY <1>18, <1>21, <3>1
  <2>2. Len(s2) = k - n /\ k - n <= m
    BY <1>13, <1>17, <1>18, <1>21
  <2> QED BY ONLY <1>1, <1>3, <1>10, <1>22, <2>1, <2>2 DEF Source
<1>32. Taken'
  BY <1>1 DEF MpGood, Taken
<1>33. SentBy(wire, at, pay, h2, o - n, "running", f, k - n)
  <2>1. Len(wire) \in Nat
    BY <1>8 DEF Flow, Layout
  <2>2. Len(wire) + (l + n) + (o - n) = at[Len(at)] + 0
    BY ONLY <1>7, <1>13, <1>14, <2>1, l \in Nat
  <2>3. m - (k - n) + (o - n) = pay[Len(at)] /\ o - n <= k - n /\ l + n <= m - (k - n)
    BY ONLY <1>7, <1>13, <1>14, <1>17, l \in Nat, k \in Nat, m \in Nat
  <2>4. ASSUME NEW j \in 1..(l + n) PROVE h2[j] = f[m - (k - n) - (l + n) + j]
    <3>0. j \in Int /\ j >= 1 /\ j <= l + n /\ m - (k - n) - (l + n) + j = m - k - l + j
      BY <1>13
    <3>1. CASE j <= l
      <4>1. j \in 1..l
        BY <3>0, <3>1
      <4> QED BY ONLY <1>14, <1>20, <2>4, <3>0, <3>1, <4>1, j \in 1..(l + n)
    <3>2. CASE ~(j <= l)
      <4>1. PICK i : i = j - l
        OBVIOUS
      <4>2. i \in 1..n /\ i \in 1..k /\ m - k - l + j = m - k + i
        BY ONLY <1>13, <1>17, <3>0, <3>2, <4>1, l \in Nat, k \in Nat, m \in Nat
      <4>3. h2[j] = e[i]
        BY ONLY <1>20, <3>2, <4>1, j \in 1..(l + n)
      <4>4. e[i] = f[m - k + i]
        BY ONLY <1>18, <1>21, <4>2
      <4> QED BY ONLY <3>0, <4>2, <4>3, <4>4
    <3> QED BY <3>1, <3>2
  <2> QED BY ONLY <1>10, <1>20, <2>2, <2>3, <2>4 DEF SentBy
<1>34. Sent(wire, at, pay)'
  <2>1. fed' = f /\ Len(src') = k - n /\ enc'.held = h2 /\ enc'.res = "running" /\ Owed' = o - n
    BY <1>1, <1>3, <1>18, <1>22, <1>27, <1>28
  <2> QED BY ONLY <1>33, <2>1 DEF Sent
<1>35. Layout(wire, at, pay)' /\ Payload(wire, at, pay)' /\ Holds(wire)'
  BY <1>1, <1>8 DEF Flow, Payload, Carries, Holds
<1>36. Received(wire, at, pay)'
  BY <1>1, <1>2, <1>8 DEF Flow, Received, Between
<1>37. Flow(wire, at, pay)'
  BY <1>34, <1>35, <1>36 DEF Flow
<1> QED BY <1>29, <1>30, <1>31, <1>32, <1>37 DEF MpGood

(* What the encoder holds goes to the target. *)
LEMMA HeldGoesOut ==
    ASSUME MpGood, feed' = feed, fed' = fed, src' = src, dec' = dec, got' = got, tgtClosed' = tgtClosed,
           tgt' = tgt \o enc.held, enc.pc # "done", enc' \in Encs, enc'.held = << >>, Owed' = Owed,
           enc'.res # "eof", EncState'
    PROVE  MpGood'
<1>1. PICK wire, at, pay : Flow(wire, at, pay)
  BY DEF MpGood
<1>2. PICK h : h = enc.held
  OBVIOUS
<1>3. PICK w2 : w2 = wire \o h
  OBVIOUS
<1>4. h \in Seq(Nat) /\ enc.res = "running" /\ tgt \in Seq(Nat) /\ wire \in Seq(Nat) /\ fed \in Seq(Nat) /\ src \in Seq(Nat)
  BY <1>1, <1>2 DEF MpGood, MpTypes, Encs, EncState, Flow, Layout
<1>5. ~dec.eof
  BY <1>1, <1>4 DEF Flow, Received
<1>6. Layout(w2, at, pay)
  BY <1>1, <1>3, <1>4, LayoutGrows DEF Flow
<1>7. Payload(w2, at, pay)'
  <2>1. w2 = wire \o enc.held /\ enc.res # "eof"
    BY <1>2, <1>3, <1>4
  <2> QED BY <1>1, <2>1, PayloadGrows DEF MpGood, Flow
<1>8. /\ Holds(w2)' /\ tgt' \in Seq(Nat) /\ Len(w2) = Len(wire) + Len(h) /\ Len(tgt') = Len(tgt) + Len(h)
  <2>1. tgt' = tgt \o h
    BY <1>2
  <2> QED BY <1>1, <1>3, <1>4, <2>1, HoldsGrows, ZenonT(60) DEF Flow
<1>9. Len(wire) \in Nat /\ Len(h) \in Nat /\ Len(tgt) \in Nat
  BY <1>4
<1>10. Received(w2, at, pay)'
  <2>1. Len(w2) - Len(tgt') = Len(wire) - Len(tgt)
    BY <1>8, <1>9
  <2>2. Len(at) \in Nat /\ Len(at) >= Len(at) /\ \A c \in 1..Len(at) : at[c] = at[c] /\ pay[c] = pay[c]
    BY <1>1 DEF Flow, Layout
  <2>3. MpTypes /\ Layout(wire, at, pay) /\ Received(wire, at, pay)
    BY <1>1 DEF MpGood, Flow
  <2> QED BY <1>5, <2>1, <2>2, <2>3, ReceivedGrows
<1>11. Sent(w2, at, pay)'
  <2>1. PICK o : o = Owed
    OBVIOUS
  <2>2. PICK k : k = Len(src)
    OBVIOUS
  <2>3. PICK f : f = fed
    OBVIOUS
  <2>4. PICK r2 : r2 = enc'.res
    OBVIOUS
  <2>5. o \in Nat /\ k \in Nat /\ f \in Seq(Nat) /\ Len(f) \in Nat
    BY <1>4, <2>1, <2>2, <2>3, SMTT(40) DEF MpGood, MpTypes, Encs, EncState, Owed
  <2>6. SentBy(wire, at, pay, h, o, "running", f, k)
    BY <1>1, <1>2, <1>4, <2>1, <2>2, <2>3 DEF Flow, Sent
  <2>7. /\ Len(wire) + Len(h) + o = at[Len(at)] + 0 /\ Len(f) - k + o = pay[Len(at)] /\ o <= k
        /\ Len(h) <= Len(f) - k
    BY ONLY <2>6 DEF SentBy
  <2>8. SentBy(w2, at, pay, << >>, o, r2, f, k)
    <3>1. Len(w2) + 0 + o = at[Len(at)] + 0
      BY ONLY <1>8, <1>9, <2>5, <2>7
    <3>2. Len(<< >>) = 0 /\ 0 <= Len(f) - k /\ r2 # "eof"
      BY <1>9, <2>4, <2>5, <2>7
    <3>3. \A j \in 1..0 : FALSE
      OBVIOUS
    <3> QED BY ONLY <2>7, <3>1, <3>2, <3>3 DEF SentBy
  <2>9. Owed' = o /\ enc'.held = << >> /\ enc'.res = r2 /\ fed' = f /\ Len(src') = k
    BY <2>1, <2>2, <2>3, <2>4
  <2> QED BY ONLY <2>8, <2>9 DEF Sent
<1>12. Flow(w2, at, pay)'
  BY <1>6, <1>7, <1>8, <1>10, <1>11 DEF Flow
<1>13. MpTypes'
  BY <1>8 DEF MpGood, MpTypes
<1>14. Source' /\ Taken'
  BY DEF MpGood, Source, Taken
<1>15. DecState'
  <2>1. dec.lent \in Nat
    BY DEF MpGood, MpTypes, Decs
  <2>2. dec.lent <= Len(tgt) => dec.lent <= Len(tgt')
    BY <1>8, <1>9, <2>1
  <2> QED BY <2>2 DEF MpGood, DecState
<1> QED BY <1>12, <1>13, <1>14, <1>15 DEF MpGood

(* The drop of the target's segment. *)
LEMMA DropTargetKeeps ==
    ASSUME MpGood, DropTarget
    PROVE  MpGood'
<1>1. /\ feed' = feed /\ fed' = fed /\ src' = src /\ dec' = dec /\ got' = got
      /\ srcClosed' = srcClosed /\ tgtClosed' = tgtClosed /\ enc.pc = "fill" /\ tgt' = tgt \o enc.held
  BY DEF DropTarget, EncRest, srcVars, decVars
<1>2. enc \in Encs /\ enc.res = "running" /\ ~tgtClosed /\ enc.cc <= enc.size
  BY <1>1 DEF MpGood, MpTypes, EncState
<1>3. PICK p : p = IF enc.cc < enc.size THEN "target" ELSE "top"
  OBVIOUS
<1>4. p \in {"target", "top"} /\ (p = "top" => enc.cc = enc.size)
  BY <1>2, <1>3 DEF Encs
<1>5. enc' = [enc EXCEPT !.held = << >>, !.pc = p]
  BY <1>3 DEF DropTarget
<1>6. /\ enc' \in Encs /\ enc'.held = << >> /\ enc'.pc = p /\ enc'.res = "running"
      /\ enc'.size = enc.size /\ enc'.cc = enc.cc
  <2>1. PICK e : e = << >>
    OBVIOUS
  <2>2. e \in Seq(Nat) /\ enc' = [enc EXCEPT !.held = e, !.pc = p]
    BY <1>5, <2>1
  <2>3. /\ enc' \in Encs /\ enc'.held = e /\ enc'.pc = p /\ enc'.res = "running"
        /\ enc'.size = enc.size /\ enc'.cc = enc.cc
    BY ONLY <1>2, <1>4, <2>2 DEF Encs
  <2> QED BY <2>1, <2>3
<1>7. Owed' = Owed
  BY <1>1, <1>4, <1>6 DEF Owed
<1>8. EncState'
  BY <1>1, <1>2, <1>4, <1>6 DEF MpGood, EncState
<1> QED BY <1>1, <1>6, <1>7, <1>8, HeldGoesOut

(* The encoder gives up; what it holds is committed all the same. *)
LEMMA EncFailsKeeps ==
    ASSUME NEW why, MpGood, EncFails(why)
    PROVE  MpGood'
<1>1. /\ feed' = feed /\ fed' = fed /\ src' = src /\ dec' = dec /\ got' = got
      /\ srcClosed' = srcClosed /\ tgtClosed' = tgtClosed /\ tgt' = tgt \o enc.held
      /\ enc.pc \in {"wait", "prefix", "zero", "target", "fill"}
  BY DEF EncFails, EncRest, srcVars, decVars
<1>2. enc \in Encs /\ enc.res = "running" /\ ~tgtClosed /\ enc.cc <= enc.size /\ (enc.pc = "prefix" => enc.cc = 0)
  BY <1>1 DEF MpGood, MpTypes, EncState
<1>3. PICK r : r = EncodeError(why)
  OBVIOUS
<1>4. r \in {"Target", "Source", "Invalid"}
  BY <1>3 DEF EncodeError
<1>5. PICK z : z = IF enc.pc = "prefix" THEN 0 ELSE enc.size
  OBVIOUS
<1>6. z \in Nat /\ enc.cc <= z /\ z - enc.cc = Owed
  BY <1>2, <1>5 DEF Encs, Owed
<1>7. enc' = [enc EXCEPT !.pc = "done", !.res = r, !.held = << >>, !.size = z]
  BY <1>2, <1>3, <1>5 DEF EncFails, Ends, Encs
<1>8. /\ enc' \in Encs /\ enc'.held = << >> /\ enc'.pc = "done" /\ enc'.res = r
      /\ enc'.size = z /\ enc'.cc = enc.cc
  <2>1. PICK e : e = << >>
    OBVIOUS
  <2>2. e \in Seq(Nat) /\ enc' = [enc EXCEPT !.pc = "done", !.res = r, !.held = e, !.size = z]
    BY <1>7, <2>1
  <2>3. /\ enc' \in Encs /\ enc'.held = e /\ enc'.pc = "done" /\ enc'.res = r
        /\ enc'.size = z /\ enc'.cc = enc.cc
    BY ONLY <1>2, <1>4, <1>6, <2>2 DEF Encs
  <2> QED BY <2>1, <2>3
<1>9. Owed' = Owed
  BY <1>6, <1>8 DEF Owed
<1>10. EncState'
  BY <1>1, <1>4, <1>6, <1>8 DEF EncState
<1> QED BY <1>1, <1>4, <1>8, <1>9, <1>10, HeldGoesOut

(* The zero prefix ends the stream. *)
LEMMA WriteZeroKeeps ==
    ASSUME MpGood, WriteZero
    PROVE  MpGood'
<1>0. PrefixLen \in Nat
  BY MultipartAssumption
<1>1. /\ feed' = feed /\ fed' = fed /\ src' = src /\ dec' = dec /\ got' = got
      /\ srcClosed' = srcClosed /\ tgtClosed' = tgtClosed /\ enc.pc = "zero" /\ tgt' = tgt \o PrefixBytes(0)
  BY DEF WriteZero, EncRest, srcVars, decVars
<1>2. /\ enc \in Encs /\ enc.res = "running" /\ ~tgtClosed /\ enc.cc = enc.size /\ enc.held = << >>
      /\ srcClosed /\ src = << >>
  BY <1>1 DEF MpGood, MpTypes, EncState
<1>3. PICK b : b = PrefixBytes(0)
  OBVIOUS
<1>4. b \in Seq(Nat) /\ Len(b) = PrefixLen
  <2>1. 0 \in 0..(PrefixMax - 1)
    BY PrefixRoundTrip
  <2> QED BY <1>3, <2>1, PrefixRoundTrip
<1>5. PICK wire, at, pay : Flow(wire, at, pay)
  BY DEF MpGood
<1>6. PICK w2 : w2 = wire \o b
  OBVIOUS
<1>7. /\ tgt \in Seq(Nat) /\ wire \in Seq(Nat) /\ fed \in Seq(Nat) /\ Len(wire) \in Nat /\ Len(tgt) \in Nat
      /\ at \in Seq(Nat) /\ Len(at) \in Nat /\ at[Len(at)] \in Nat /\ src \in Seq(Nat)
  BY <1>5, SMTT(40) DEF MpGood, MpTypes, Flow, Layout
<1>8. ~dec.eof
  BY <1>2, <1>5 DEF Flow, Received
<1>9. /\ enc' \in Encs /\ enc'.held = << >> /\ enc'.pc = "done" /\ enc'.res = "eof"
      /\ enc'.size = enc.size /\ enc'.cc = enc.cc
  <2>1. enc' = [enc EXCEPT !.pc = "done", !.res = "eof", !.held = << >>]
    BY DEF WriteZero, Ends
  <2> QED BY <1>2, <2>1 DEF Encs
<1>10. Owed = 0 /\ Owed' = 0
  BY <1>1, <1>2, <1>9 DEF Owed, Encs
<1>11. Layout(w2, at, pay)
  BY <1>4, <1>5, <1>6, LayoutGrows DEF Flow
<1>12. /\ Holds(w2)' /\ tgt' \in Seq(Nat) /\ Len(w2) = Len(wire) + PrefixLen /\ Len(tgt') = Len(tgt) + PrefixLen
  <2>1. tgt' = tgt \o b
    BY <1>1, <1>3
  <2>2. /\ Holds(w2)' /\ tgt' \in Seq(Nat) /\ Len(w2) = Len(wire) + Len(b) /\ Len(tgt') = Len(tgt) + Len(b)
    <3>1. Holds(wire) /\ wire \in Seq(Nat) /\ b \in Seq(Nat) /\ tgt \in Seq(Nat)
      BY <1>4, <1>5, <1>7 DEF Flow
    <3> QED BY <1>6, <2>1, <3>1, HoldsGrows
  <2> QED BY <1>4, <2>2
<1>13. PICK k : k = Len(src)
  OBVIOUS
<1>14. k = 0
  BY <1>2, <1>13
<1>15. SentBy(wire, at, pay, << >>, 0, "running", fed, k)
  BY <1>2, <1>5, <1>10, <1>13 DEF Flow, Sent
<1>16. Len(wire) = at[Len(at)] /\ Len(fed) - k + 0 = pay[Len(at)] /\ 0 <= k /\ 0 <= Len(fed) - k
  <2>1. Len(wire) + 0 + 0 = at[Len(at)] + 0
    BY ONLY <1>15 DEF SentBy
  <2>2. Len(fed) - k + 0 = pay[Len(at)] /\ 0 <= k /\ 0 <= Len(fed) - k
    BY ONLY <1>15 DEF SentBy
  <2> QED BY ONLY <1>7, <2>1, <2>2
<1>17. \A i \in 1 .. Len(wire) + PrefixLen : w2[i] = IF i <= Len(wire) THEN wire[i] ELSE b[i - Len(wire)]
  BY ONLY <1>4, <1>6, <1>7, Concat
<1>18. Payload(w2, at, pay)'
  <2>1. at[Len(at)] <= Len(wire) /\ \A i \in 1..Len(wire) : w2[i] = wire[i]
    <3>1. at[Len(at)] <= Len(wire)
      BY ONLY <1>7, <1>16
    <3>2. PICK w : w = Len(wire)
      OBVIOUS
    <3>3. ASSUME NEW i \in 1..w PROVE w2[i] = wire[i]
      <4>1. w \in Nat
        BY <1>7, <3>2
      <4>2. i \in 1 .. w + PrefixLen /\ i <= w
        BY ONLY <1>0, <4>1, i \in 1..w
      <4> QED BY ONLY <1>17, <3>2, <4>2
    <3> QED BY <3>1, <3>2, <3>3
  <2>2. Layout(wire, at, pay) /\ Payload(wire, at, pay)
    BY <1>5 DEF Flow
  <2>3. \A c \in 1..(Len(at) - 1) : Carries(w2, at, pay, c)'
    BY <1>1, <2>1, <2>2, CarriesKept
  <2> QED BY <2>3 DEF Payload
<1>19. Sent(w2, at, pay)'
  <2>1. ASSUME NEW i \in 1..PrefixLen PROVE w2[at[Len(at)] + i] = b[i]
    <3>1. PICK w : w = Len(wire)
      OBVIOUS
    <3>2. w \in Nat /\ w + i \in 1 .. w + PrefixLen /\ ~(w + i <= w) /\ (w + i) - w = i
      BY <1>0, <1>7, <3>1
    <3> QED BY ONLY <1>16, <1>17, <3>1, <3>2
  <2>2. Len(w2) + 0 + 0 = at[Len(at)] + PrefixLen
    BY ONLY <1>0, <1>7, <1>12, <1>16
  <2>3. SentBy(w2, at, pay, << >>, 0, "eof", fed, k)
    <3>1. Len(<< >>) = 0 /\ \A j \in 1..0 : FALSE
      OBVIOUS
    <3> QED BY ONLY <1>3, <1>16, <2>1, <2>2, <3>1 DEF SentBy
  <2> QED BY <1>1, <1>9, <1>10, <1>13, <2>3 DEF Sent
<1>20. Received(w2, at, pay)'
  <2>1. Len(w2) - Len(tgt') = Len(wire) - Len(tgt)
    BY ONLY <1>0, <1>7, <1>12
  <2>2. Len(at) \in Nat /\ Len(at) >= Len(at) /\ \A c \in 1..Len(at) : at[c] = at[c] /\ pay[c] = pay[c]
    BY <1>7
  <2>3. MpTypes /\ Layout(wire, at, pay) /\ Received(wire, at, pay)
    BY <1>5 DEF MpGood, Flow
  <2> QED BY <1>1, <1>8, <2>1, <2>2, <2>3, ReceivedGrows
<1>21. Flow(w2, at, pay)'
  BY <1>11, <1>12, <1>18, <1>19, <1>20 DEF Flow
<1>22. MpTypes'
  BY <1>1, <1>9, <1>12 DEF MpGood, MpTypes
<1>23. Source' /\ Taken'
  BY <1>1 DEF MpGood, Source, Taken
<1>24. EncState'
  <2>1. enc'.cc = enc'.size /\ enc'.cc <= enc'.size
    BY <1>2, <1>9 DEF Encs
  <2> QED BY <1>1, <1>2, <1>9, <2>1 DEF EncState
<1>25. DecState'
  <2>1. dec.lent \in Nat
    BY DEF MpGood, MpTypes, Decs
  <2>2. dec.lent <= Len(tgt) => dec.lent <= Len(tgt')
    BY ONLY <1>0, <1>7, <1>12, <2>1
  <2> QED BY <1>1, <1>2, <2>2 DEF MpGood, DecState
<1> QED BY <1>21, <1>22, <1>23, <1>24, <1>25 DEF MpGood

(* A prefix promises the bytes that follow it. *)
LEMMA WritePrefixKeeps ==
    ASSUME MpGood, WritePrefix
    PROVE  MpGood'
<1>0. PrefixLen \in Nat
  BY MultipartAssumption
<1>1. /\ feed' = feed /\ fed' = fed /\ src' = src /\ dec' = dec /\ got' = got
      /\ srcClosed' = srcClosed /\ tgtClosed' = tgtClosed /\ enc.pc = "prefix" /\ tgt' = tgt \o PrefixBytes(enc.size)
  BY DEF WritePrefix, EncRest, srcVars, decVars
<1>2. PICK z : z = enc.size
  OBVIOUS
<1>3. /\ enc \in Encs /\ enc.res = "running" /\ ~tgtClosed /\ enc.cc = 0 /\ enc.held = << >>
      /\ z \in 1..(PrefixMax - 1) /\ z \in Nat /\ z <= Len(src)
  BY <1>1, <1>2 DEF MpGood, MpTypes, Encs, EncState
<1>4. PICK b : b = PrefixBytes(z)
  OBVIOUS
<1>5. b \in Seq(Nat) /\ Len(b) = PrefixLen
  <2>1. z \in 0..(PrefixMax - 1)
    BY <1>3, PrefixRoundTrip
  <2> QED BY <1>4, <2>1, PrefixRoundTrip
<1>6. PICK wire, at, pay : Flow(wire, at, pay)
  BY DEF MpGood
<1>7. PICK w2 : w2 = wire \o b
  OBVIOUS
<1>8. /\ tgt \in Seq(Nat) /\ wire \in Seq(Nat) /\ fed \in Seq(Nat) /\ src \in Seq(Nat)
      /\ Len(wire) \in Nat /\ Len(tgt) \in Nat /\ Len(fed) \in Nat /\ Len(src) \in Nat
      /\ at \in Seq(Nat) /\ pay \in Seq(Nat) /\ Len(at) \in Nat /\ at[Len(at)] \in Nat /\ pay[Len(at)] \in Nat
  BY <1>6, SMTT(40) DEF MpGood, MpTypes, Flow, Layout
<1>9. ~dec.eof
  BY <1>3, <1>6 DEF Flow, Received
<1>10. /\ enc' \in Encs /\ enc'.held = << >> /\ enc'.pc = "target" /\ enc'.res = "running"
       /\ enc'.size = z /\ enc'.cc = 0
  <2>1. enc' = [enc EXCEPT !.pc = "target"]
    BY DEF WritePrefix
  <2> QED BY <1>2, <1>3, <2>1 DEF Encs
<1>11. Owed = 0 /\ Owed' = z
  BY <1>1, <1>3, <1>10 DEF Owed
<1>12. PICK k : k = Len(src)
  OBVIOUS
<1>13. SentBy(wire, at, pay, << >>, 0, "running", fed, k)
  BY <1>3, <1>6, <1>11, <1>12 DEF Flow, Sent
<1>14. Len(wire) = at[Len(at)] /\ Len(fed) - k = pay[Len(at)] /\ 0 <= Len(fed) - k
  <2>1. Len(wire) + 0 + 0 = at[Len(at)] + 0
    BY ONLY <1>13 DEF SentBy
  <2>2. Len(fed) - k + 0 = pay[Len(at)] /\ 0 <= Len(fed) - k
    BY ONLY <1>13 DEF SentBy
  <2> QED BY ONLY <1>8, <1>12, <2>1, <2>2
<1>15. PICK at2 : at2 = Append(at, at[Len(at)] + PrefixLen + z)
  OBVIOUS
<1>16. PICK pay2 : pay2 = Append(pay, pay[Len(at)] + z)
  OBVIOUS
<1>17. /\ Layout(w2, at2, pay2) /\ Len(at2) = Len(at) + 1 /\ Len(w2) = Len(wire) + PrefixLen
       /\ \A c \in 1..Len(at) : at2[c] = at[c] /\ pay2[c] = pay[c]
       /\ at2[Len(at) + 1] = at[Len(at)] + PrefixLen + z /\ pay2[Len(at) + 1] = pay[Len(at)] + z
  <2>1. w2 = wire \o PrefixBytes(z)
    BY <1>4, <1>7
  <2>2. Layout(wire, at, pay)
    BY <1>6 DEF Flow
  <2>3. z \in 1..(PrefixMax - 1)
    BY <1>3
  <2>4. Len(wire) = at[Len(at)]
    BY <1>14
  <2>5. Layout(w2, at2, pay2) /\ Longer(wire, at, pay, z, w2, at2, pay2)
    <3>1. Begins(wire, at, pay, z, w2, at2, pay2)
      BY ONLY <1>15, <1>16, <2>1, <2>3, <2>4 DEF Begins
    <3> QED BY ONLY <2>2, <3>1, LayoutExtends
  <2> QED BY ONLY <2>5 DEF Longer
<1>18. /\ Holds(w2)' /\ tgt' \in Seq(Nat) /\ Len(tgt') = Len(tgt) + PrefixLen
  <2>1. tgt' = tgt \o b
    BY <1>1, <1>2, <1>4
  <2>2. Holds(w2)' /\ tgt' \in Seq(Nat) /\ Len(tgt') = Len(tgt) + Len(b)
    <3>1. Holds(wire) /\ wire \in Seq(Nat) /\ b \in Seq(Nat) /\ tgt \in Seq(Nat)
      BY <1>5, <1>6, <1>8 DEF Flow
    <3> QED BY <1>7, <2>1, <3>1, HoldsGrows
  <2> QED BY <1>5, <2>2
<1>19. \A i \in 1 .. Len(wire) + PrefixLen : w2[i] = IF i <= Len(wire) THEN wire[i] ELSE b[i - Len(wire)]
  BY ONLY <1>5, <1>7, <1>8, Concat
<1>20. Payload(w2, at2, pay2)'
  <2>1. at[Len(at)] <= Len(wire) /\ \A i \in 1..Len(wire) : w2[i] = wire[i]
    <3>1. at[Len(at)] <= Len(wire)
      BY ONLY <1>8, <1>14
    <3>2. PICK w : w = Len(wire)
      OBVIOUS
    <3>3. ASSUME NEW i \in 1..w PROVE w2[i] = wire[i]
      <4>1. w \in Nat
        BY <1>8, <3>2
      <4>2. i \in 1 .. w + PrefixLen /\ i <= w
        BY ONLY <1>0, <4>1, i \in 1..w
      <4> QED BY ONLY <1>19, <3>2, <4>2
    <3> QED BY <3>1, <3>2, <3>3
  <2>2. Layout(wire, at, pay) /\ Payload(wire, at, pay)
    BY <1>6 DEF Flow
  <2>3. ASSUME NEW c \in 1..Len(at) PROVE Carries(w2, at2, pay2, c)'
    <3>1. CASE c = Len(at)
      <4>1. at2[c] = at[Len(at)] /\ at2[c] \in Nat
        BY <1>8, <1>17, <3>1
      <4>2. PICK l : l = Len(w2)
        OBVIOUS
      <4>3. l = at2[c] + PrefixLen
        BY <1>14, <1>17, <4>1, <4>2
      <4>4. ASSUME NEW q \in 1..(pay2[c + 1] - pay2[c]) PROVE ~(at2[c] + PrefixLen + q <= l)
        <5>1. q \in Int /\ q >= 1
          OBVIOUS
        <5> QED BY ONLY <1>0, <4>1, <4>3, <5>1
      <4> QED BY <4>2, <4>4 DEF Carries
    <3>2. CASE c # Len(at)
      <4>1. c \in 1..(Len(at) - 1) /\ c + 1 \in 1..Len(at)
        BY <1>8, <3>2
      <4>2. at2[c] = at[c] /\ pay2[c] = pay[c] /\ pay2[c + 1] = pay[c + 1]
        BY <1>17, <4>1
      <4> QED BY <1>1, <2>1, <2>2, <4>1, <4>2, CarriesKept
    <3> QED BY <3>1, <3>2
  <2>4. Len(at2) - 1 = Len(at)
    BY <1>8, <1>17
  <2> QED BY <2>3, <2>4 DEF Payload
<1>21. Sent(w2, at2, pay2)'
  <2>1. SentBy(w2, at2, pay2, << >>, z, "running", fed, k)
    <3>1. Len(<< >>) = 0 /\ \A j \in 1..0 : FALSE
      OBVIOUS
    <3>2. Len(w2) + 0 + z = at2[Len(at2)] + 0
      <4>1. at2[Len(at2)] = at[Len(at)] + PrefixLen + z /\ Len(w2) = Len(wire) + PrefixLen /\ Len(wire) = at[Len(at)]
        BY ONLY <1>14, <1>17
      <4>2. Len(wire) \in Nat /\ z \in Nat
        BY <1>3, <1>8
      <4> QED BY ONLY <1>0, <4>1, <4>2
    <3>3. Len(fed) - k + z = pay2[Len(at2)] /\ z <= k
      <4>1. pay2[Len(at2)] = pay[Len(at)] + z
        BY ONLY <1>17
      <4> QED BY ONLY <1>3, <1>12, <1>14, <4>1
    <3> QED BY ONLY <1>14, <3>1, <3>2, <3>3 DEF SentBy
  <2> QED BY <1>1, <1>10, <1>11, <1>12, <2>1 DEF Sent
<1>22. Received(w2, at2, pay2)'
  <2>1. Len(w2) - Len(tgt') = Len(wire) - Len(tgt)
    BY ONLY <1>0, <1>8, <1>17, <1>18
  <2>2. Len(at2) \in Nat /\ Len(at2) >= Len(at) /\ \A c \in 1..Len(at) : at2[c] = at[c] /\ pay2[c] = pay[c]
    BY <1>8, <1>17
  <2>3. MpTypes /\ Layout(wire, at, pay) /\ Received(wire, at, pay)
    BY <1>6 DEF MpGood, Flow
  <2> QED BY <1>1, <1>9, <2>1, <2>2, <2>3, ReceivedGrows
<1>23. Flow(w2, at2, pay2)'
  BY <1>17, <1>18, <1>20, <1>21, <1>22 DEF Flow
<1>24. MpTypes'
  BY <1>1, <1>10, <1>18 DEF MpGood, MpTypes
<1>25. Source' /\ Taken'
  BY <1>1 DEF MpGood, Source, Taken
<1>26. EncState'
  BY <1>1, <1>3, <1>10 DEF EncState
<1>27. DecState'
  <2>1. dec.lent \in Nat
    BY DEF MpGood, MpTypes, Decs
  <2>2. dec.lent <= Len(tgt) => dec.lent <= Len(tgt')
    BY ONLY <1>0, <1>8, <1>18, <2>1
  <2> QED BY <1>1, <1>3, <1>10, <2>2 DEF MpGood, DecState
<1> QED BY <1>23, <1>24, <1>25, <1>26, <1>27 DEF MpGood

-----------------------------------------------------------------------------
(* The steps of the decoder.                                               *)

(* A step that takes nothing from the target. *)
LEMMA DecQuiet ==
    ASSUME MpGood, DecRest, tgt' = tgt, got' = got, dec' \in Decs, dec'.left = dec.left,
           dec'.eof <=> dec.eof, DecState'
    PROVE  MpGood'
<1>1. feed' = feed /\ fed' = fed /\ src' = src /\ srcClosed' = srcClosed /\ tgtClosed' = tgtClosed /\ enc' = enc
  BY DEF DecRest, srcVars
<1>2. PICK wire, at, pay : Flow(wire, at, pay)
  BY DEF MpGood
<1>3. MpTypes'
  BY <1>1 DEF MpGood, MpTypes
<1>4. EncState'
  BY <1>1 DEF MpGood, EncState
<1>5. Source' /\ Taken'
  BY <1>1 DEF MpGood, Source, Taken
<1>6. Layout(wire, at, pay)' /\ Payload(wire, at, pay)' /\ Holds(wire)' /\ Sent(wire, at, pay)'
  BY <1>1, <1>2 DEF Flow, Payload, Carries, Holds, Sent, Owed
<1>7. Received(wire, at, pay)'
  <2>1. CASE dec.eof
    BY <1>1, <1>2, <2>1 DEF Flow, Received
  <2>2. CASE ~dec.eof
    <3>1. PICK d \in 1..Len(at) : Between(wire, at, pay, d)
      BY <1>2, <2>2 DEF Flow, Received
    <3>2. Between(wire, at, pay, d)'
      BY <3>1 DEF Between
    <3> QED BY <2>2, <3>2 DEF Received
  <2> QED BY <2>1, <2>2
<1> QED BY <1>3, <1>4, <1>5, <1>6, <1>7 DEF MpGood, Flow

(* A call, a wait that is given up, a loan and the end inside of a chunk. *)
LEMMA ReadKeeps ==
    ASSUME NEW min \in Mins, MpGood, Read(min)
    PROVE  MpGood'
<1>1. dec \in Decs /\ min \in Nat /\ dec.pc = "idle" /\ dec.err = "none" /\ tgt' = tgt /\ got' = got
  BY MultipartAssumption DEF MpGood, MpTypes, Read
<1>2. PICK p : p = IF dec.left = 0 THEN "prefix" ELSE "payload"
  OBVIOUS
<1>3. dec.left \in Nat /\ p \in {"prefix", "payload"} /\ (p = "prefix" => dec.left = 0) /\ (p = "payload" => dec.left > 0)
  BY <1>1, <1>2 DEF Decs
<1>4. dec' = [dec EXCEPT !.pc = p, !.min = min]
  BY <1>2 DEF Read
<1>5. dec' \in Decs /\ dec'.left = dec.left /\ dec'.eof = dec.eof /\ dec'.pc = p /\ dec'.err = "none"
  BY <1>1, <1>3, <1>4 DEF Decs
<1>6. DecState'
  BY <1>1, <1>3, <1>5 DEF MpGood, DecState
<1>7. DecRest
  BY DEF Read
<1> QED BY <1>1, <1>5, <1>6, <1>7, DecQuiet

(* A wait that is given up. *)
LEMMA DecReturnsKeeps ==
    ASSUME MpGood, DecReturns
    PROVE  MpGood'
<1>1. dec \in Decs /\ dec.pc \in {"prefix", "payload"} /\ tgt' = tgt /\ got' = got /\ DecRest
  BY DEF MpGood, MpTypes, DecReturns
<1>2. dec' = [dec EXCEPT !.pc = "idle"]
  BY DEF DecReturns
<1>3. dec' \in Decs /\ dec'.left = dec.left /\ dec'.eof = dec.eof /\ dec'.pc = "idle" /\ dec'.err = dec.err
  BY <1>1, <1>2 DEF Decs
<1>4. dec.err = "none"
  BY <1>1 DEF MpGood, DecState
<1>5. DecState'
  BY <1>1, <1>3, <1>4 DEF MpGood, DecState
<1> QED BY <1>1, <1>3, <1>5, DecQuiet

(* A loan of at most the rest of the chunk. *)
LEMMA DecPayloadKeeps ==
    ASSUME MpGood, DecPayload
    PROVE  MpGood'
<1>1. dec \in Decs /\ dec.pc = "payload" /\ tgt' = tgt /\ got' = got /\ DecRest /\ tgt \in Seq(Nat)
  BY DEF MpGood, MpTypes, DecPayload
<1>2. PICK n : n = Min2(dec.left, Len(tgt))
  OBVIOUS
<1>3. n \in Nat /\ n <= dec.left /\ n <= Len(tgt)
  BY <1>1, <1>2 DEF Decs, Min2
<1>4. dec' = [dec EXCEPT !.pc = "lent", !.lent = n]
  BY <1>2 DEF DecPayload
<1>5. /\ dec' \in Decs /\ dec'.left = dec.left /\ dec'.eof = dec.eof /\ dec'.pc = "lent" /\ dec'.err = dec.err
      /\ dec'.lent = n
  BY <1>1, <1>3, <1>4 DEF Decs
<1>6. dec.err = "none"
  BY <1>1 DEF MpGood, DecState
<1>7. DecState'
  BY <1>1, <1>3, <1>5, <1>6 DEF MpGood, DecState
<1> QED BY <1>1, <1>5, <1>7, DecQuiet

(* What is left on the way when the encoder has ended the stream: at least the
   end's prefix, after the last chunk; and nothing more than the last chunk when
   it has not. *)
LEMMA WireEnds ==
    ASSUME NEW wire, NEW at, NEW pay, MpTypes, EncState, Flow(wire, at, pay)
    PROVE  /\ enc.res = "eof" => Len(wire) = at[Len(at)] + PrefixLen
           /\ enc.res # "eof" => Len(wire) <= at[Len(at)]
           /\ pay[Len(at)] <= Len(fed)
           /\ Len(wire) \in Nat /\ Len(at) \in Nat /\ at[Len(at)] \in Nat /\ pay[Len(at)] \in Nat /\ Len(at) >= 1
<1>0. PrefixLen \in Nat
  BY MultipartAssumption
<1>1. PICK h : h = enc.held
  OBVIOUS
<1>2. PICK o : o = Owed
  OBVIOUS
<1>3. PICK k : k = Len(src)
  OBVIOUS
<1>4. /\ h \in Seq(Nat) /\ Len(h) \in Nat /\ o \in Nat /\ k \in Nat /\ Len(fed) \in Nat
      /\ (enc.res = "eof" => o = 0 /\ Len(h) = 0)
  <2>1. enc.res = "eof" => enc.pc = "done" /\ enc.held = << >> /\ enc.cc = enc.size
    BY DEF EncState
  <2>2. /\ enc.held \in Seq(Nat) /\ enc.size \in Nat /\ enc.cc \in Nat /\ enc.cc <= enc.size
        /\ src \in Seq(Nat) /\ fed \in Seq(Nat)
    BY DEF MpTypes, Encs, EncState
  <2> QED BY <1>1, <1>2, <1>3, <2>1, <2>2 DEF Owed
<1>5. /\ wire \in Seq(Nat) /\ Len(wire) \in Nat /\ Len(at) \in Nat /\ at[Len(at)] \in Nat /\ pay[Len(at)] \in Nat
      /\ Len(at) >= 1
  BY DEF Flow, Layout
<1>6. PICK r : r = enc.res
  OBVIOUS
<1>7. SentBy(wire, at, pay, h, o, r, fed, k)
  BY <1>1, <1>2, <1>3, <1>6 DEF Flow, Sent
<1>8. Len(wire) + Len(h) + o = at[Len(at)] + (IF r = "eof" THEN PrefixLen ELSE 0)
  BY ONLY <1>7 DEF SentBy
<1>9. Len(fed) - k + o = pay[Len(at)] /\ o <= k
  BY ONLY <1>7 DEF SentBy
<1>10. pay[Len(at)] <= Len(fed)
  BY ONLY <1>4, <1>9
<1>11. CASE r = "eof"
  <2>1. Len(wire) + Len(h) + o = at[Len(at)] + PrefixLen
    BY ONLY <1>8, <1>11
  <2>2. Len(wire) = at[Len(at)] + PrefixLen
    BY <1>0, <1>4, <1>5, <1>6, <1>11, <2>1
  <2> QED BY <1>5, <1>6, <1>10, <1>11, <2>2
<1>12. CASE r # "eof"
  <2>1. Len(wire) + Len(h) + o = at[Len(at)] + 0
    BY ONLY <1>8, <1>12
  <2>2. Len(wire) <= at[Len(at)]
    BY ONLY <1>4, <1>5, <2>1
  <2> QED BY <1>5, <1>6, <1>10, <1>12, <2>2
<1> QED BY <1>11, <1>12

(* Invalid inside of a chunk: its encoder gave up. *)
LEMMA DecCutOffKeeps ==
    ASSUME MpGood, DecCutOff
    PROVE  MpGood'
<1>0. PrefixLen \in Nat
  BY MultipartAssumption
<1>1. /\ dec \in Decs /\ dec.pc = "payload" /\ tgt' = tgt /\ got' = got /\ DecRest /\ tgt = << >> /\ tgtClosed
      /\ tgtClosed' = tgtClosed /\ enc' = enc
  BY DEF MpGood, MpTypes, DecCutOff, DecRest
<1>2. dec' = [dec EXCEPT !.pc = "idle", !.err = "Invalid"]
  BY DEF DecCutOff
<1>3. dec' \in Decs /\ dec'.left = dec.left /\ dec'.eof = dec.eof /\ dec'.pc = "idle" /\ dec'.err = "Invalid"
  BY <1>1, <1>2 DEF Decs
<1>4. dec.err = "none" /\ dec.left > 0 /\ dec.left \in Nat /\ ~dec.eof
  BY <1>1 DEF MpGood, DecState, Decs
<1>5. PICK wire, at, pay : Flow(wire, at, pay)
  BY DEF MpGood
<1>6. PICK d \in 1..Len(at) : Between(wire, at, pay, d)
  BY <1>4, <1>5 DEF Flow, Received
<1>7. enc.res # "eof"
  <2>1. /\ enc.res = "eof" => Len(wire) = at[Len(at)] + PrefixLen
        /\ Len(wire) \in Nat /\ Len(at) \in Nat /\ at[Len(at)] \in Nat
    BY <1>5, WireEnds DEF MpGood
  <2>2. at[d] <= at[Len(at)] /\ at[d] \in Nat
    BY <1>5 DEF Flow, Layout
  <2>3. Len(wire) - Len(tgt) + dec.left = at[d] /\ Len(tgt) = 0
    BY <1>1, <1>6 DEF Between
  <2> QED BY ONLY <1>0, <1>4, <2>1, <2>2, <2>3
<1>8. DecState'
  BY <1>1, <1>3, <1>4, <1>7 DEF DecState
<1> QED BY <1>1, <1>3, <1>8, DecQuiet

(* Inside of a chunk the next bytes of the target are the next of the payload. *)
LEMMA NextByte ==
    ASSUME NEW wire, NEW at, NEW pay, NEW d, NEW j, MpTypes, Flow(wire, at, pay), d \in 1..Len(at),
           Between(wire, at, pay, d), j \in 1..dec.left, j <= Len(tgt)
    PROVE  tgt[j] = fed[Len(got) + j]
<1>0. PrefixLen \in Nat
  BY MultipartAssumption
<1>1. PICK x : x = dec.left
  OBVIOUS
<1>2. PICK t : t = Len(tgt)
  OBVIOUS
<1>3. PICK g : g = Len(got)
  OBVIOUS
<1>4. x \in Nat /\ t \in Nat /\ g \in Nat /\ j \in 1..x /\ j \in 1..t /\ j \in Nat /\ j >= 1 /\ j <= x
  BY <1>1, <1>2, <1>3 DEF MpTypes, Decs
<1>5. d > 1 /\ x <= pay[d] - pay[d - 1]
  BY <1>1, <1>4 DEF Between
<1>6. PICK c : c = d - 1
  OBVIOUS
<1>7. Layout(wire, at, pay) /\ Len(at) \in Nat
  BY DEF Flow, Layout
<1>8. c \in 1..(Len(at) - 1) /\ c + 1 = d
  BY <1>5, <1>6, <1>7
<1>9. PICK a, a1, y, y1, w, an, yn : Numbers(wire, at, pay, c, a, a1, y, y1, w, an, yn)
  BY <1>7, <1>8, ChunkNumbers
<1>10. /\ a \in Nat /\ a1 \in Nat /\ y \in Nat /\ y1 \in Nat /\ w \in Nat /\ a1 = a + PrefixLen + (y1 - y)
       /\ a = at[c] /\ a1 = at[d] /\ y = pay[c] /\ y1 = pay[d] /\ w = Len(wire)
  BY <1>8, <1>9 DEF Numbers
<1>11. w - t + x = a1 /\ g + x = y1 /\ x <= y1 - y
  BY <1>1, <1>2, <1>3, <1>5, <1>6, <1>10 DEF Between
<1>12. tgt[j] = wire[w - t + j]
  BY <1>2, <1>4, <1>10 DEF Flow, Holds
<1>13. PICK q : q = (y1 - y) - x + j
  OBVIOUS
<1>14. t <= w
  BY <1>2, <1>10 DEF Flow, Holds
<1>15. j <= t
  BY <1>2
<1>16. /\ q \in 1..(y1 - y) /\ a + PrefixLen + q = w - t + j /\ a + PrefixLen + q <= w /\ y + q = g + j
  <2>0. /\ a \in Nat /\ a1 \in Nat /\ y \in Nat /\ y1 \in Nat /\ w \in Nat /\ a1 = a + PrefixLen + (y1 - y)
        /\ x \in Nat /\ t \in Nat /\ g \in Nat /\ j \in Nat
    BY ONLY <1>4, <1>10
  <2>1. y1 - y \in Int /\ q \in Int
    BY ONLY <1>13, <2>0
  <2>2. q >= 1 /\ q <= y1 - y
    BY ONLY <1>4, <1>11, <1>13, <2>1
  <2>3. a + PrefixLen + q = w - t + j
    BY ONLY <1>0, <1>11, <1>13, <2>0
  <2>4. y + q = g + j
    BY ONLY <1>11, <1>13, <2>0
  <2>5. w - t + j <= w
    BY ONLY <1>4, <1>10, <1>15
  <2> QED BY ONLY <2>1, <2>2, <2>3, <2>4, <2>5
<1>17. Carries(wire, at, pay, c)
  BY <1>8 DEF Flow, Payload
<1>18. wire[a + PrefixLen + q] = fed[y + q]
  <2>1. q \in 1..(pay[c + 1] - pay[c]) /\ at[c] + PrefixLen + q <= Len(wire)
    BY <1>8, <1>10, <1>16
  <2> QED BY <1>10, <1>17, <2>1 DEF Carries
<1> QED BY <1>3, <1>12, <1>16, <1>18

(* Bytes are taken from the target: the rest is still its end. *)
LEMMA HoldsShrinks ==
    ASSUME NEW wire \in Seq(Nat), NEW n \in Nat, tgt \in Seq(Nat), n <= Len(tgt),
           Holds(wire), tgt' = Drop(tgt, n)
    PROVE  Holds(wire)' /\ tgt' \in Seq(Nat) /\ Len(tgt') = Len(tgt) - n
<1>1. PICK t : t = tgt
  OBVIOUS
<1>2. PICK t2 : t2 = tgt'
  OBVIOUS
<1>3. t \in Seq(Nat) /\ t2 = Drop(t, n) /\ n <= Len(t) /\ Len(t) \in Nat /\ Len(wire) \in Nat
  BY <1>1, <1>2
<1>4. t2 \in Seq(Nat) /\ Len(t2) = Len(t) - n /\ \A i \in 1..(Len(t) - n) : t2[i] = t[n + i]
  BY ONLY <1>3, n \in Nat, Halves
<1>5. Len(t) <= Len(wire) /\ \A i \in 1..Len(t) : t[i] = wire[Len(wire) - Len(t) + i]
  BY <1>1 DEF Holds
<1>6. ASSUME NEW i \in 1..Len(t2) PROVE t2[i] = wire[Len(wire) - Len(t2) + i]
  <2>1. /\ i \in 1..(Len(t) - n) /\ n + i \in 1..Len(t)
        /\ Len(wire) - Len(t) + (n + i) = Len(wire) - Len(t2) + i
    BY <1>3, <1>4
  <2>2. t2[i] = t[n + i] /\ t[n + i] = wire[Len(wire) - Len(t) + (n + i)]
    BY ONLY <1>4, <1>5, <2>1
  <2> QED BY ONLY <2>1, <2>2
<1>7. Len(t2) <= Len(wire)
  BY <1>3, <1>4, <1>5
<1>8. Holds(wire)'
  BY <1>2, <1>6, <1>7 DEF Holds
<1> QED BY <1>1, <1>2, <1>4, <1>8

(* The caller takes bytes of a loan. *)
LEMMA UseKeeps ==
    ASSUME NEW k \in 0..TgtCap, MpGood, Use(k)
    PROVE  MpGood'
<1>1. /\ feed' = feed /\ fed' = fed /\ src' = src /\ srcClosed' = srcClosed /\ tgtClosed' = tgtClosed /\ enc' = enc
      /\ dec.pc = "lent" /\ k <= dec.lent /\ tgt' = Drop(tgt, k) /\ got' = got \o SubSeq(tgt, 1, k)
  BY DEF Use, DecRest, srcVars
<1>2. k \in Nat
  BY MultipartAssumption
<1>3. /\ dec \in Decs /\ dec.lent \in Nat /\ dec.left \in Nat /\ dec.lent <= dec.left /\ dec.lent <= Len(tgt)
      /\ dec.err = "none" /\ ~dec.eof /\ tgt \in Seq(Nat) /\ got \in Seq(Nat) /\ fed \in Seq(Nat)
  BY <1>1 DEF MpGood, MpTypes, DecState, Decs
<1>4. k <= dec.left /\ k <= Len(tgt)
  BY <1>1, <1>2, <1>3
<1>5. PICK wire, at, pay : Flow(wire, at, pay)
  BY DEF MpGood
<1>6. PICK d \in 1..Len(at) : Between(wire, at, pay, d)
  BY <1>3, <1>5 DEF Flow, Received
<1>7. /\ pay[Len(at)] <= Len(fed) /\ pay[Len(at)] \in Nat /\ Len(wire) \in Nat /\ Len(at) \in Nat
      /\ wire \in Seq(Nat) /\ pay[d] <= pay[Len(at)] /\ pay[d] \in Nat /\ at[d] \in Nat
  <2>1. /\ pay[Len(at)] <= Len(fed) /\ pay[Len(at)] \in Nat /\ Len(wire) \in Nat /\ Len(at) \in Nat
    BY <1>5, WireEnds DEF MpGood
  <2>2. wire \in Seq(Nat) /\ pay[d] <= pay[Len(at)] /\ pay[d] \in Nat /\ at[d] \in Nat
    BY <1>5 DEF Flow, Layout
  <2> QED BY <2>1, <2>2
<1>8. Holds(wire)' /\ tgt' \in Seq(Nat) /\ Len(tgt') = Len(tgt) - k
  BY <1>1, <1>2, <1>3, <1>4, <1>5, <1>7, HoldsShrinks DEF Flow
<1>9. PICK e : e = SubSeq(tgt, 1, k)
  OBVIOUS
<1>10. e \in Seq(Nat) /\ Len(e) = k /\ \A i \in 1..k : e[i] = tgt[i]
  BY ONLY <1>2, <1>3, <1>4, <1>9, Halves
<1>11. PICK g : g = got
  OBVIOUS
<1>12. PICK g2 : g2 = got'
  OBVIOUS
<1>13. /\ g2 \in Seq(Nat) /\ Len(g2) = Len(g) + Len(e)
       /\ \A i \in 1 .. Len(g) + Len(e) : g2[i] = IF i <= Len(g) THEN g[i] ELSE e[i - Len(g)]
  <2>1. g \in Seq(Nat) /\ g2 = g \o e
    BY <1>1, <1>3, <1>9, <1>11, <1>12
  <2> QED BY ONLY <1>10, <2>1, Concat
<1>14. PICK m : m = Len(g)
  OBVIOUS
<1>15. PICK x : x = dec.left
  OBVIOUS
<1>16. m \in Nat /\ x \in Nat /\ k <= x /\ Len(g2) = m + k /\ m = Len(got)
  BY <1>3, <1>4, <1>10, <1>11, <1>13, <1>14, <1>15
<1>17. /\ Len(wire) - Len(tgt) + x = at[d] /\ m + x = pay[d]
       /\ x > 0 => d > 1 /\ x <= pay[d] - pay[d - 1]
  BY <1>6, <1>15, <1>16 DEF Between
<1>18. Taken'
  <2>1. m + k <= Len(fed)
    <3>1. Len(fed) \in Nat
      BY <1>3
    <3> QED BY ONLY <1>2, <1>7, <1>16, <1>17, <3>1
  <2>2. ASSUME NEW i \in 1..(m + k) PROVE g2[i] = fed[i]
    <3>0. i \in Nat /\ i >= 1 /\ i <= m + k /\ i \in 1 .. Len(g) + Len(e)
      BY <1>2, <1>10, <1>14, <1>16
    <3>1. CASE i <= m
      <4>1. g2[i] = g[i]
        BY ONLY <1>13, <1>14, <3>0, <3>1
      <4>2. i \in 1..Len(got)
        BY <1>16, <3>0, <3>1
      <4> QED BY <1>11, <4>1, <4>2 DEF MpGood, Taken
    <3>2. CASE ~(i <= m)
      <4>1. PICK j : j = i - m
        OBVIOUS
      <4>2. j \in 1..k /\ j \in 1..x /\ m + j = i /\ j <= k
        BY ONLY <1>2, <1>16, <3>0, <3>2, <4>1
      <4>3. g2[i] = e[j] /\ e[j] = tgt[j]
        BY ONLY <1>10, <1>13, <1>14, <3>0, <3>2, <4>1, <4>2
      <4>4. j <= Len(tgt)
        <5>1. Len(tgt) \in Nat
          BY <1>3
        <5> QED BY <1>2, <1>4, <4>2, <5>1
      <4>5. tgt[j] = fed[Len(got) + j]
        <5>1. MpTypes /\ j \in 1..dec.left
          BY <1>15, <4>2 DEF MpGood
        <5> QED BY <1>5, <1>6, <4>4, <5>1, NextByte
      <4> QED BY ONLY <1>16, <4>2, <4>3, <4>5
    <3> QED BY <3>1, <3>2
  <2> QED BY <1>1, <1>12, <1>16, <2>1, <2>2 DEF Taken
<1>19. dec' = [dec EXCEPT !.pc = "idle", !.left = x - k, !.lent = 0]
  BY <1>15 DEF Use
<1>20. PICK x2 : x2 = x - k
  OBVIOUS
<1>21. x2 \in Nat
  BY <1>2, <1>16, <1>20
<1>22. dec' \in Decs /\ dec'.left = x2 /\ dec'.eof = dec.eof /\ dec'.pc = "idle" /\ dec'.err = dec.err /\ dec'.lent = 0
  <2>1. dec' = [dec EXCEPT !.pc = "idle", !.left = x2, !.lent = 0]
    BY <1>19, <1>20
  <2> QED BY <1>3, <1>21, <2>1 DEF Decs
<1>23. MpTypes'
  BY <1>1, <1>8, <1>12, <1>13, <1>22 DEF MpGood, MpTypes
<1>24. EncState' /\ DecState' /\ Source'
  BY <1>1, <1>3, <1>22 DEF MpGood, EncState, DecState, Source
<1>25. Layout(wire, at, pay)' /\ Payload(wire, at, pay)' /\ Sent(wire, at, pay)'
  BY <1>1, <1>5 DEF Flow, Payload, Carries, Sent, Owed
<1>26. Between(wire, at, pay, d)'
  <2>1. PICK t : t = Len(tgt)
    OBVIOUS
  <2>2. t \in Nat
    BY <1>3, <2>1
  <2>3. Len(wire) - (t - k) + x2 = at[d] /\ (m + k) + x2 = pay[d]
    BY ONLY <1>2, <1>7, <1>16, <1>17, <1>20, <2>1, <2>2
  <2>4. x2 > 0 => d > 1 /\ x2 <= pay[d] - pay[d - 1]
    <3> SUFFICES ASSUME x2 > 0 PROVE d > 1 /\ x2 <= pay[d] - pay[d - 1]
      OBVIOUS
    <3>1. x > 0
      BY ONLY <1>2, <1>16, <1>20, x2 > 0
    <3>2. d > 1 /\ x <= pay[d] - pay[d - 1]
      BY ONLY <1>17, <3>1
    <3>3. pay[d - 1] \in Nat
      BY <1>5, <1>7, <3>2, SMTT(40) DEF Flow, Layout
    <3> QED BY ONLY <1>2, <1>7, <1>16, <1>20, <3>2, <3>3
  <2>5. Len(tgt') = t - k /\ Len(got') = m + k /\ dec'.left = x2
    BY <1>8, <1>12, <1>16, <1>22, <2>1
  <2> QED BY ONLY <2>3, <2>4, <2>5 DEF Between
<1>27. Received(wire, at, pay)'
  BY <1>3, <1>22, <1>26 DEF Received
<1> QED BY <1>8, <1>18, <1>23, <1>24, <1>25, <1>27 DEF MpGood, Flow

(* A prefix that is all there says how long the chunk is, or that it is the
   end; one that is not there in full is never there in part. *)
LEMMA DecPrefixKeeps ==
    ASSUME MpGood, DecPrefix
    PROVE  MpGood'
<1>0. PrefixLen \in Nat /\ PrefixLen > 0
  BY MultipartAssumption
<1>1. /\ feed' = feed /\ fed' = fed /\ src' = src /\ srcClosed' = srcClosed /\ tgtClosed' = tgtClosed /\ enc' = enc
      /\ dec.pc = "prefix" /\ got' = got /\ DecRest
  BY DEF DecPrefix, DecRest, srcVars
<1>2. /\ dec \in Decs /\ dec.left = 0 /\ dec.err = "none" /\ ~dec.eof
      /\ tgt \in Seq(Nat) /\ Len(tgt) \in Nat /\ got \in Seq(Nat) /\ Len(got) \in Nat
  BY <1>1 DEF MpGood, MpTypes, DecState
<1>3. PICK wire, at, pay : Flow(wire, at, pay)
  BY DEF MpGood
<1>4. PICK d \in 1..Len(at) : Between(wire, at, pay, d)
  BY <1>2, <1>3 DEF Flow, Received
<1>5. /\ enc.res = "eof" => Len(wire) = at[Len(at)] + PrefixLen
      /\ enc.res # "eof" => Len(wire) <= at[Len(at)]
      /\ Len(wire) \in Nat /\ Len(at) \in Nat /\ at[Len(at)] \in Nat /\ pay[Len(at)] \in Nat
  BY <1>3, WireEnds DEF MpGood
<1>6. /\ wire \in Seq(Nat) /\ at[d] \in Nat /\ pay[d] \in Nat /\ at[d] <= at[Len(at)]
  BY <1>3 DEF Flow, Layout
<1>7. Len(wire) - Len(tgt) = at[d] /\ Len(got) = pay[d]
  <2>1. Len(wire) - Len(tgt) + 0 = at[d] /\ Len(got) + 0 = pay[d]
    BY <1>2, <1>4 DEF Between
  <2> QED BY <1>2, <1>5, <1>6, <2>1
<1>8. ASSUME d # Len(at)
      PROVE  d \in 1..(Len(at) - 1) /\ Chunked(wire, at, pay, d) /\ PrefixLen <= Len(tgt)
  <2>1. d \in 1..(Len(at) - 1)
    BY <1>5, <1>8
  <2>2. Chunked(wire, at, pay, d)
    BY <1>3, <2>1 DEF Flow, Layout
  <2>3. at[d] + PrefixLen <= Len(wire)
    BY <2>2 DEF Chunked
  <2>4. PrefixLen <= Len(tgt)
    BY ONLY <1>0, <1>2, <1>5, <1>6, <1>7, <2>3
  <2> QED BY <2>1, <2>2, <2>4
<1>9. CASE Len(tgt) < PrefixLen
  <2>1. d = Len(at)
    BY <1>0, <1>2, <1>8, <1>9
  <2>2. enc.res # "eof"
    <3>1. enc.res = "eof" => Len(tgt) = PrefixLen
      BY ONLY <1>0, <1>2, <1>5, <1>7, <2>1
    <3> QED BY <1>0, <1>2, <1>9, <3>1
  <2>3. Len(tgt) = 0
    BY ONLY <1>2, <1>5, <1>7, <2>1, <2>2
  <2>4. /\ tgtClosed /\ tgt' = Drop(tgt, Len(tgt))
        /\ dec' = [dec EXCEPT !.pc = "idle", !.err = "Invalid"]
    <3>1. Min2(PrefixLen, Len(tgt)) = Len(tgt) /\ Len(tgt) # PrefixLen
      BY <1>0, <1>2, <1>9 DEF Min2
    <3> QED BY <1>9, <3>1 DEF DecPrefix
  <2>5. tgt' = tgt
    <3>1. tgt' = Drop(tgt, 0)
      BY <2>3, <2>4
    <3>2. tgt = << >>
      BY <1>2, <2>3
    <3> QED BY <3>1, <3>2 DEF Drop
  <2>6. dec' \in Decs /\ dec'.left = dec.left /\ dec'.eof = dec.eof /\ dec'.pc = "idle" /\ dec'.err = "Invalid"
    BY <1>2, <2>4 DEF Decs
  <2>7. DecState'
    BY <1>1, <1>2, <2>2, <2>4, <2>6 DEF DecState
  <2> QED BY <1>1, <2>5, <2>6, <2>7, DecQuiet
<1>10. CASE ~(Len(tgt) < PrefixLen)
  <2>0. PrefixLen <= Len(tgt)
    BY <1>0, <1>2, <1>10
  <2>1. PICK s : s = SubSeq(tgt, 1, PrefixLen)
    OBVIOUS
  <2>2. PICK v : v = PrefixValue(s)
    OBVIOUS
  <2>3. /\ tgt' = Drop(tgt, PrefixLen)
        /\ dec' = IF v = 0 THEN [dec EXCEPT !.pc = "idle", !.err = "Eof", !.eof = TRUE]
                  ELSE [dec EXCEPT !.pc = "payload", !.left = v]
    <3>1. Min2(PrefixLen, Len(tgt)) = PrefixLen /\ ~(PrefixLen < PrefixLen)
      BY <1>0, <2>0 DEF Min2
    <3> QED BY <2>1, <2>2, <3>1 DEF DecPrefix
  <2>4. Holds(wire)' /\ tgt' \in Seq(Nat) /\ Len(tgt') = Len(tgt) - PrefixLen
    BY <1>0, <1>2, <1>3, <1>6, <2>0, <2>3, HoldsShrinks DEF Flow
  <2>5. ASSUME NEW i \in 1..PrefixLen PROVE s[i] = wire[at[d] + i]
    <3>1. s[i] = tgt[i]
      BY <1>0, <1>2, <2>0, <2>1, Halves
    <3>2. i \in 1..Len(tgt)
      BY <1>0, <1>2, <2>0
    <3>3. tgt[i] = wire[Len(wire) - Len(tgt) + i]
      BY <1>3, <3>2 DEF Flow, Holds
    <3> QED BY ONLY <1>7, <3>1, <3>3
  <2>6. Layout(wire, at, pay)' /\ Payload(wire, at, pay)' /\ Sent(wire, at, pay)'
    BY <1>1, <1>3 DEF Flow, Payload, Carries, Sent, Owed
  <2>7. EncState' /\ Source' /\ Taken'
    BY <1>1 DEF MpGood, EncState, Source, Taken
  <2>8. CASE d # Len(at)
    <3>1. PICK z : z = pay[d + 1] - pay[d]
      OBVIOUS
    <3>2. d \in 1..(Len(at) - 1) /\ d + 1 \in 1..Len(at) /\ d + 1 > 1 /\ (d + 1) - 1 = d
      BY <1>5, <1>8, <2>8
    <3>3. /\ z \in 1..(PrefixMax - 1) /\ at[d + 1] = at[d] + PrefixLen + z
          /\ \A i \in 1..PrefixLen : wire[at[d] + i] = PrefixBytes(z)[i]
      BY <1>8, <2>8, <3>1 DEF Chunked
    <3>4. z \in 0..(PrefixMax - 1) /\ z \in Nat /\ z # 0 /\ z > 0
      BY <3>3, PrefixRoundTrip
    <3>5. v = z
      BY <2>2, <2>5, <3>3, <3>4, PrefixRoundTrip
    <3>6. dec' = [dec EXCEPT !.pc = "payload", !.left = z]
      BY <2>3, <3>4, <3>5
    <3>7. dec' \in Decs /\ dec'.left = z /\ dec'.eof = dec.eof /\ dec'.pc = "payload" /\ dec'.err = dec.err
      BY <1>2, <3>4, <3>6 DEF Decs
    <3>8. DecState'
      BY <1>1, <1>2, <3>4, <3>7 DEF DecState
    <3>9. MpTypes'
      BY <1>1, <2>4, <3>7 DEF MpGood, MpTypes
    <3>10. Between(wire, at, pay, d + 1)'
      <4>1. Len(wire) - (Len(tgt) - PrefixLen) + z = at[d + 1]
        BY ONLY <1>0, <1>2, <1>5, <1>6, <1>7, <3>3, <3>4
      <4>2. pay[d + 1] \in Nat
        BY <1>3, <3>2 DEF Flow, Layout
      <4>3. Len(got) + z = pay[d + 1] /\ z <= pay[d + 1] - pay[d]
        BY ONLY <1>2, <1>6, <1>7, <3>1, <3>4, <4>2
      <4>4. Len(tgt') = Len(tgt) - PrefixLen /\ Len(got') = Len(got) /\ dec'.left = z
        BY <1>1, <2>4, <3>7
      <4> QED BY ONLY <3>2, <4>1, <4>3, <4>4 DEF Between
    <3>11. Received(wire, at, pay)'
      BY <1>2, <3>2, <3>7, <3>10 DEF Received
    <3> QED BY <2>4, <2>6, <2>7, <3>8, <3>9, <3>11 DEF MpGood, Flow
  <2>9. CASE d = Len(at)
    <3>1. enc.res = "eof"
      BY ONLY <1>0, <1>2, <1>5, <1>7, <2>0, <2>9
    <3>2. \A i \in 1..PrefixLen : wire[at[d] + i] = PrefixBytes(0)[i]
      BY <1>3, <2>9, <3>1 DEF Flow, Sent, SentBy
    <3>3. v = 0
      <4>1. 0 \in 0..(PrefixMax - 1)
        BY PrefixRoundTrip
      <4> QED BY <2>2, <2>5, <3>2, <4>1, PrefixRoundTrip
    <3>4. dec' = [dec EXCEPT !.pc = "idle", !.err = "Eof", !.eof = TRUE]
      BY <2>3, <3>3
    <3>5. dec' \in Decs /\ dec'.left = dec.left /\ dec'.eof /\ dec'.pc = "idle" /\ dec'.err = "Eof"
      BY <1>2, <3>4 DEF Decs
    <3>6. DecState'
      BY <1>1, <1>2, <3>5 DEF DecState
    <3>7. MpTypes'
      BY <1>1, <2>4, <3>5 DEF MpGood, MpTypes
    <3>8. Received(wire, at, pay)'
      BY <1>1, <1>7, <2>9, <3>1, <3>5 DEF Received
    <3> QED BY <2>4, <2>6, <2>7, <3>6, <3>7, <3>8 DEF MpGood, Flow
  <2> QED BY <2>8, <2>9
<1> QED BY <1>9, <1>10

(* Every step preserves the invariant. *)
LEMMA MpInvStep == MpInv /\ [MpNext]_mpVars => MpInv'
<1>1. CASE torn
  <2>1. ASSUME MpNext PROVE torn'
    BY <1>1, <2>1 DEF MpNext, EncSteps, Feed, CloseSource, CloseTarget, Cancel, Top, Waited, WriteZero,
          WritePrefix, TakeTarget, DropTarget, Fill, EncFails, Restart, Read, DecPrefix, DecPayload,
          DecCutOff, DecReturns, Use, EncRest, DecRest
  <2>2. ASSUME UNCHANGED mpVars PROVE torn'
    BY <1>1, <2>2 DEF mpVars
  <2> QED BY <2>1, <2>2, SMTT(40) DEF MpInv
<1>2. CASE ~torn
  <2> SUFFICES ASSUME MpGood, [MpNext]_mpVars PROVE torn' \/ MpGood'
    BY <1>2 DEF MpInv
  <2>1. CASE Feed
    BY <2>1, FeedKeeps
  <2>2. CASE CloseSource \/ CloseTarget \/ Cancel
    BY <2>2, OwnersKeep
  <2>3. CASE EncSteps
    <3>1. CASE Top
      BY <3>1, TopKeeps
    <3>2. CASE Waited
      BY <3>2, WaitedKeeps
    <3>3. CASE WriteZero
      BY <3>3, WriteZeroKeeps
    <3>4. CASE WritePrefix
      BY <3>4, WritePrefixKeeps
    <3>5. CASE TakeTarget
      BY <3>5, TakeTargetKeeps
    <3>6. CASE DropTarget
      BY <3>6, DropTargetKeeps
    <3>7. CASE \E n \in 1..TgtCap : Fill(n)
      BY <3>7, FillKeeps
    <3> QED BY <2>3, <3>1, <3>2, <3>3, <3>4, <3>5, <3>6, <3>7 DEF EncSteps
  <2>4. CASE \E why \in {"error", "eof", "cancelled"} : EncFails(why)
    BY <2>4, EncFailsKeeps
  <2>5. CASE Restart
    <3>1. CASE MidChunk
      BY <2>5, <3>1 DEF Restart
    <3>2. CASE ~MidChunk
      BY <2>5, <3>2, RestartKeeps
    <3> QED BY <3>1, <3>2
  <2>6. CASE \E m \in Mins : Read(m)
    BY <2>6, ReadKeeps
  <2>7. CASE DecPrefix
    BY <2>7, DecPrefixKeeps
  <2>8. CASE DecPayload
    BY <2>8, DecPayloadKeeps
  <2>9. CASE DecCutOff
    BY <2>9, DecCutOffKeeps
  <2>10. CASE DecReturns
    BY <2>10, DecReturnsKeeps
  <2>11. CASE \E k \in 0..TgtCap : Use(k)
    BY <2>11, UseKeeps
  <2>12. CASE UNCHANGED mpVars
    <3>1. /\ feed' = feed /\ fed' = fed /\ src' = src /\ tgt' = tgt /\ dec' = dec /\ got' = got /\ enc' = enc
          /\ srcClosed' = srcClosed /\ tgtClosed' = tgtClosed
      BY <2>12 DEF mpVars
    <3>2. EncState' /\ DecState' /\ Owed' = Owed /\ enc' \in Encs
      BY <3>1 DEF MpGood, MpTypes, EncState, DecState, Owed
    <3> QED BY <3>1, <3>2, Quiet
  <2> QED BY <2>1, <2>2, <2>3, <2>4, <2>5, <2>6, <2>7, <2>8, <2>9, <2>10, <2>11, <2>12 DEF MpNext
<1> QED BY <1>1, <1>2

(* What is on the way between the encoder and the decoder is always a list of
   chunks that carry what was fed in order, of which the encoder knows the end
   and the decoder the beginning, until the encoder is started again in the
   middle of a chunk. *)
THEOREM MpInvariance == MpSpec => []MpInv
<1>1. MpInit => MpInv
  BY MpInvInit
<1>2. MpInv /\ [MpNext]_mpVars => MpInv'
  BY MpInvStep
<1> QED BY <1>1, <1>2, PTL DEF MpSpec

(* The caller of the decoder sees what the source was fed, whatever the size of
   the buffers and of a prefix, wherever either side waits, fails or gives up. *)
THEOREM MultipartIsTransparent == MpSpec => []Transparent
BY MpInvariance, MpInvGives, PTL

-----------------------------------------------------------------------------
(* Handshake frames as bytes: parts of sequences.                          *)

Slice(x, a, e) == SubSeq(x, a + 1, e)
Rest(x, l) == Slice(x, l, Len(x))

(* A part of a sequence. *)
LEMMA PartIs ==
    ASSUME NEW x \in Seq(Nat), NEW m \in Nat, NEW e \in Nat, m >= 1, m <= e + 1, e <= Len(x)
    PROVE  /\ SubSeq(x, m, e) \in Seq(Nat) /\ Len(SubSeq(x, m, e)) = (e - m) + 1
           /\ \A i \in 1..((e - m) + 1) : SubSeq(x, m, e)[i] = x[m + i - 1]
<1>1. SubSeq(x, m, e) \in Seq(Nat)
  BY ONLY x \in Seq(Nat), m \in Nat, e \in Nat, m >= 1, e <= Len(x), SMTT(60)
<1>2. Len(SubSeq(x, m, e)) = (e - m) + 1
  BY ONLY x \in Seq(Nat), m \in Nat, e \in Nat, m <= e + 1, SMTT(60)
<1>3. ASSUME NEW i \in 1..((e - m) + 1) PROVE SubSeq(x, m, e)[i] = x[m + i - 1]
  BY ONLY x \in Seq(Nat), m \in Nat, e \in Nat, m >= 1, e <= Len(x), i \in 1..((e - m) + 1), SMTT(60)
<1> QED BY ONLY <1>1, <1>2, <1>3, Zenon

(* The part between two places. *)
LEMMA SliceIs ==
    ASSUME NEW x \in Seq(Nat), NEW a \in Nat, NEW e \in Nat, a <= e, e <= Len(x)
    PROVE  /\ Slice(x, a, e) \in Seq(Nat) /\ Len(Slice(x, a, e)) = e - a
           /\ \A i \in 1..(e - a) : Slice(x, a, e)[i] = x[a + i]
<1>1. /\ a + 1 \in Nat /\ a + 1 >= 1 /\ a + 1 <= e + 1 /\ (e - (a + 1)) + 1 = e - a
      /\ \A i \in 1..(e - a) : a + 1 + i - 1 = a + i
  BY ONLY a \in Nat, e \in Nat, a <= e
<1>2. PICK m \in Nat : m = a + 1
  BY ONLY <1>1, Zenon
<1>3. /\ m >= 1 /\ m <= e + 1 /\ (e - m) + 1 = e - a
      /\ \A i \in 1..(e - a) : m + i - 1 = a + i
  BY ONLY <1>1, <1>2, Zenon
<1>4. /\ SubSeq(x, m, e) \in Seq(Nat) /\ Len(SubSeq(x, m, e)) = e - a
      /\ \A i \in 1..(e - a) : SubSeq(x, m, e)[i] = x[m + i - 1]
  <2>1. m >= 1 /\ m <= e + 1 /\ (e - m) + 1 = e - a
    BY ONLY <1>3, Zenon
  <2>2. /\ SubSeq(x, m, e) \in Seq(Nat) /\ Len(SubSeq(x, m, e)) = (e - m) + 1
        /\ \A i \in 1..((e - m) + 1) : SubSeq(x, m, e)[i] = x[m + i - 1]
    BY ONLY <2>1, x \in Seq(Nat), m \in Nat, e \in Nat, e <= Len(x), PartIs, Zenon
  <2> QED BY ONLY <2>1, <2>2, Zenon
<1> QED BY ONLY <1>2, <1>3, <1>4, Zenon DEF Slice

(* The rest of a sequence. *)
LEMMA RestIs ==
    ASSUME NEW x \in Seq(Nat), NEW l \in Nat, l <= Len(x)
    PROVE  /\ Rest(x, l) \in Seq(Nat) /\ Len(Rest(x, l)) = Len(x) - l
           /\ \A i \in 1..(Len(x) - l) : Rest(x, l)[i] = x[l + i]
<1>1. Len(x) \in Nat /\ Len(x) <= Len(x)
  OBVIOUS
<1> QED BY ONLY <1>1, x \in Seq(Nat), l \in Nat, l <= Len(x), SliceIs, Zenon DEF Rest

(* Two sequences with the same elements are one. *)
LEMMA SameSequence ==
    ASSUME NEW x \in Seq(Nat), NEW y \in Seq(Nat), Len(x) = Len(y), \A i \in 1..Len(x) : x[i] = y[i]
    PROVE  x = y
OBVIOUS

-----------------------------------------------------------------------------
(* Functions given by a first value and a step.                            *)

StepsBy(S, a, G, m, f) ==
    f \in [0..m -> S] /\ f[0] = a /\ \A k \in 1..m : f[k] = G[k][f[k - 1]]

(* There is one, if every step stays within a set. *)
LEMMA StepsExist ==
    ASSUME NEW S, NEW a \in S, NEW n \in Nat, NEW G \in [1..n -> [S -> S]]
    PROVE  \E f : StepsBy(S, a, G, n, f)
<1> DEFINE T == {m \in Nat : m <= n => \E f : StepsBy(S, a, G, m, f)}
<1>1. 0 \in T
  <2>1. StepsBy(S, a, G, 0, [k \in 0..0 |-> a])
    BY DEF StepsBy
  <2> QED BY <2>1
<1>2. \A m \in Nat : m \in T => m + 1 \in T
  <2> SUFFICES ASSUME NEW m \in Nat, m \in T, m + 1 <= n PROVE \E g : StepsBy(S, a, G, m + 1, g)
    OBVIOUS
  <2>1. PICK f : StepsBy(S, a, G, m, f)
    OBVIOUS
  <2>2. f \in [0..m -> S] /\ f[0] = a /\ \A k \in 1..m : f[k] = G[k][f[k - 1]]
    BY ONLY <2>1 DEF StepsBy
  <2>3. m + 1 \in 1..n /\ m \in 0..m
    OBVIOUS
  <2>4. G[m + 1][f[m]] \in S
    BY ONLY <2>2, <2>3, G \in [1..n -> [S -> S]]
  <2>5. PICK g : g = [k \in 0..(m + 1) |-> IF k <= m THEN f[k] ELSE G[m + 1][f[m]]]
    OBVIOUS
  <2>6. \A k \in 0..m : g[k] = f[k]
    BY ONLY <2>5, m \in Nat
  <2>7. g[m + 1] = G[m + 1][f[m]]
    BY ONLY <2>5, m \in Nat
  <2>8. g \in [0..(m + 1) -> S]
    <3>1. ASSUME NEW k \in 0..(m + 1) PROVE g[k] \in S
      <4>1. k \in 0..m \/ k = m + 1
        OBVIOUS
      <4> QED BY ONLY <2>2, <2>4, <2>6, <2>7, <4>1
    <3> QED BY ONLY <2>5, <3>1
  <2>9. g[0] = a
    BY ONLY <2>2, <2>6, m \in Nat
  <2>10. ASSUME NEW k \in 1..(m + 1) PROVE g[k] = G[k][g[k - 1]]
    <3>1. \/ k \in 1..m /\ k \in 0..m /\ k - 1 \in 0..m
          \/ k = m + 1 /\ k - 1 = m /\ m \in 0..m
      OBVIOUS
    <3> QED BY ONLY <2>2, <2>6, <2>7, <3>1
  <2>11. StepsBy(S, a, G, m + 1, g)
    BY ONLY <2>8, <2>9, <2>10 DEF StepsBy
  <2> QED BY ONLY <2>11
<1> HIDE DEF T
<1>3. n \in T
  BY <1>1, <1>2, Induction
<1> QED BY <1>3 DEF T

-----------------------------------------------------------------------------
(* Numbers as bytes.                                                       *)

Upper(x) == x \div 256
Lower(x) == x % 256

(* A number is its last byte and what is left of it after a shift. *)
LEMMA LowAndHigh == \A x \in Nat : Upper(x) \in Nat /\ Lower(x) \in Nat /\ Upper(x) * 256 + Lower(x) = x
BY Division DEF Upper, Lower

(* What is left of a number after each shift. *)
LEMMA ShiftsAre ==
    ASSUME NEW v \in Nat, NEW w \in Nat
    PROVE  /\ Shifts(v, w) \in [0..w -> Nat]
           /\ Shifts(v, w)[0] = v
           /\ \A k \in 1..w : Shifts(v, w)[k] = Upper(Shifts(v, w)[k - 1])
<1> DEFINE G == [k \in 1..w |-> [x \in Nat |-> Upper(x)]]
           Rec(f) == [i \in 0..w |-> IF i = 0 THEN v ELSE Upper(f[i - 1])]
           P == CHOOSE f : f = Rec(f)
<1>1. G \in [1..w -> [Nat -> Nat]]
  BY LowAndHigh
<1>2. PICK f : StepsBy(Nat, v, G, w, f)
  <2> HIDE DEF G
  <2> QED BY <1>1, StepsExist
<1>3. f \in [0..w -> Nat] /\ f[0] = v /\ \A k \in 1..w : f[k] = G[k][f[k - 1]]
  BY <1>2 DEF StepsBy
<1>4. f = Rec(f)
  <2>1. ASSUME NEW i \in 1..w PROVE f[i] = Upper(f[i - 1])
    <3>1. f[i - 1] \in Nat
      BY <1>3
    <3> QED BY <1>3, <3>1
  <2>2. \A i \in 0..w : f[i] = IF i = 0 THEN v ELSE Upper(f[i - 1])
    <3> TAKE i \in 0..w
    <3>1. i = 0 \/ i \in 1..w
      OBVIOUS
    <3>2. \A k \in 1..w : k # 0
      OBVIOUS
    <3> QED BY ONLY <1>3, <2>1, <3>1, <3>2, Zenon
  <2>3. f = [i \in 0..w |-> f[i]]
    BY ONLY <1>3
  <2> QED BY ONLY <2>2, <2>3, Zenon
<1>5. P = Rec(P)
  BY <1>4
<1>6. Shifts(v, w) = P
  BY DEF Shifts, Upper
<1> HIDE DEF P, G
<1>7. P[0] = v /\ \A k \in 1..w : P[k] = Upper(P[k - 1])
  BY <1>5
<1> DEFINE T == {k \in Nat : k <= w => P[k] \in Nat}
<1>8. \A k \in Nat : k \in T
  <2>1. 0 \in T
    BY <1>7
  <2>2. \A k \in Nat : k \in T => k + 1 \in T
    <3> SUFFICES ASSUME NEW k \in Nat, k \in T, k + 1 <= w PROVE P[k + 1] \in Nat
      OBVIOUS
    <3>1. P[k] \in Nat /\ k + 1 \in 1..w /\ (k + 1) - 1 = k
      OBVIOUS
    <3>2. P[k + 1] = Upper(P[k])
      BY <1>7, <3>1
    <3>3. PICK x \in Nat : x = P[k]
      BY ONLY <3>1
    <3>4. Upper(x) \in Nat
      BY ONLY x \in Nat, LowAndHigh, Zenon
    <3> QED BY ONLY <3>2, <3>3, <3>4, Zenon
  <2> HIDE DEF T
  <2> QED BY <2>1, <2>2, Induction
<1>9. P \in [0..w -> Nat]
  <2>1. \A k \in 0..w : P[k] \in Nat
    BY <1>8
  <2> QED BY <1>5, <2>1
<1> QED BY <1>6, <1>7, <1>9

(* A number written to a width has that many bytes. *)
LEMMA BigEndianIs ==
    ASSUME NEW v \in Nat, NEW w \in Nat
    PROVE  /\ BigEndian(v, w) \in Seq(Nat) /\ Len(BigEndian(v, w)) = w
           /\ \A i \in 1..w : BigEndian(v, w)[i] = Lower(Shifts(v, w)[w - i])
<1>1. ASSUME NEW i \in 1..w PROVE Lower(Shifts(v, w)[w - i]) \in Nat
  <2>1. w - i \in 0..w
    OBVIOUS
  <2>2. Shifts(v, w)[w - i] \in Nat
    BY <2>1, ShiftsAre
  <2> QED BY <2>2, LowAndHigh
<1> QED BY <1>1 DEF BigEndian, Lower

(* Reading bytes as a number. *)
LEMMA DecodeIs ==
    ASSUME NEW bytes \in Seq(Nat)
    PROVE  \E f : /\ f \in [0..Len(bytes) -> Nat] /\ f[0] = 0
                  /\ \A k \in 1..Len(bytes) : f[k] = f[k - 1] * 256 + bytes[k]
                  /\ DecodeValue(bytes) = f[Len(bytes)]
<1> DEFINE n == Len(bytes)
           G == [k \in 1..n |-> [x \in Nat |-> x * 256 + bytes[k]]]
           Rec(f) == [i \in 0..n |-> IF i = 0 THEN 0 ELSE f[i - 1] * 256 + bytes[i]]
           P == CHOOSE f : f = Rec(f)
<1>0. n \in Nat /\ \A k \in 1..n : bytes[k] \in Nat
  OBVIOUS
<1>1. G \in [1..n -> [Nat -> Nat]]
  BY <1>0
<1>2. PICK f : StepsBy(Nat, 0, G, n, f)
  <2> HIDE DEF G, n
  <2> QED BY <1>0, <1>1, StepsExist
<1>3. f \in [0..n -> Nat] /\ f[0] = 0 /\ \A k \in 1..n : f[k] = G[k][f[k - 1]]
  BY <1>2 DEF StepsBy
<1> HIDE DEF n
<1>4. f = Rec(f)
  <2>1. ASSUME NEW i \in 1..n PROVE f[i] = f[i - 1] * 256 + bytes[i]
    <3>1. f[i - 1] \in Nat
      BY <1>0, <1>3
    <3> QED BY <1>3, <3>1
  <2> HIDE DEF G
  <2> QED BY <1>3, <2>1
<1>5. P = Rec(P)
  BY <1>4, ZenonT(60)
<1>6. DecodeValue(bytes) = P[n]
  BY DEF DecodeValue, n
<1> HIDE DEF P, G
<1>7. P[0] = 0 /\ \A k \in 1..n : P[k] = P[k - 1] * 256 + bytes[k]
  BY <1>0, <1>5
<1> DEFINE T == {k \in Nat : k <= n => P[k] \in Nat}
<1>8. \A k \in Nat : k \in T
  <2>1. 0 \in T
    BY <1>7
  <2>2. \A k \in Nat : k \in T => k + 1 \in T
    <3> SUFFICES ASSUME NEW k \in Nat, k \in T, k + 1 <= n PROVE P[k + 1] \in Nat
      OBVIOUS
    <3>1. P[k] \in Nat /\ k + 1 \in 1..n /\ (k + 1) - 1 = k
      BY <1>0
    <3>2. P[k + 1] = P[k] * 256 + bytes[k + 1] /\ bytes[k + 1] \in Nat
      BY ONLY <1>0, <1>7, <3>1
    <3> QED BY ONLY <3>1, <3>2
  <2> HIDE DEF T
  <2> QED BY <2>1, <2>2, Induction
<1>9. P \in [0..n -> Nat]
  <2>1. \A k \in 0..n : P[k] \in Nat
    BY <1>0, <1>8
  <2> QED BY <1>5, <2>1
<1> QED BY <1>6, <1>7, <1>9 DEF n

(* A number that fits its width is read as it was written. *)
LEMMA NumberRoundTrip ==
    ASSUME NEW v \in Nat, NEW w \in Nat, Shifts(v, w)[w] = 0,
           NEW bytes \in Seq(Nat), Len(bytes) = w, \A i \in 1..w : bytes[i] = BigEndian(v, w)[i]
    PROVE  DecodeValue(bytes) = v
<1>1. PICK f : /\ f \in [0..w -> Nat] /\ f[0] = 0
               /\ \A k \in 1..w : f[k] = f[k - 1] * 256 + bytes[k]
               /\ DecodeValue(bytes) = f[w]
  BY DecodeIs
<1>2. PICK s : /\ s \in [0..w -> Nat] /\ s[0] = v /\ s[w] = 0 /\ s = Shifts(v, w)
               /\ \A k \in 1..w : s[k] = Upper(s[k - 1])
  <2>1. /\ Shifts(v, w) \in [0..w -> Nat] /\ Shifts(v, w)[0] = v
        /\ \A k \in 1..w : Shifts(v, w)[k] = Upper(Shifts(v, w)[k - 1])
    BY ONLY v \in Nat, w \in Nat, ShiftsAre
  <2> QED BY ONLY <2>1, Shifts(v, w)[w] = 0, Zenon
<1>3. \A i \in 1..w : bytes[i] = Lower(s[w - i])
  <2>1. \A i \in 1..w : BigEndian(v, w)[i] = Lower(Shifts(v, w)[w - i])
    BY ONLY BigEndianIs, v \in Nat, w \in Nat
  <2> QED BY ONLY <1>2, <2>1, \A i \in 1..w : bytes[i] = BigEndian(v, w)[i]
<1> DEFINE T == {k \in Nat : k <= w => f[k] = s[w - k]}
<1>4. 0 \in T
  BY ONLY <1>1, <1>2, w \in Nat
<1>5. \A k \in Nat : k \in T => k + 1 \in T
  <2> SUFFICES ASSUME NEW k \in Nat, k \in T, k + 1 <= w PROVE f[k + 1] = s[w - (k + 1)]
    OBVIOUS
  <2>1. /\ f[k] = s[w - k] /\ k + 1 \in 1..w /\ (k + 1) - 1 = k /\ w - k \in 1..w
        /\ (w - k) - 1 = w - (k + 1) /\ w - (k + 1) \in 0..w
    BY ONLY w \in Nat, k \in Nat, k \in T, k + 1 <= w
  <2>2. PICK q \in Nat : q = s[w - (k + 1)]
    BY ONLY <1>2, <2>1
  <2>3. s[w - k] = Upper(q)
    BY ONLY <1>2, <2>1, <2>2
  <2>4. bytes[k + 1] = Lower(q)
    BY ONLY <1>3, <2>1, <2>2
  <2>5. f[k + 1] = f[k] * 256 + bytes[k + 1]
    BY ONLY <1>1, <2>1, SMTT(40)
  <2>6. Upper(q) * 256 + Lower(q) = q
    BY ONLY q \in Nat, LowAndHigh
  <2> QED BY ONLY <2>1, <2>2, <2>3, <2>4, <2>5, <2>6
<1> HIDE DEF T
<1>6. w \in T
  BY ONLY <1>4, <1>5, w \in Nat, Induction
<1>7. f[w] = s[0]
  BY ONLY <1>6, w \in Nat DEF T
<1> QED BY ONLY <1>1, <1>2, <1>7

(* One byte more of a checksum. *)
Mixed(x, y) == (x * 31 + y) % 65521

(* A checksum is as long as its trailer says. *)
LEMMA ChecksumIs ==
    ASSUME NEW bytes \in Seq(Nat), NEW w \in Nat
    PROVE  Checksum(bytes, w) \in Seq(Nat) /\ Len(Checksum(bytes, w)) = w
<1> DEFINE n == Len(bytes)
           G == [k \in 1..n |-> [x \in Nat |-> Mixed(x, bytes[k])]]
           Rec(f) == [i \in 0..n |-> IF i = 0 THEN 0 ELSE Mixed(f[i - 1], bytes[i])]
           P == CHOOSE f : f = Rec(f)
<1>0. n \in Nat /\ \A k \in 1..n : bytes[k] \in Nat
  OBVIOUS
<1>a. \A x \in Nat, y \in Nat : Mixed(x, y) \in Nat
  <2> TAKE x \in Nat, y \in Nat
  <2>1. x * 31 + y \in Nat /\ 65521 \in Nat /\ 65521 > 0
    OBVIOUS
  <2> QED BY ONLY <2>1, Division DEF Mixed
<1>1. G \in [1..n -> [Nat -> Nat]]
  <2>1. \A k \in 1..n : \A x \in Nat : Mixed(x, bytes[k]) \in Nat
    BY ONLY <1>0, <1>a
  <2> QED BY ONLY <2>1
<1>2. PICK f : StepsBy(Nat, 0, G, n, f)
  <2> HIDE DEF G, n
  <2> QED BY <1>0, <1>1, StepsExist
<1>3. f \in [0..n -> Nat] /\ f[0] = 0 /\ \A k \in 1..n : f[k] = G[k][f[k - 1]]
  <2> HIDE DEF G, n
  <2> QED BY ONLY <1>2 DEF StepsBy
<1> HIDE DEF n
<1>4. f = Rec(f)
  <2>1. ASSUME NEW i \in 1..n PROVE f[i] = Mixed(f[i - 1], bytes[i])
    <3>1. f[i - 1] \in Nat
      BY <1>0, <1>3
    <3>2. G[i][f[i - 1]] = Mixed(f[i - 1], bytes[i])
      BY ONLY <3>1, i \in 1..n
    <3> QED BY ONLY <1>3, <3>2, i \in 1..n
  <2> HIDE DEF G
  <2> QED BY ONLY <1>0, <1>3, <2>1
<1>5. P = Rec(P)
  BY ONLY <1>4, Zenon
<1>6. Checksum(bytes, w) = BigEndian(P[n], w)
  BY DEF Checksum, n, Mixed
<1> HIDE DEF P, G
<1>7. P[0] = 0 /\ \A k \in 1..n : P[k] = Mixed(P[k - 1], bytes[k])
  BY ONLY <1>0, <1>5
<1> DEFINE T == {k \in Nat : k <= n => P[k] \in Nat}
<1>8. \A k \in Nat : k \in T
  <2>1. 0 \in T
    BY ONLY <1>7
  <2>2. \A k \in Nat : k \in T => k + 1 \in T
    <3> SUFFICES ASSUME NEW k \in Nat, k \in T, k + 1 <= n PROVE P[k + 1] \in Nat
      OBVIOUS
    <3>1. P[k] \in Nat /\ k + 1 \in 1..n /\ (k + 1) - 1 = k
      BY <1>0
    <3>2. P[k + 1] = Mixed(P[k], bytes[k + 1]) /\ bytes[k + 1] \in Nat
      BY ONLY <1>0, <1>7, <3>1
    <3> QED BY ONLY <1>a, <3>1, <3>2
  <2> HIDE DEF T
  <2> QED BY <2>1, <2>2, Induction
<1>9. P[n] \in Nat
  BY ONLY <1>0, <1>8
<1> QED BY <1>6, <1>9, BigEndianIs

-----------------------------------------------------------------------------
(* A frame as it is laid out.                                              *)

(* The four magics are four bytes each, and different. *)
LEMMA MagicIs ==
    /\ \A m \in Magic : MagicBytes[m] \in Seq(Nat) /\ Len(MagicBytes[m]) = 4
    /\ \A m \in Magic : MagicBytes[m] = MagicBytes["ACCEPT"] => m = "ACCEPT"
<1>1. /\ <<95, 27, 1, 105>> \in Seq(Nat) /\ Len(<<95, 27, 1, 105>>) = 4
      /\ <<95, 27, 1, 65>> \in Seq(Nat) /\ Len(<<95, 27, 1, 65>>) = 4
      /\ <<95, 27, 1, 74>> \in Seq(Nat) /\ Len(<<95, 27, 1, 74>>) = 4
      /\ <<95, 27, 1, 99>> \in Seq(Nat) /\ Len(<<95, 27, 1, 99>>) = 4
  OBVIOUS
<1>2. /\ <<95, 27, 1, 105>>[4] = 105 /\ <<95, 27, 1, 65>>[4] = 65
      /\ <<95, 27, 1, 74>>[4] = 74 /\ <<95, 27, 1, 99>>[4] = 99
  OBVIOUS
<1>3. /\ MagicBytes["INVITE"] = <<95, 27, 1, 105>> /\ MagicBytes["ACCEPT"] = <<95, 27, 1, 65>>
      /\ MagicBytes["REJECT"] = <<95, 27, 1, 74>> /\ MagicBytes["CONFRM"] = <<95, 27, 1, 99>>
  BY DEF MagicBytes
<1>4. ASSUME NEW m \in Magic PROVE m = "INVITE" \/ m = "ACCEPT" \/ m = "REJECT" \/ m = "CONFRM"
  BY DEF Magic
<1>5. ASSUME NEW m \in Magic PROVE MagicBytes[m] \in Seq(Nat) /\ Len(MagicBytes[m]) = 4
  <2>1. m = "INVITE" \/ m = "ACCEPT" \/ m = "REJECT" \/ m = "CONFRM"
    BY <1>4
  <2>2. CASE m = "INVITE"
    BY ONLY <1>1, <1>3, <2>2
  <2>3. CASE m = "ACCEPT"
    BY ONLY <1>1, <1>3, <2>3, ZenonT(60)
  <2>4. CASE m = "REJECT"
    BY ONLY <1>1, <1>3, <2>4, ZenonT(60)
  <2>5. CASE m = "CONFRM"
    BY ONLY <1>1, <1>3, <2>5, ZenonT(60)
  <2> QED BY ONLY <2>1, <2>2, <2>3, <2>4, <2>5
<1>6. ASSUME NEW m \in Magic, MagicBytes[m] = MagicBytes["ACCEPT"] PROVE m = "ACCEPT"
  <2>2. MagicBytes["INVITE"] # MagicBytes["ACCEPT"]
    BY ONLY <1>2, <1>3
  <2>3. MagicBytes["REJECT"] # MagicBytes["ACCEPT"]
    BY ONLY <1>2, <1>3
  <2>4. MagicBytes["CONFRM"] # MagicBytes["ACCEPT"]
    BY ONLY <1>2, <1>3
  <2> QED BY ONLY <1>4, <1>6, <2>2, <2>3, <2>4, m \in Magic, Zenon
<1> QED BY ONLY <1>5, <1>6, Zenon

HeaderOf(f) == WidthCode[f.width] + f.key

(* An entry is a header byte and the number behind it. *)
LEMMA EntryIs ==
    ASSUME NEW f \in Field
    PROVE  /\ EntryBytes(f) \in Seq(Nat) /\ Len(EntryBytes(f)) = 1 + f.width
           /\ EntryBytes(f)[1] = HeaderOf(f)
           /\ \A i \in 1..f.width : EntryBytes(f)[1 + i] = BigEndian(f.value, f.width)[i]
           /\ f.width \in Nat /\ f.width > 0 /\ f.value \in Nat /\ HeaderOf(f) \in Nat
<1>1. f.width \in {1, 2, 4, 8} /\ f.value \in Nat /\ f.key \in 0..15
  BY DEF Field
<1>2. WidthCode[f.width] \in Nat
  BY <1>1 DEF WidthCode
<1>3. PICK h \in Nat : h = HeaderOf(f)
  BY <1>1, <1>2 DEF HeaderOf
<1>4. PICK w \in Nat : w = f.width /\ w > 0
  BY <1>1
<1>5. PICK y \in Seq(Nat) : y = BigEndian(f.value, f.width) /\ Len(y) = w
  BY <1>1, <1>4, BigEndianIs
<1>6. EntryBytes(f) = <<h>> \o y
  BY <1>3, <1>5 DEF EntryBytes, HeaderOf
<1>7. <<h>> \in Seq(Nat) /\ Len(<<h>>) = 1 /\ <<h>>[1] = h
  OBVIOUS
<1>8. /\ <<h>> \o y \in Seq(Nat) /\ Len(<<h>> \o y) = 1 + w
      /\ (<<h>> \o y)[1] = h
      /\ \A i \in 1..w : (<<h>> \o y)[1 + i] = y[i]
  BY ONLY <1>4, <1>5, <1>7, h \in Nat
<1> QED BY <1>1, <1>3, <1>4, <1>5, <1>6, <1>8

(* Where the magic and the first i entries end. *)
Place(magic, fs, i) == Len(Laid(magic, fs)[i])

(* They are laid out one behind the other. *)
LEMMA LaidIs ==
    ASSUME NEW magic \in Magic, NEW fs \in Seq(Field)
    PROVE  /\ Laid(magic, fs) \in [0..Len(fs) -> Seq(Nat)]
           /\ Laid(magic, fs)[0] = MagicBytes[magic]
           /\ \A k \in 1..Len(fs) : Laid(magic, fs)[k] = Laid(magic, fs)[k - 1] \o EntryBytes(fs[k])
<1> DEFINE n == Len(fs)
           S == Seq(Nat)
           G == [k \in 1..n |-> [x \in S |-> x \o EntryBytes(fs[k])]]
           Rec(f) == [i \in 0..n |-> IF i = 0 THEN MagicBytes[magic] ELSE f[i - 1] \o EntryBytes(fs[i])]
           P == CHOOSE f : f = Rec(f)
<1>0. n \in Nat /\ \A k \in 1..n : EntryBytes(fs[k]) \in S
  <2>1. \A k \in 1..n : fs[k] \in Field
    OBVIOUS
  <2> QED BY <2>1, EntryIs
<1>1. G \in [1..n -> [S -> S]]
  <2>1. \A k \in 1..n : \A x \in S : x \o EntryBytes(fs[k]) \in S
    BY <1>0
  <2> HIDE DEF S, n
  <2> QED BY ONLY <2>1
<1>2. PICK f : StepsBy(S, MagicBytes[magic], G, n, f)
  <2>1. MagicBytes[magic] \in S
    BY MagicIs
  <2> HIDE DEF G, n, S
  <2> QED BY <1>0, <1>1, <2>1, StepsExist
<1> HIDE DEF n, S
<1>3. f \in [0..n -> S] /\ f[0] = MagicBytes[magic] /\ \A k \in 1..n : f[k] = G[k][f[k - 1]]
  <2> HIDE DEF G
  <2> QED BY ONLY <1>2 DEF StepsBy
<1>4. f = Rec(f)
  <2>1. ASSUME NEW i \in 1..n PROVE f[i] = f[i - 1] \o EntryBytes(fs[i])
    <3>1. i - 1 \in 0..n
      BY <1>0
    <3>2. f[i - 1] \in S
      BY ONLY <1>3, <3>1
    <3>3. G[i][f[i - 1]] = f[i - 1] \o EntryBytes(fs[i])
      BY ONLY <3>2, i \in 1..n, Zenon
    <3> HIDE DEF G
    <3> QED BY ONLY <1>3, <3>3, i \in 1..n, Zenon
  <2>2. \A i \in 0..n : f[i] = IF i = 0 THEN MagicBytes[magic] ELSE f[i - 1] \o EntryBytes(fs[i])
    <3> TAKE i \in 0..n
    <3>1. i = 0 \/ i \in 1..n
      BY <1>0
    <3>2. \A k \in 1..n : k # 0
      BY <1>0
    <3> QED BY ONLY <1>3, <2>1, <3>1, <3>2, Zenon
  <2>3. f = [i \in 0..n |-> f[i]]
    BY ONLY <1>3
  <2> QED BY ONLY <2>2, <2>3, Zenon
<1>5. P = Rec(P)
  BY ONLY <1>4, Zenon
<1>6. Laid(magic, fs) = P
  BY DEF Laid, n
<1> HIDE DEF P, G
<1>7. P[0] = MagicBytes[magic] /\ \A k \in 1..n : P[k] = P[k - 1] \o EntryBytes(fs[k])
  <2>1. 0 \in 0..n /\ \A k \in 1..n : k # 0 /\ k \in 0..n
    BY <1>0
  <2> QED BY ONLY <1>5, <2>1, Zenon
<1> DEFINE T == {k \in Nat : k <= n => P[k] \in S}
<1>8. \A k \in Nat : k \in T
  <2>1. 0 \in T
    BY <1>7, MagicIs DEF S
  <2>2. \A k \in Nat : k \in T => k + 1 \in T
    <3> SUFFICES ASSUME NEW k \in Nat, k \in T, k + 1 <= n PROVE P[k + 1] \in S
      OBVIOUS
    <3>1. P[k] \in S /\ k + 1 \in 1..n /\ (k + 1) - 1 = k
      BY <1>0
    <3>2. P[k + 1] = P[k] \o EntryBytes(fs[k + 1]) /\ EntryBytes(fs[k + 1]) \in S
      BY ONLY <1>0, <1>7, <3>1
    <3> QED BY ONLY <3>1, <3>2 DEF S
  <2> HIDE DEF T
  <2> QED BY <2>1, <2>2, Induction
<1>9. P \in [0..n -> S]
  <2>1. \A k \in 0..n : P[k] \in S
    BY <1>0, <1>8
  <2>2. P = [i \in 0..n |-> P[i]]
    BY ONLY <1>5
  <2> QED BY ONLY <2>1, <2>2
<1> QED BY ONLY <1>6, <1>7, <1>9 DEF n, S

(* Where an entry begins and ends, and what is there. *)
LEMMA EntryLaid ==
    ASSUME NEW magic \in Magic, NEW fs \in Seq(Field), NEW k \in 1..Len(fs)
    PROVE  /\ Place(magic, fs, k - 1) \in Nat
           /\ Place(magic, fs, k) = Place(magic, fs, k - 1) + 1 + fs[k].width
           /\ \A q \in 1..Place(magic, fs, k - 1) : Laid(magic, fs)[k][q] = Laid(magic, fs)[k - 1][q]
           /\ Laid(magic, fs)[k][Place(magic, fs, k - 1) + 1] = HeaderOf(fs[k])
           /\ \A i \in 1..fs[k].width :
                 Laid(magic, fs)[k][Place(magic, fs, k - 1) + 1 + i] = BigEndian(fs[k].value, fs[k].width)[i]
<1>1. k - 1 \in 0..Len(fs) /\ fs[k] \in Field
  OBVIOUS
<1>2. PICK x \in Seq(Nat) : x = Laid(magic, fs)[k - 1]
  BY <1>1, LaidIs
<1>3. PICK y \in Seq(Nat) : y = EntryBytes(fs[k])
  BY <1>1, EntryIs
<1>4. Laid(magic, fs)[k] = x \o y
  <2>1. \A j \in 1..Len(fs) : Laid(magic, fs)[j] = Laid(magic, fs)[j - 1] \o EntryBytes(fs[j])
    BY ONLY magic \in Magic, fs \in Seq(Field), LaidIs, Zenon
  <2> QED BY ONLY <1>2, <1>3, <2>1, k \in 1..Len(fs), Zenon
<1>5. PICK w \in Nat : w = fs[k].width /\ w > 0 /\ Len(y) = 1 + w
  BY <1>1, <1>3, EntryIs
<1>6. y[1] = HeaderOf(fs[k]) /\ \A i \in 1..w : y[1 + i] = BigEndian(fs[k].value, fs[k].width)[i]
  BY <1>1, <1>3, <1>5, EntryIs
<1>7. /\ Len(x) \in Nat /\ Len(x \o y) = Len(x) + 1 + w
      /\ \A q \in 1..Len(x) : (x \o y)[q] = x[q]
      /\ (x \o y)[Len(x) + 1] = y[1]
      /\ \A i \in 1..w : (x \o y)[Len(x) + 1 + i] = y[1 + i]
  <2>1. Len(x) \in Nat
    OBVIOUS
  <2>2. /\ Len(x \o y) = Len(x) + Len(y)
        /\ \A i \in 1 .. Len(x) + Len(y) : (x \o y)[i] = IF i <= Len(x) THEN x[i] ELSE y[i - Len(x)]
    BY ONLY x \in Seq(Nat), y \in Seq(Nat), Concat
  <2>3. PICK z : z = x \o y
    OBVIOUS
  <2>4. PICK l \in Nat : l = Len(x)
    BY <2>1
  <2>5. \A i \in 1..(l + 1 + w) : z[i] = IF i <= l THEN x[i] ELSE y[i - l]
    BY ONLY <1>5, <2>2, <2>3, <2>4, SMTT(40)
  <2>6. \A q \in 1..l : z[q] = x[q]
    BY ONLY <2>5, l \in Nat, w \in Nat
  <2>7. z[l + 1] = y[1]
    BY ONLY <2>5, l \in Nat, w \in Nat
  <2>8. \A i \in 1..w : z[l + 1 + i] = y[1 + i]
    <3> TAKE i \in 1..w
    <3>1. l + 1 + i \in 1..(l + 1 + w) /\ ~(l + 1 + i <= l) /\ (l + 1 + i) - l = 1 + i
      BY ONLY l \in Nat, w \in Nat, i \in 1..w
    <3> QED BY ONLY <2>5, <3>1
  <2>9. Len(z) = l + 1 + w
    <3>1. Len(z) = Len(x) + Len(y)
      BY ONLY <2>2, <2>3, Zenon
    <3>2. PICK ly \in Nat : ly = Len(y) /\ ly = 1 + w
      BY ONLY <1>5, y \in Seq(Nat), w \in Nat
    <3>3. Len(z) = l + ly
      BY ONLY <2>4, <3>1, <3>2, Zenon
    <3>4. l + ly = l + 1 + w
      BY ONLY <3>2, l \in Nat, w \in Nat
    <3> QED BY ONLY <3>3, <3>4, Zenon
  <2> QED BY ONLY <2>3, <2>4, <2>6, <2>7, <2>8, <2>9
<1>8. Place(magic, fs, k - 1) = Len(x) /\ Place(magic, fs, k) = Len(x \o y)
  BY <1>2, <1>4 DEF Place
<1> QED BY ONLY <1>2, <1>4, <1>5, <1>6, <1>7, <1>8

(* The layout of a frame only grows, by two bytes an entry at least. *)
LEMMA LaidGrows ==
    ASSUME NEW magic \in Magic, NEW fs \in Seq(Field), NEW i \in 0..Len(fs), NEW j \in i..Len(fs)
    PROVE  /\ Place(magic, fs, i) \in Nat /\ Place(magic, fs, j) \in Nat
           /\ Place(magic, fs, j) >= Place(magic, fs, i) + 2 * (j - i)
           /\ \A q \in 1..Place(magic, fs, i) : Laid(magic, fs)[j][q] = Laid(magic, fs)[i][q]
<1> DEFINE n == Len(fs)
           P(k) == Place(magic, fs, k)
           L == Laid(magic, fs)
           T == {d \in Nat : i + d <= n => /\ P(i + d) >= P(i) + 2 * d
                                          /\ \A q \in 1..P(i) : L[i + d][q] = L[i][q]}
<1>0. n \in Nat /\ i \in Nat /\ j \in Nat /\ i <= j /\ j <= n
  OBVIOUS
<1>1. \A k \in 0..n : P(k) \in Nat
  <2> TAKE k \in 0..n
  <2>1. L[k] \in Seq(Nat)
    BY LaidIs
  <2> QED BY ONLY <2>1 DEF Place
<1>2. \A k \in 1..n : /\ P(k) >= P(k - 1) + 2
                      /\ \A q \in 1..P(k - 1) : L[k][q] = L[k - 1][q]
  <2> TAKE k \in 1..n
  <2>1. fs[k] \in Field
    OBVIOUS
  <2>2. fs[k].width \in Nat /\ fs[k].width > 0
    BY ONLY <2>1, EntryIs
  <2>3. P(k - 1) \in Nat /\ P(k) = P(k - 1) + 1 + fs[k].width /\ \A q \in 1..P(k - 1) : L[k][q] = L[k - 1][q]
    BY ONLY EntryLaid, magic \in Magic, fs \in Seq(Field), k \in 1..n, Zenon
  <2> HIDE DEF P, L
  <2> QED BY ONLY <2>2, <2>3
<1> HIDE DEF P, L, n
<1>3. 0 \in T
  BY ONLY <1>0, <1>1
<1>4. \A d \in Nat : d \in T => d + 1 \in T
  <2> SUFFICES ASSUME NEW d \in Nat, d \in T, i + (d + 1) <= n
               PROVE  /\ P(i + (d + 1)) >= P(i) + 2 * (d + 1)
                      /\ \A q \in 1..P(i) : L[i + (d + 1)][q] = L[i][q]
    OBVIOUS
  <2>1. PICK k \in 1..n : k = i + (d + 1) /\ k - 1 = i + d /\ k - 1 \in 0..n /\ i \in 0..n /\ i + d <= n
    BY ONLY <1>0, d \in Nat, i + (d + 1) <= n
  <2>2. P(k - 1) >= P(i) + 2 * d /\ \A q \in 1..P(i) : L[k - 1][q] = L[i][q]
    BY ONLY d \in T, <2>1
  <2>3. P(k) \in Nat /\ P(k - 1) \in Nat /\ P(i) \in Nat
    BY ONLY <1>1, <2>1
  <2>4. P(k) >= P(k - 1) + 2 /\ \A q \in 1..P(k - 1) : L[k][q] = L[k - 1][q]
    BY ONLY <1>2, <2>1
  <2>5. P(k) >= P(i) + 2 * (d + 1)
    BY ONLY <2>2, <2>3, <2>4, d \in Nat
  <2>6. ASSUME NEW q \in 1..P(i) PROVE L[k][q] = L[i][q]
    <3>1. q \in 1..P(k - 1)
      BY ONLY <2>2, <2>3, q \in 1..P(i), d \in Nat
    <3> QED BY ONLY <2>2, <2>4, <3>1, q \in 1..P(i)
  <2> QED BY ONLY <2>1, <2>5, <2>6
<1> HIDE DEF T
<1>5. j - i \in T
  <2>1. j - i \in Nat
    BY ONLY <1>0
  <2> QED BY ONLY <1>3, <1>4, <2>1, Induction
<1>6. i + (j - i) = j /\ i \in 0..n /\ j \in 0..n
  BY ONLY <1>0
<1>7. P(j) >= P(i) + 2 * (j - i) /\ \A q \in 1..P(i) : L[j][q] = L[i][q]
  BY ONLY <1>0, <1>5, <1>6 DEF T
<1>8. P(i) \in Nat /\ P(j) \in Nat
  BY ONLY <1>1, <1>6
<1> QED BY ONLY <1>7, <1>8 DEF P, L

(* A whole frame: the entries, the header of the trailer, and the checksum of
   all before it. *)
LEMMA FrameIs ==
    ASSUME NEW magic \in Magic, NEW fs \in Seq(Field), NEW header \in Nat
    PROVE  LET b == BuildFrame(magic, fs, header)
               end == Place(magic, fs, Len(fs))
           IN  /\ b \in Seq(Nat) /\ end \in Nat /\ end >= 4
               /\ Len(b) = end + 1 + TrailerLen(header)
               /\ \A q \in 1..end : b[q] = Laid(magic, fs)[Len(fs)][q]
               /\ b[end + 1] = header
               /\ SubSeq(b, end + 2, Len(b)) = Checksum(SubSeq(b, 1, end + 1), TrailerLen(header))
<1>0. Len(fs) \in Nat /\ 0 \in 0..Len(fs) /\ Len(fs) \in 0..Len(fs) /\ Len(fs) - 0 >= 0
  OBVIOUS
<1>1. PICK x \in Seq(Nat) : x = Laid(magic, fs)[Len(fs)]
  BY <1>0, LaidIs
<1>2. PICK e \in Nat : e = Len(x)
  OBVIOUS
<1>3. PICK t \in Nat : t = TrailerLen(header) /\ t \in {2, 4}
  BY DEF TrailerLen
<1>a. <<header>> \in Seq(Nat) /\ Len(<<header>>) = 1 /\ <<header>>[1] = header
  OBVIOUS
<1>4. PICK body \in Seq(Nat) : body = x \o <<header>>
  <2>1. x \o <<header>> \in Seq(Nat)
    BY ONLY <1>a, x \in Seq(Nat), Concat
  <2> QED BY ONLY <2>1, Zenon
<1>5. PICK c \in Seq(Nat) : c = Checksum(body, t) /\ Len(c) = t
  BY ChecksumIs
<1>6. BuildFrame(magic, fs, header) = body \o c
  BY <1>1, <1>3, <1>4, <1>5 DEF BuildFrame
<1>7. Place(magic, fs, Len(fs)) = e
  BY <1>1, <1>2 DEF Place
<1>8. e >= 4
  <2>1. Len(fs) \in 0..Len(fs) /\ 0 \in 0..Len(fs)
    BY <1>0
  <2>2. Place(magic, fs, 0) \in Nat /\ Place(magic, fs, Len(fs)) >= Place(magic, fs, 0) + 2 * (Len(fs) - 0)
    BY <2>1, LaidGrows
  <2>3. Laid(magic, fs)[0] = MagicBytes[magic]
    BY LaidIs
  <2>4. Place(magic, fs, 0) = 4
    BY <2>3, MagicIs DEF Place
  <2> QED BY ONLY <1>0, <1>7, <2>2, <2>4
<1>9. Len(body) = e + 1 /\ body[e + 1] = header /\ \A q \in 1..e : body[q] = x[q]
  <2> QED BY ONLY <1>2, <1>4, <1>a, x \in Seq(Nat), Concat
<1>10. PICK b \in Seq(Nat) : b = body \o c
  <2>1. body \o c \in Seq(Nat)
    BY ONLY body \in Seq(Nat), c \in Seq(Nat), Concat
  <2> QED BY ONLY <2>1, Zenon
<1>11. /\ Len(b) = e + 1 + t
       /\ \A q \in 1..(e + 1 + t) : b[q] = IF q <= e + 1 THEN body[q] ELSE c[q - (e + 1)]
  <2>1. /\ Len(b) = Len(body) + Len(c)
        /\ \A q \in 1..(Len(body) + Len(c)) : b[q] = IF q <= Len(body) THEN body[q] ELSE c[q - Len(body)]
    BY ONLY <1>10, body \in Seq(Nat), c \in Seq(Nat), Concat, Zenon
  <2>2. PICK m \in Nat : m = e + 1 /\ m = Len(body)
    BY ONLY <1>9, e \in Nat
  <2>3. Len(b) = m + t /\ \A q \in 1..(m + t) : b[q] = IF q <= m THEN body[q] ELSE c[q - m]
    BY ONLY <1>5, <2>1, <2>2
  <2> QED BY ONLY <2>2, <2>3
<1>12. \A q \in 1..(e + 1) : b[q] = body[q]
  BY ONLY <1>11, e \in Nat, t \in Nat, SMTT(60)
<1>13. SubSeq(b, 1, e + 1) = body
  BY ONLY <1>9, <1>11, <1>12, e \in Nat, t \in Nat, b \in Seq(Nat), body \in Seq(Nat)
<1>14. SubSeq(b, e + 2, Len(b)) = c
  <2>1. \A q \in 1..t : b[(e + 1) + q] = c[q]
    <3> TAKE q \in 1..t
    <3>1. (e + 1) + q \in 1..(e + 1 + t) /\ ~((e + 1) + q <= e + 1) /\ ((e + 1) + q) - (e + 1) = q
      BY ONLY e \in Nat, t \in Nat, q \in 1..t
    <3> QED BY ONLY <1>11, <3>1
  <2>2. PICK z : z = Slice(b, e + 1, e + 1 + t)
    OBVIOUS
  <2>3. /\ e + 1 \in Nat /\ e + 1 + t \in Nat /\ e + 1 <= e + 1 + t /\ e + 1 + t <= Len(b)
        /\ (e + 1 + t) - (e + 1) = t /\ (e + 1) + 1 = e + 2
    BY ONLY <1>11, e \in Nat, t \in Nat
  <2>4. /\ Slice(b, e + 1, e + 1 + t) \in Seq(Nat)
        /\ Len(Slice(b, e + 1, e + 1 + t)) = (e + 1 + t) - (e + 1)
        /\ \A q \in 1..((e + 1 + t) - (e + 1)) : Slice(b, e + 1, e + 1 + t)[q] = b[(e + 1) + q]
    BY ONLY <2>3, b \in Seq(Nat), SliceIs, Zenon
  <2>5. z \in Seq(Nat) /\ Len(z) = t /\ \A q \in 1..t : z[q] = c[q]
    BY ONLY <2>1, <2>2, <2>3, <2>4, Zenon
  <2>6. z = c
    BY ONLY <1>5, <2>5, c \in Seq(Nat), SameSequence, Zenon
  <2>7. z = SubSeq(b, e + 2, Len(b))
    BY ONLY <1>11, <2>2, <2>3, Zenon DEF Slice
  <2> QED BY ONLY <2>6, <2>7, Zenon
<1>15. \A q \in 1..e : b[q] = Laid(magic, fs)[Len(fs)][q]
  <2> TAKE q \in 1..e
  <2>1. q \in 1..(e + 1)
    BY ONLY e \in Nat, q \in 1..e
  <2> QED BY ONLY <1>1, <1>9, <1>12, <2>1, q \in 1..e
<1>16. b[e + 1] = header
  BY ONLY <1>9, <1>12, e \in Nat
<1>17. SubSeq(b, e + 2, Len(b)) = Checksum(SubSeq(b, 1, e + 1), t)
  BY ONLY <1>5, <1>13, <1>14
<1> QED BY ONLY <1>3, <1>6, <1>7, <1>8, <1>10, <1>11, <1>15, <1>16, <1>17, e \in Nat, b \in Seq(Nat), Zenon

-----------------------------------------------------------------------------
(* The parser's loop.                                                      *)

Errors == {"more", "FrameTooLarge", "UnsupportedOption", "ChecksumErr", "MalformedBody"}
Outs == [tag : Errors \cup {"NeedMore", "ok"}, entries : Values, magic : Magic \cup {""}, n : Nat]
LoopStates == [pos : Nat, entries : Values, out : Outs]

(* What the parser may answer. *)
LEMMA AnswerTypes ==
    /\ \A t \in Errors : Err(t) \in Outs /\ Err(t).tag = t
    /\ \A m \in Nat : NeedMore(m) \in Outs /\ NeedMore(m).tag = "NeedMore" /\ NeedMore(m).n = m
<1>1. Empty \in Values
  BY DEF Empty, Values
<1>2. ASSUME NEW t \in Errors PROVE Err(t) \in Outs /\ Err(t).tag = t
  BY ONLY <1>1, t \in Errors DEF Err, Outs
<1>3. ASSUME NEW m \in Nat PROVE NeedMore(m) \in Outs /\ NeedMore(m).tag = "NeedMore" /\ NeedMore(m).n = m
  <2>1. PICK e \in Outs : e = Err("NeedMore") /\ e.tag = "NeedMore"
    <3>1. PICK t : t = "NeedMore" /\ t \in Errors \cup {"NeedMore", "ok"}
      OBVIOUS
    <3>2. Err(t) \in Outs /\ Err(t).tag = t
      BY ONLY <1>1, <3>1 DEF Err, Outs
    <3> QED BY ONLY <3>1, <3>2, Zenon
  <2>2. NeedMore(m) = [e EXCEPT !.n = m]
    BY ONLY <2>1, Zenon DEF NeedMore
  <2>3. [e EXCEPT !.n = m] \in Outs /\ [e EXCEPT !.n = m].tag = e.tag /\ [e EXCEPT !.n = m].n = m
    BY ONLY e \in Outs, m \in Nat DEF Outs
  <2> QED BY ONLY <2>1, <2>2, <2>3
<1> QED BY ONLY <1>2, <1>3

(* A width is a number of bytes. *)
LEMMA WidthType == \A h \in Nat : WidthOf(h) \in {1, 2, 4, 8} /\ TrailerLen(h) \in {2, 4}
BY DEF WidthOf, TrailerLen

(* A turn leads from state to state. *)
LEMMA TurnType ==
    ASSUME NEW b \in Seq(Nat), NEW max \in Nat, NEW magic \in Magic, NEW s \in LoopStates
    PROVE  Turn(b, max, magic, s) \in LoopStates
<1>1. ASSUME NEW r \in Outs PROVE [s EXCEPT !.out = r] \in LoopStates
  BY DEF LoopStates
<1>2. s.pos \in Nat /\ s.entries \in Values
  BY DEF LoopStates
<1>3. PICK at \in Nat : at = s.pos + 1 /\ at > 0
  BY <1>2
<1>4. \A t \in Errors : Err(t) \in Outs
  BY AnswerTypes
<1>b. Err("FrameTooLarge") \in Outs /\ Err("UnsupportedOption") \in Outs
      /\ Err("ChecksumErr") \in Outs /\ Err("MalformedBody") \in Outs
  BY <1>4 DEF Errors
<1>5. CASE s.out.tag # "more"
  BY <1>5 DEF Turn
<1>6. CASE s.out.tag = "more" /\ Lacks(b, at)
  <2>1. Turn(b, max, magic, s) = [s EXCEPT !.out = NeedMore(at)]
    BY ONLY <1>3, <1>6 DEF Turn
  <2> QED BY ONLY <1>1, <2>1, at \in Nat, AnswerTypes
<1>7. CASE s.out.tag = "more" /\ ~Lacks(b, at)
  <2>1. PICK h \in Nat : h = b[at]
    BY <1>3, <1>7 DEF Lacks
  <2>2. PICK end \in Nat : end = at + (IF h % 16 = 12 THEN TrailerLen(h) ELSE WidthOf(h)) /\ end > at
    BY ONLY h \in Nat, at \in Nat, WidthType
  <2>3. CASE at > max
    <3>1. Turn(b, max, magic, s) = [s EXCEPT !.out = Err("FrameTooLarge")]
      BY ONLY <1>3, <1>7, <2>3 DEF Turn
    <3> QED BY ONLY <1>1, <3>1, <1>b
  <2>4. CASE ~(at > max) /\ IF h % 16 = 12 THEN h \notin {28, 44} ELSE h % 16 \notin Keys
    <3>1. Turn(b, max, magic, s) = [s EXCEPT !.out = Err("UnsupportedOption")]
      BY ONLY <1>3, <1>7, <2>1, <2>4 DEF Turn
    <3> QED BY ONLY <1>1, <3>1, <1>b
  <2> DEFINE Known == ~(at > max) /\ ~(IF h % 16 = 12 THEN h \notin {28, 44} ELSE h % 16 \notin Keys)
  <2>5. CASE Known /\ Lacks(b, end)
    <3>1. Turn(b, max, magic, s) = [s EXCEPT !.out = NeedMore(end)]
      BY ONLY <1>3, <1>7, <2>1, <2>2, <2>5 DEF Turn
    <3> QED BY ONLY <1>1, <3>1, end \in Nat, AnswerTypes
  <2>6. CASE Known /\ ~Lacks(b, end) /\ end > max
    <3>1. Turn(b, max, magic, s) = [s EXCEPT !.out = Err("FrameTooLarge")]
      BY ONLY <1>3, <1>7, <2>1, <2>2, <2>6 DEF Turn
    <3> QED BY ONLY <1>1, <3>1, <1>b
  <2>7. CASE Known /\ ~Lacks(b, end) /\ ~(end > max) /\ h % 16 = 12
    <3>1. PICK r \in Outs : Turn(b, max, magic, s) = [s EXCEPT !.out = r]
      <4>1. [tag |-> "ok", entries |-> s.entries, magic |-> magic, n |-> end] \in Outs
        BY ONLY <1>2, magic \in Magic, end \in Nat DEF Outs
      <4>2. CASE SubSeq(b, at + 1, end) # Checksum(SubSeq(b, 1, at), TrailerLen(h))
        <5>1. Turn(b, max, magic, s) = [s EXCEPT !.out = Err("ChecksumErr")]
          BY ONLY <1>3, <1>7, <2>1, <2>2, <2>7, <4>2 DEF Turn
        <5> QED BY ONLY <5>1, <1>b
      <4>3. CASE ~(SubSeq(b, at + 1, end) # Checksum(SubSeq(b, 1, at), TrailerLen(h)))
        <5>1. Turn(b, max, magic, s) = [s EXCEPT !.out = [tag |-> "ok", entries |-> s.entries, magic |-> magic, n |-> end]]
          BY ONLY <1>3, <1>7, <2>1, <2>2, <2>7, <4>3 DEF Turn
        <5> QED BY ONLY <4>1, <5>1
      <4> QED BY ONLY <4>2, <4>3
    <3> QED BY ONLY <1>1, <3>1
  <2>8. CASE Known /\ ~Lacks(b, end) /\ ~(end > max) /\ h % 16 # 12
    <3>1. PICK v \in Nat : v = DecodeValue(SubSeq(b, at + 1, end))
      <4>1. SubSeq(b, at + 1, end) \in Seq(Nat)
        BY <1>3, <2>2, <2>8, SMTT(40) DEF Lacks
      <4>2. PICK z \in Seq(Nat) : z = SubSeq(b, at + 1, end)
        BY ONLY <4>1, Zenon
      <4>3. PICK g : /\ g \in [0..Len(z) -> Nat] /\ DecodeValue(z) = g[Len(z)]
        BY ONLY z \in Seq(Nat), DecodeIs, Zenon
      <4>4. Len(z) \in 0..Len(z)
        BY ONLY z \in Seq(Nat)
      <4>5. DecodeValue(z) \in Nat
        BY ONLY <4>3, <4>4
      <4> QED BY ONLY <4>2, <4>5, Zenon
    <3>2. CASE v = 0 \/ s.entries[h % 16] # None
      <4>1. Turn(b, max, magic, s) = [s EXCEPT !.out = Err("MalformedBody")]
        BY ONLY <1>3, <1>7, <2>1, <2>2, <2>8, <3>1, <3>2 DEF Turn
      <4> QED BY ONLY <1>1, <4>1, <1>b
    <3>3. CASE ~(v = 0 \/ s.entries[h % 16] # None)
      <4>1. Turn(b, max, magic, s) = [pos |-> end, entries |-> [s.entries EXCEPT ![h % 16] = v], out |-> s.out]
        BY ONLY <1>3, <1>7, <2>1, <2>2, <2>8, <3>1, <3>3 DEF Turn
      <4>2. [s.entries EXCEPT ![h % 16] = v] \in Values
        BY ONLY <1>2, v \in Nat DEF Values
      <4> QED BY ONLY <4>1, <4>2, end \in Nat, s \in LoopStates DEF LoopStates
    <3> QED BY ONLY <3>2, <3>3
  <2> QED BY ONLY <2>3, <2>4, <2>5, <2>6, <2>7, <2>8
<1> QED BY ONLY <1>5, <1>6, <1>7

LoopStart == [pos |-> 4, entries |-> Empty, out |-> Err("more")]

(* The loop begins behind the magic, and goes on from turn to turn. *)
LEMMA TurnsAre ==
    ASSUME NEW b \in Seq(Nat), NEW max \in Nat, NEW magic \in Magic
    PROVE  /\ Turns(b, max, magic)[0] = LoopStart
           /\ \A k \in 1..Len(b) : Turns(b, max, magic)[k] = Turn(b, max, magic, Turns(b, max, magic)[k - 1])
<1> DEFINE n == Len(b)
           S == LoopStates
           G == [k \in 1..n |-> [x \in S |-> Turn(b, max, magic, x)]]
           Rec(f) == [i \in 0..n |-> IF i = 0 THEN LoopStart ELSE Turn(b, max, magic, f[i - 1])]
           P == CHOOSE f : f = Rec(f)
<1>0. n \in Nat
  OBVIOUS
<1>a. LoopStart \in S
  <2>1. Empty \in Values
    BY DEF Empty, Values
  <2>2. Err("more") \in Outs
    BY AnswerTypes DEF Errors
  <2> QED BY ONLY <2>1, <2>2 DEF LoopStart, LoopStates, S
<1> HIDE DEF n, S
<1>1. G \in [1..n -> [S -> S]]
  <2>1. \A x \in S : Turn(b, max, magic, x) \in S
    BY TurnType DEF S
  <2> QED BY ONLY <2>1
<1>2. PICK f : StepsBy(S, LoopStart, G, n, f)
  <2> HIDE DEF G
  <2> QED BY <1>0, <1>1, <1>a, StepsExist
<1>3. f \in [0..n -> S] /\ f[0] = LoopStart /\ \A k \in 1..n : f[k] = G[k][f[k - 1]]
  <2> HIDE DEF G
  <2> QED BY ONLY <1>2 DEF StepsBy
<1>4. f = Rec(f)
  <2>1. ASSUME NEW i \in 1..n PROVE f[i] = Turn(b, max, magic, f[i - 1])
    <3>1. i - 1 \in 0..n
      BY <1>0
    <3>2. f[i - 1] \in S
      BY ONLY <1>3, <3>1
    <3>3. G[i][f[i - 1]] = Turn(b, max, magic, f[i - 1])
      BY ONLY <3>2, i \in 1..n, Zenon
    <3> HIDE DEF G
    <3> QED BY ONLY <1>3, <3>3, i \in 1..n, Zenon
  <2>2. \A i \in 0..n : f[i] = IF i = 0 THEN LoopStart ELSE Turn(b, max, magic, f[i - 1])
    <3> TAKE i \in 0..n
    <3>1. i = 0 \/ i \in 1..n
      BY <1>0
    <3>2. \A k \in 1..n : k # 0
      BY <1>0
    <3> QED BY ONLY <1>3, <2>1, <3>1, <3>2, Zenon
  <2>3. f = [i \in 0..n |-> f[i]]
    BY ONLY <1>3
  <2> QED BY ONLY <2>2, <2>3, Zenon
<1>5. P = Rec(P)
  BY ONLY <1>4, Zenon
<1>6. Turns(b, max, magic) = P
  BY DEF Turns, LoopStart, n
<1> HIDE DEF P, G
<1>7. P[0] = LoopStart /\ \A k \in 1..n : P[k] = Turn(b, max, magic, P[k - 1])
  <2>1. 0 \in 0..n /\ \A k \in 1..n : k # 0 /\ k \in 0..n
    BY <1>0
  <2> QED BY ONLY <1>5, <2>1, Zenon
<1> QED BY ONLY <1>6, <1>7 DEF n

-----------------------------------------------------------------------------
(* What the parser makes of a frame, or of the beginning of one.           *)

(* The first k fields are such that the parser goes past them, and what it has
   learnt from them. *)
Good(fs, k) == \A i \in 1..k : /\ fs[i].key \in Keys /\ fs[i].value # 0
                               /\ \A j \in 1..k : fs[i].key = fs[j].key => i = j
Partial(fs, k) == [x \in Keys |-> IF \E i \in 1..k : fs[i].key = x
                                  THEN fs[CHOOSE i \in 1..k : fs[i].key = x].value ELSE None]

(* The frame, and where its fields end. *)
Whole(fs, tr) == BuildFrame("ACCEPT", fs, tr)
At(fs, k) == Place("ACCEPT", fs, k)

(* A header byte tells the key and the width. *)
LEMMA HeaderReads ==
    ASSUME NEW f \in Field
    PROVE  HeaderOf(f) % 16 = f.key /\ WidthOf(HeaderOf(f)) = f.width /\ f.key # 12
<1>1. PICK k \in 0..15 : k = f.key /\ k # 12
  BY DEF Field
<1>2. f.width \in {1, 2, 4, 8}
  BY DEF Field
<1>3. CASE f.width = 1
  <2>1. HeaderOf(f) = k
    BY <1>1, <1>3 DEF HeaderOf, WidthCode
  <2>2. k % 16 = k /\ (k % 64) \div 16 = 0
    OBVIOUS
  <2> QED BY ONLY <1>1, <1>3, <2>1, <2>2 DEF WidthOf
<1>4. CASE f.width = 2
  <2>1. HeaderOf(f) = 16 + k
    BY <1>1, <1>4 DEF HeaderOf, WidthCode
  <2>2. (16 + k) % 16 = k /\ ((16 + k) % 64) \div 16 = 1
    OBVIOUS
  <2> QED BY ONLY <1>1, <1>4, <2>1, <2>2 DEF WidthOf
<1>5. CASE f.width = 4
  <2>1. HeaderOf(f) = 32 + k
    BY <1>1, <1>5 DEF HeaderOf, WidthCode
  <2>2. (32 + k) % 16 = k /\ ((32 + k) % 64) \div 16 = 2
    OBVIOUS
  <2> QED BY ONLY <1>1, <1>5, <2>1, <2>2 DEF WidthOf
<1>6. CASE f.width = 8
  <2>1. HeaderOf(f) = 48 + k
    BY <1>1, <1>6 DEF HeaderOf, WidthCode
  <2>2. (48 + k) % 16 = k /\ ((48 + k) % 64) \div 16 = 3
    OBVIOUS
  <2> QED BY ONLY <1>1, <1>6, <2>1, <2>2 DEF WidthOf
<1> QED BY ONLY <1>2, <1>3, <1>4, <1>5, <1>6

(* What has been learnt is the value of each field seen, and nothing else. *)
LEMMA PartialIs ==
    ASSUME NEW fs \in Seq(Field), NEW k \in 0..Len(fs), Good(fs, k)
    PROVE  /\ Partial(fs, k) \in Values
           /\ \A i \in 1..k : Partial(fs, k)[fs[i].key] = fs[i].value
           /\ \A x \in Keys : (\A i \in 1..k : fs[i].key # x) => Partial(fs, k)[x] = None
<1>1. \A i \in 1..k : fs[i].value \in Nat
  <2> TAKE i \in 1..k
  <2>1. fs[i] \in Field
    OBVIOUS
  <2> QED BY ONLY <2>1 DEF Field
<1>2. ASSUME NEW x \in Keys, NEW i \in 1..k, fs[i].key = x
      PROVE  Partial(fs, k)[x] = fs[i].value
  <2>1. PICK c \in 1..k : c = CHOOSE j \in 1..k : fs[j].key = x
    BY <1>2
  <2>2. fs[c].key = x
    BY ONLY <1>2, <2>1, Zenon
  <2>3. c = i
    BY ONLY <1>2, <2>2, Good(fs, k), c \in 1..k, i \in 1..k, Zenon DEF Good
  <2> QED BY ONLY <1>2, <2>1, <2>3, x \in Keys, i \in 1..k, Zenon DEF Partial
<1>3. ASSUME NEW x \in Keys, \A i \in 1..k : fs[i].key # x PROVE Partial(fs, k)[x] = None
  BY ONLY <1>3, x \in Keys, Zenon DEF Partial
<1>4. \A i \in 1..k : fs[i].key \in Keys
  BY ONLY Good(fs, k), Zenon DEF Good
<1>5. ASSUME NEW x \in Keys PROVE Partial(fs, k)[x] \in Nat \cup {None}
  BY ONLY <1>1, <1>2, <1>3, x \in Keys
<1>6. Partial(fs, k) \in Values
  <2>1. Partial(fs, k) = [x \in Keys |-> Partial(fs, k)[x]]
    BY ONLY Zenon DEF Partial
  <2> QED BY ONLY <1>5, <2>1, Zenon DEF Values
<1> QED BY ONLY <1>2, <1>3, <1>4, <1>6

(* A field more. *)
LEMMA OneFieldMore ==
    ASSUME NEW fs \in Seq(Field), NEW k \in 1..Len(fs), Good(fs, k - 1),
           fs[k].key \in Keys, fs[k].value # 0, \A j \in 1..(k - 1) : fs[j].key # fs[k].key
    PROVE  /\ Good(fs, k)
           /\ Partial(fs, k) = [Partial(fs, k - 1) EXCEPT ![fs[k].key] = fs[k].value]
<1>1. \A i \in 1..k : i \in 1..(k - 1) \/ i = k
  OBVIOUS
<1>2. Good(fs, k)
  <2> SUFFICES ASSUME NEW i \in 1..k
               PROVE  /\ fs[i].key \in Keys /\ fs[i].value # 0
                      /\ \A j \in 1..k : fs[i].key = fs[j].key => i = j
    BY DEF Good
  <2>1. \A a \in 1..(k - 1) : /\ fs[a].key \in Keys /\ fs[a].value # 0
                              /\ \A j \in 1..(k - 1) : fs[a].key = fs[j].key => a = j
    BY DEF Good
  <2> QED BY ONLY <1>1, <2>1, i \in 1..k, fs[k].key \in Keys, fs[k].value # 0,
                  \A j \in 1..(k - 1) : fs[j].key # fs[k].key, Zenon
<1>3. k \in 0..Len(fs) /\ k - 1 \in 0..Len(fs)
  OBVIOUS
<1>4. k \in 1..k /\ \A i \in 1..(k - 1) : i \in 1..k
  OBVIOUS
<1>5. /\ Partial(fs, k) \in Values
      /\ \A i \in 1..k : Partial(fs, k)[fs[i].key] = fs[i].value
      /\ \A x \in Keys : (\A i \in 1..k : fs[i].key # x) => Partial(fs, k)[x] = None
  BY ONLY fs \in Seq(Field), <1>2, <1>3, PartialIs, Zenon
<1>6. /\ Partial(fs, k - 1) \in Values
      /\ \A i \in 1..(k - 1) : Partial(fs, k - 1)[fs[i].key] = fs[i].value
      /\ \A x \in Keys : (\A i \in 1..(k - 1) : fs[i].key # x) => Partial(fs, k - 1)[x] = None
  BY ONLY fs \in Seq(Field), Good(fs, k - 1), <1>3, PartialIs, Zenon
<1>7. PICK a, b : a = Partial(fs, k - 1) /\ b = Partial(fs, k)
  OBVIOUS
<1>8. ASSUME NEW x \in Keys, x # fs[k].key PROVE b[x] = a[x]
  <2>1. CASE \E i \in 1..(k - 1) : fs[i].key = x
    <3>1. PICK i \in 1..(k - 1) : fs[i].key = x
      BY <2>1
    <3> QED BY ONLY <1>4, <1>5, <1>6, <1>7, <3>1, i \in 1..(k - 1), Zenon
  <2>2. CASE \A i \in 1..(k - 1) : fs[i].key # x
    <3>1. \A i \in 1..k : fs[i].key # x
      BY ONLY <1>1, <1>8, <2>2, Zenon
    <3> QED BY ONLY <1>5, <1>6, <1>7, <2>2, <3>1, x \in Keys, Zenon
  <2> QED BY ONLY <2>1, <2>2, Zenon
<1>9. b[fs[k].key] = fs[k].value
  BY ONLY <1>4, <1>5, <1>7, Zenon
<1>10. b = [a EXCEPT ![fs[k].key] = fs[k].value]
  <2>1. a \in Values /\ b \in Values
    BY ONLY <1>5, <1>6, <1>7, Zenon
  <2> QED BY ONLY <1>8, <1>9, <2>1, fs[k].key \in Keys DEF Values
<1> QED BY ONLY <1>2, <1>7, <1>10, Zenon

(* The fields of a frame, one behind the other. *)
LEMMA FieldAt ==
    ASSUME NEW fs \in Seq(Field), NEW tr \in Nat, NEW k \in 1..Len(fs)
    PROVE  /\ At(fs, k - 1) \in Nat /\ At(fs, k) \in Nat
           /\ At(fs, k) = At(fs, k - 1) + 1 + fs[k].width
           /\ At(fs, k) < Len(Whole(fs, tr))
           /\ Whole(fs, tr)[At(fs, k - 1) + 1] = HeaderOf(fs[k])
           /\ \A i \in 1..fs[k].width :
                 Whole(fs, tr)[At(fs, k - 1) + 1 + i] = BigEndian(fs[k].value, fs[k].width)[i]
<1>1. "ACCEPT" \in Magic
  BY DEF Magic
<1>2. Len(fs) \in Nat /\ k - 1 \in 0..Len(fs) /\ k \in 0..Len(fs) /\ Len(fs) \in k..Len(fs) /\ Len(fs) - k \in Nat
  OBVIOUS
<1>3. PICK W : W = Whole(fs, tr)
  OBVIOUS
<1>4. PICK e \in Nat : /\ e = At(fs, Len(fs)) /\ Len(W) = e + 1 + TrailerLen(tr)
                       /\ \A q \in 1..e : W[q] = Laid("ACCEPT", fs)[Len(fs)][q]
  <2>1. /\ Place("ACCEPT", fs, Len(fs)) \in Nat
        /\ Len(BuildFrame("ACCEPT", fs, tr)) = Place("ACCEPT", fs, Len(fs)) + 1 + TrailerLen(tr)
        /\ \A q \in 1..Place("ACCEPT", fs, Len(fs)) :
              BuildFrame("ACCEPT", fs, tr)[q] = Laid("ACCEPT", fs)[Len(fs)][q]
    BY ONLY <1>1, fs \in Seq(Field), tr \in Nat, FrameIs
  <2> QED BY ONLY <1>3, <2>1, Zenon DEF Whole, At
<1>5. /\ At(fs, k) \in Nat /\ e >= At(fs, k) + 2 * (Len(fs) - k)
      /\ \A q \in 1..At(fs, k) : Laid("ACCEPT", fs)[Len(fs)][q] = Laid("ACCEPT", fs)[k][q]
  BY ONLY <1>1, <1>2, <1>4, fs \in Seq(Field), LaidGrows, Zenon DEF At
<1>6. fs[k] \in Field
  OBVIOUS
<1>7. PICK w \in Nat : w = fs[k].width /\ w > 0
  BY ONLY <1>6, EntryIs
<1>8. /\ At(fs, k - 1) \in Nat
      /\ At(fs, k) = At(fs, k - 1) + 1 + w
      /\ Laid("ACCEPT", fs)[k][At(fs, k - 1) + 1] = HeaderOf(fs[k])
      /\ \A i \in 1..w : Laid("ACCEPT", fs)[k][At(fs, k - 1) + 1 + i] = BigEndian(fs[k].value, fs[k].width)[i]
  BY ONLY <1>1, <1>7, fs \in Seq(Field), k \in 1..Len(fs), EntryLaid, Zenon DEF At
<1>9. PICK p \in Nat : p = At(fs, k - 1)
  BY ONLY <1>8
<1>10. p + 1 + w <= e
  BY ONLY <1>2, <1>5, <1>8, <1>9, e \in Nat, w \in Nat
<1>11. \A q \in 1..(p + 1 + w) : W[q] = Laid("ACCEPT", fs)[k][q]
  <2> TAKE q \in 1..(p + 1 + w)
  <2>1. q \in 1..e /\ p + 1 + w = At(fs, k)
    BY ONLY <1>8, <1>9, <1>10, e \in Nat, w \in Nat, p \in Nat, q \in 1..(p + 1 + w)
  <2> QED BY ONLY <1>4, <1>5, <2>1, q \in 1..(p + 1 + w), Zenon
<1>12. /\ p + 1 \in 1..(p + 1 + w) /\ \A i \in 1..w : p + 1 + i \in 1..(p + 1 + w)
  BY ONLY p \in Nat, w \in Nat
<1>13. W[p + 1] = HeaderOf(fs[k]) /\ \A i \in 1..w : W[p + 1 + i] = BigEndian(fs[k].value, fs[k].width)[i]
  BY ONLY <1>8, <1>9, <1>11, <1>12, Zenon
<1>14. TrailerLen(tr) \in {2, 4}
  BY ONLY WidthType, tr \in Nat
<1>15. At(fs, k) < Len(W)
  <2>1. PICK t \in Nat : t = TrailerLen(tr)
    BY ONLY <1>14
  <2>2. Len(W) = e + 1 + t
    BY ONLY <1>4, <2>1, Zenon
  <2>3. PICK a \in Nat : a = At(fs, k) /\ a = p + 1 + w
    BY ONLY <1>8, <1>9, p \in Nat, w \in Nat
  <2>4. a < e + 1 + t
    BY ONLY <1>10, <2>3, e \in Nat, t \in Nat, p \in Nat, w \in Nat
  <2> QED BY ONLY <2>2, <2>3, <2>4, Zenon
<1> QED BY ONLY <1>3, <1>5, <1>7, <1>8, <1>9, <1>13, <1>15, Zenon

(* How far a request may go with the first k fields read: to the end of the
   next, or of the frame. *)
Limit(fs, tr, k) == IF k < Len(fs) THEN At(fs, k + 1) ELSE Len(Whole(fs, tr))
Asks(fs, tr, l, m) == \E k \in 0..Len(fs) : Good(fs, k) /\ l < m /\ m <= Limit(fs, tr, k)

(* What the parser objects to. *)
Foreign(fs, tr) == (\E k \in 1..Len(fs) : fs[k].key \notin Keys) \/ tr \notin {28, 44}
Bad(fs, k) == fs[k].value = 0 \/ \E j \in 1..(k - 1) : fs[j].key = fs[k].key

(* What it answers to the first l bytes of a frame. *)
Answers(fs, tr, l, o) ==
    \/ \E m \in Nat : o = NeedMore(m) /\ Asks(fs, tr, l, m)
    \/ o = Err("UnsupportedOption") /\ Foreign(fs, tr)
    \/ o = Err("MalformedBody") /\ \E k \in 1..Len(fs) : At(fs, k) <= l /\ Bad(fs, k)
    \/ /\ o.tag = "ok" /\ o.magic = "ACCEPT" /\ o.entries = Partial(fs, Len(fs))
       /\ Good(fs, Len(fs)) /\ tr \in {28, 44} /\ l = Len(Whole(fs, tr))
Beginning(b, W) == b \in Seq(Nat) /\ Len(b) <= Len(W) /\ \A q \in 1..Len(b) : b[q] = W[q]

(* The loop with the first k fields read. *)
Running(fs, k) == [pos |-> At(fs, k), entries |-> Partial(fs, k), out |-> Err("more")]

(* Its parts, ... *)
LEMMA RunningIs ==
    ASSUME NEW fs, NEW k
    PROVE  Running(fs, k).pos = At(fs, k) /\ Running(fs, k).entries = Partial(fs, k) /\ Running(fs, k).out = Err("more")
BY DEF Running

(* ... and how it returns. *)
LEMMA RunningReturns ==
    ASSUME NEW fs, NEW k, NEW r
    PROVE  [Running(fs, k) EXCEPT !.out = r].out = r
BY DEF Running

(* A turn at a field goes past it, or ends the loop with the right answer. *)
LEMMA TurnField ==
    ASSUME NEW fs \in Seq(Field), NEW tr \in Nat, NEW b, Beginning(b, Whole(fs, tr)),
           NEW max \in Nat, Len(b) <= max, NEW k \in 1..Len(fs), Good(fs, k - 1), At(fs, k - 1) <= Len(b),
           Shifts(fs[k].value, fs[k].width)[fs[k].width] = 0,
           NEW s1, s1 = Turn(b, max, "ACCEPT", Running(fs, k - 1))
    PROVE  \/ s1 = Running(fs, k) /\ Good(fs, k) /\ At(fs, k) <= Len(b)
           \/ s1.out.tag # "more" /\ Answers(fs, tr, Len(b), s1.out)
<1>1. PICK W : W = Whole(fs, tr)
  OBVIOUS
<1>2. b \in Seq(Nat) /\ Len(b) <= Len(W) /\ \A q \in 1..Len(b) : b[q] = W[q]
  BY ONLY <1>1, Beginning(b, Whole(fs, tr)), Zenon DEF Beginning
<1>3. PICK l \in Nat : l = Len(b)
  BY ONLY <1>2
<1>4. fs[k] \in Field
  OBVIOUS
<1>5. PICK w \in Nat : w = fs[k].width /\ w > 0
  BY ONLY <1>4, EntryIs
<1>6. PICK p \in Nat : p = At(fs, k - 1)
  BY ONLY fs \in Seq(Field), tr \in Nat, k \in 1..Len(fs), FieldAt
<1>7. /\ At(fs, k) = p + 1 + w /\ W[p + 1] = HeaderOf(fs[k])
      /\ \A i \in 1..w : W[p + 1 + i] = BigEndian(fs[k].value, fs[k].width)[i]
  BY ONLY <1>1, <1>5, <1>6, fs \in Seq(Field), tr \in Nat, k \in 1..Len(fs), FieldAt, ZenonT(60)
<1>8. p <= l /\ l <= max
  BY ONLY <1>3, <1>6, At(fs, k - 1) <= Len(b), Len(b) <= max
<1>9. PICK s : /\ s = Running(fs, k - 1) /\ s.pos = p /\ s.entries = Partial(fs, k - 1)
               /\ s.out = Err("more") /\ s.out.tag = "more"
  <2>1. Err("more").tag = "more"
    BY DEF Err
  <2> QED BY ONLY <1>6, <2>1, RunningIs, Zenon
<1>10. \A r : [s EXCEPT !.out = r].out = r
  BY ONLY <1>9, RunningReturns
<1>11. s1 = Turn(b, max, "ACCEPT", s)
  BY ONLY <1>9, s1 = Turn(b, max, "ACCEPT", Running(fs, k - 1)), Zenon
<1> SUFFICES \/ s1 = Running(fs, k) /\ Good(fs, k) /\ At(fs, k) <= l
             \/ s1.out.tag # "more" /\ Answers(fs, tr, l, s1.out)
  BY <1>3
<1>12. k - 1 \in 0..Len(fs) /\ k - 1 < Len(fs) /\ (k - 1) + 1 = k
  BY fs \in Seq(Field)
<1>13. Limit(fs, tr, k - 1) = p + 1 + w
  BY ONLY <1>7, <1>12 DEF Limit
<1>14. ASSUME NEW m \in Nat, l < m, m <= p + 1 + w, s1 = [s EXCEPT !.out = NeedMore(m)]
       PROVE  s1.out.tag # "more" /\ Answers(fs, tr, l, s1.out)
  <2>1. s1.out = NeedMore(m)
    BY ONLY <1>10, <1>14, Zenon
  <2>2. s1.out.tag # "more"
    BY ONLY <2>1, m \in Nat, AnswerTypes
  <2>3. Asks(fs, tr, l, m)
    <3>1. m <= Limit(fs, tr, k - 1)
      BY ONLY <1>13, <1>14, Zenon
    <3> QED BY ONLY <1>12, <1>14, <3>1, Good(fs, k - 1), Zenon DEF Asks
  <2> QED BY ONLY <2>1, <2>2, <2>3, m \in Nat, Zenon DEF Answers
<1>15. CASE l < p + 1
  <2>1. Lacks(b, p + 1)
    BY ONLY <1>3, <1>15 DEF Lacks
  <2>2. s1 = [s EXCEPT !.out = NeedMore(p + 1)]
    BY ONLY <1>9, <1>11, <2>1 DEF Turn
  <2> QED BY ONLY <1>14, <1>15, <2>2, p \in Nat, w \in Nat
<1>16. CASE ~(l < p + 1)
  <2>1. p + 1 \in 1..l /\ ~(p + 1 > max)
    BY ONLY <1>8, <1>16, p \in Nat, l \in Nat, max \in Nat
  <2>2. ~Lacks(b, p + 1)
    BY ONLY <1>3, <1>16 DEF Lacks
  <2>3. PICK h \in Nat : h = HeaderOf(fs[k]) /\ h = b[p + 1]
    <3>1. HeaderOf(fs[k]) \in Nat
      BY ONLY <1>4, EntryIs
    <3> QED BY ONLY <1>2, <1>3, <1>7, <2>1, <3>1, Zenon
  <2>4. PICK key : key = fs[k].key /\ h % 16 = key /\ WidthOf(h) = w /\ key # 12
    BY ONLY <1>4, <1>5, <2>3, HeaderReads, Zenon
  <2>5. CASE key \notin Keys
    <3>1. s1 = [s EXCEPT !.out = Err("UnsupportedOption")]
      BY ONLY <1>9, <1>11, <2>1, <2>2, <2>3, <2>4, <2>5, SMTT(40) DEF Turn
    <3>2. s1.out = Err("UnsupportedOption")
      BY ONLY <1>10, <3>1, Zenon
    <3>3. s1.out.tag # "more"
      BY ONLY <3>2, AnswerTypes DEF Errors
    <3>4. Foreign(fs, tr)
      BY ONLY <2>4, <2>5, k \in 1..Len(fs), Zenon DEF Foreign
    <3> QED BY ONLY <3>2, <3>3, <3>4, Zenon DEF Answers
  <2>6. CASE key \in Keys /\ l < p + 1 + w
    <3>1. Lacks(b, p + 1 + w)
      BY ONLY <1>3, <2>6 DEF Lacks
    <3>2. s1 = [s EXCEPT !.out = NeedMore(p + 1 + w)]
      BY ONLY <1>9, <1>11, <2>1, <2>2, <2>3, <2>4, <2>6, <3>1 DEF Turn
    <3> QED BY ONLY <1>14, <2>6, <3>2, p \in Nat, w \in Nat
  <2>7. CASE key \in Keys /\ ~(l < p + 1 + w)
    <3>1. ~Lacks(b, p + 1 + w) /\ ~(p + 1 + w > max) /\ p + 1 + w <= l
      BY ONLY <1>3, <1>8, <2>7, p \in Nat, w \in Nat, l \in Nat, max \in Nat DEF Lacks
    <3>2. DecodeValue(SubSeq(b, p + 1 + 1, p + 1 + w)) = fs[k].value
      <4>1. PICK z : z = SubSeq(b, p + 1 + 1, p + 1 + w)
        OBVIOUS
      <4>2. z \in Seq(Nat) /\ Len(z) = w /\ \A i \in 1..w : z[i] = b[p + 1 + i]
        <5>1. PICK x \in Nat, y \in Nat : x = p + 1 + 1 /\ y = p + 1 + w /\ y <= l /\ (y - x) + 1 = w /\ x >= 1 /\ x <= y + 1
          <6>1. /\ p + 1 + 1 \in Nat /\ p + 1 + w \in Nat /\ p + 1 + w <= l
                /\ ((p + 1 + w) - (p + 1 + 1)) + 1 = w /\ p + 1 + 1 >= 1
                /\ p + 1 + 1 <= (p + 1 + w) + 1
            BY ONLY <1>5, <3>1, p \in Nat, w \in Nat, l \in Nat, SMTT(40)
          <6> QED BY ONLY <6>1, Zenon
        <5>2. z = SubSeq(b, x, y)
          BY ONLY <4>1, <5>1, Zenon
        <5>3. z \in Seq(Nat) /\ Len(z) = w /\ \A i \in 1..w : z[i] = b[x + i - 1]
          <6>1. b \in Seq(Nat) /\ y <= Len(b) /\ x >= 1 /\ x <= y + 1 /\ (y - x) + 1 = w
            BY ONLY <1>2, <1>3, <5>1, Zenon
          <6>2. /\ SubSeq(b, x, y) \in Seq(Nat) /\ Len(SubSeq(b, x, y)) = (y - x) + 1
                /\ \A i \in 1..((y - x) + 1) : SubSeq(b, x, y)[i] = b[x + i - 1]
            BY ONLY <6>1, x \in Nat, y \in Nat, PartIs, Zenon
          <6> QED BY ONLY <5>2, <6>1, <6>2, Zenon
        <5>4. \A i \in 1..w : x + i - 1 = p + 1 + i
          BY ONLY <5>1, p \in Nat, w \in Nat
        <5> QED BY ONLY <5>3, <5>4, Zenon
      <4>3. \A i \in 1..w : p + 1 + i \in 1..l
        BY ONLY <3>1, p \in Nat, w \in Nat, l \in Nat
      <4>4. \A i \in 1..w : z[i] = BigEndian(fs[k].value, w)[i]
        BY ONLY <1>2, <1>3, <1>5, <1>7, <4>2, <4>3, Zenon
      <4>5. fs[k].value \in Nat /\ Shifts(fs[k].value, w)[w] = 0
        BY ONLY <1>4, <1>5, EntryIs, Shifts(fs[k].value, fs[k].width)[fs[k].width] = 0, Zenon
      <4> QED BY ONLY <4>1, <4>2, <4>4, <4>5, w \in Nat, NumberRoundTrip, ZenonT(60)
    <3>3. /\ \A i \in 1..(k - 1) : Partial(fs, k - 1)[fs[i].key] = fs[i].value
          /\ \A x \in Keys : (\A i \in 1..(k - 1) : fs[i].key # x) => Partial(fs, k - 1)[x] = None
      BY ONLY <1>12, fs \in Seq(Field), Good(fs, k - 1), PartialIs, Zenon
    <3>4. (Partial(fs, k - 1)[key] # None) <=> \E j \in 1..(k - 1) : fs[j].key = key
      <4>1. ASSUME NEW j \in 1..(k - 1), fs[j].key = key PROVE Partial(fs, k - 1)[key] # None
        <5>1. fs[j] \in Field
          BY j \in 1..(k - 1), fs \in Seq(Field)
        <5>2. fs[j].value \in Nat
          BY ONLY <5>1 DEF Field
        <5>3. Partial(fs, k - 1)[key] = fs[j].value
          BY ONLY <3>3, <4>1, j \in 1..(k - 1), Zenon
        <5> QED BY ONLY <5>2, <5>3 DEF None
      <4> QED BY ONLY <2>7, <3>3, <4>1, Zenon
    <3>5. CASE Bad(fs, k)
      <4>1. fs[k].value = 0 \/ s.entries[key] # None
        BY ONLY <1>9, <2>4, <3>4, <3>5, Zenon DEF Bad
      <4>2. s1 = [s EXCEPT !.out = Err("MalformedBody")]
        BY ONLY <1>9, <1>11, <2>1, <2>2, <2>3, <2>4, <2>7, <3>1, <3>2, <4>1, SMTT(40) DEF Turn
      <4>3. s1.out = Err("MalformedBody")
        BY ONLY <1>10, <4>2, Zenon
      <4>4. s1.out.tag # "more"
        BY ONLY <4>3, AnswerTypes DEF Errors
      <4>5. At(fs, k) <= l
        BY ONLY <1>7, <3>1, Zenon
      <4> QED BY ONLY <3>5, <4>3, <4>4, <4>5, k \in 1..Len(fs), Zenon DEF Answers
    <3>6. CASE ~Bad(fs, k)
      <4>1. fs[k].value # 0 /\ s.entries[key] = None /\ \A j \in 1..(k - 1) : fs[j].key # fs[k].key
        BY ONLY <1>9, <2>4, <3>4, <3>6, Zenon DEF Bad
      <4>2. Good(fs, k) /\ Partial(fs, k) = [Partial(fs, k - 1) EXCEPT ![key] = fs[k].value]
        BY ONLY <2>4, <2>7, <4>1, fs \in Seq(Field), k \in 1..Len(fs), Good(fs, k - 1), OneFieldMore, Zenon
      <4>3. s1 = [pos |-> p + 1 + w, entries |-> [s.entries EXCEPT ![key] = fs[k].value], out |-> s.out]
        BY ONLY <1>9, <1>11, <2>1, <2>2, <2>3, <2>4, <2>7, <3>1, <3>2, <4>1 DEF Turn
      <4>5. s1 = [pos |-> p + 1 + w, entries |-> Partial(fs, k), out |-> Err("more")]
        BY ONLY <1>9, <4>2, <4>3, Zenon
      <4>6. s1 = Running(fs, k)
        BY ONLY <1>7, <4>5, Zenon DEF Running
      <4> QED BY ONLY <1>7, <3>1, <4>2, <4>6, Zenon
    <3> QED BY ONLY <3>5, <3>6, Zenon
  <2> QED BY ONLY <2>5, <2>6, <2>7, Zenon
<1> QED BY ONLY <1>15, <1>16, Zenon

(* The trailer of a frame, behind its fields. *)
LEMMA TrailerAt ==
    ASSUME NEW fs \in Seq(Field), NEW tr \in Nat
    PROVE  /\ Whole(fs, tr) \in Seq(Nat) /\ At(fs, Len(fs)) \in Nat /\ At(fs, Len(fs)) >= 4
           /\ Len(Whole(fs, tr)) = At(fs, Len(fs)) + 1 + TrailerLen(tr)
           /\ Whole(fs, tr)[At(fs, Len(fs)) + 1] = tr
           /\ SubSeq(Whole(fs, tr), At(fs, Len(fs)) + 2, Len(Whole(fs, tr)))
                 = Checksum(SubSeq(Whole(fs, tr), 1, At(fs, Len(fs)) + 1), TrailerLen(tr))
<1>1. "ACCEPT" \in Magic
  BY DEF Magic
<1>2. /\ BuildFrame("ACCEPT", fs, tr) \in Seq(Nat) /\ Place("ACCEPT", fs, Len(fs)) \in Nat
      /\ Place("ACCEPT", fs, Len(fs)) >= 4
      /\ Len(BuildFrame("ACCEPT", fs, tr)) = Place("ACCEPT", fs, Len(fs)) + 1 + TrailerLen(tr)
      /\ BuildFrame("ACCEPT", fs, tr)[Place("ACCEPT", fs, Len(fs)) + 1] = tr
      /\ SubSeq(BuildFrame("ACCEPT", fs, tr), Place("ACCEPT", fs, Len(fs)) + 2, Len(BuildFrame("ACCEPT", fs, tr)))
            = Checksum(SubSeq(BuildFrame("ACCEPT", fs, tr), 1, Place("ACCEPT", fs, Len(fs)) + 1), TrailerLen(tr))
  BY ONLY <1>1, fs \in Seq(Field), tr \in Nat, FrameIs, Zenon
<1> QED BY ONLY <1>2, Zenon DEF Whole, At

(* The whole of a sequence read is the sequence. *)
LEMMA BeginningIsAll ==
    ASSUME NEW b \in Seq(Nat), NEW W \in Seq(Nat), Beginning(b, W), Len(b) = Len(W)
    PROVE  b = W
BY DEF Beginning

(* A turn at the trailer ends the loop with the right answer. *)
LEMMA TurnTrailer ==
    ASSUME NEW fs \in Seq(Field), NEW tr \in Nat, tr % 16 = 12, NEW b, Beginning(b, Whole(fs, tr)),
           NEW max \in Nat, Len(b) <= max, Good(fs, Len(fs)), At(fs, Len(fs)) <= Len(b),
           NEW s1, s1 = Turn(b, max, "ACCEPT", Running(fs, Len(fs)))
    PROVE  s1.out.tag # "more" /\ Answers(fs, tr, Len(b), s1.out)
<1>1. PICK W \in Seq(Nat) : W = Whole(fs, tr)
  BY ONLY TrailerAt, fs \in Seq(Field), tr \in Nat, Zenon
<1>2. b \in Seq(Nat) /\ Len(b) <= Len(W) /\ \A q \in 1..Len(b) : b[q] = W[q]
  BY ONLY <1>1, Beginning(b, Whole(fs, tr)), Zenon DEF Beginning
<1>3. PICK l \in Nat : l = Len(b)
  BY ONLY <1>2
<1>4. PICK p \in Nat : p = At(fs, Len(fs))
  BY ONLY TrailerAt, fs \in Seq(Field), tr \in Nat, Zenon
<1>5. PICK t \in Nat : t = TrailerLen(tr) /\ t \in {2, 4}
  BY ONLY WidthType, tr \in Nat
<1>6. /\ Len(W) = p + 1 + t /\ W[p + 1] = tr
      /\ SubSeq(W, p + 2, Len(W)) = Checksum(SubSeq(W, 1, p + 1), TrailerLen(tr))
  BY ONLY <1>1, <1>4, <1>5, TrailerAt, fs \in Seq(Field), tr \in Nat, Zenon
<1>7. p <= l /\ l <= max
  BY ONLY <1>3, <1>4, At(fs, Len(fs)) <= Len(b), Len(b) <= max
<1>8. PICK s : /\ s = Running(fs, Len(fs)) /\ s.pos = p /\ s.entries = Partial(fs, Len(fs))
               /\ s.out = Err("more") /\ s.out.tag = "more"
  <2>1. Err("more").tag = "more"
    BY DEF Err
  <2> QED BY ONLY <1>4, <2>1, RunningIs, Zenon
<1>9. \A r : [s EXCEPT !.out = r].out = r
  BY ONLY <1>8, RunningReturns
<1>10. s1 = Turn(b, max, "ACCEPT", s)
  BY ONLY <1>8, s1 = Turn(b, max, "ACCEPT", Running(fs, Len(fs))), Zenon
<1> SUFFICES s1.out.tag # "more" /\ Answers(fs, tr, l, s1.out)
  BY <1>3
<1>11. Len(fs) \in 0..Len(fs) /\ ~(Len(fs) < Len(fs))
  BY fs \in Seq(Field)
<1>12. Limit(fs, tr, Len(fs)) = p + 1 + t
  BY ONLY <1>1, <1>6, <1>11 DEF Limit
<1>13. ASSUME NEW m \in Nat, l < m, m <= p + 1 + t, s1 = [s EXCEPT !.out = NeedMore(m)]
       PROVE  s1.out.tag # "more" /\ Answers(fs, tr, l, s1.out)
  <2>1. s1.out = NeedMore(m)
    BY ONLY <1>9, <1>13, Zenon
  <2>2. s1.out.tag # "more"
    BY ONLY <2>1, m \in Nat, AnswerTypes
  <2>3. Asks(fs, tr, l, m)
    <3>1. m <= Limit(fs, tr, Len(fs))
      BY ONLY <1>12, <1>13, Zenon
    <3> QED BY ONLY <1>11, <1>13, <3>1, Good(fs, Len(fs)), Zenon DEF Asks
  <2> QED BY ONLY <2>1, <2>2, <2>3, m \in Nat, Zenon DEF Answers
<1>14. CASE l < p + 1
  <2>1. Lacks(b, p + 1)
    BY ONLY <1>3, <1>14 DEF Lacks
  <2>2. s1 = [s EXCEPT !.out = NeedMore(p + 1)]
    BY ONLY <1>8, <1>10, <2>1 DEF Turn
  <2> QED BY ONLY <1>13, <1>14, <2>2, p \in Nat, t \in Nat, SMTT(40)
<1>15. CASE ~(l < p + 1)
  <2>1. p + 1 \in 1..l /\ ~(p + 1 > max)
    BY ONLY <1>7, <1>15, p \in Nat, l \in Nat, max \in Nat
  <2>2. ~Lacks(b, p + 1)
    BY ONLY <1>3, <1>15 DEF Lacks
  <2>3. tr = b[p + 1]
    BY ONLY <1>2, <1>3, <1>6, <2>1, Zenon
  <2>4. CASE tr \notin {28, 44}
    <3>1. s1 = [s EXCEPT !.out = Err("UnsupportedOption")]
      BY ONLY <1>8, <1>10, <2>1, <2>2, <2>3, <2>4, tr % 16 = 12 DEF Turn
    <3>2. s1.out = Err("UnsupportedOption")
      BY ONLY <1>9, <3>1, Zenon
    <3>3. s1.out.tag # "more"
      BY ONLY <3>2, AnswerTypes DEF Errors
    <3>4. Foreign(fs, tr)
      BY ONLY <2>4, Zenon DEF Foreign
    <3> QED BY ONLY <3>2, <3>3, <3>4, Zenon DEF Answers
  <2>5. CASE tr \in {28, 44} /\ l < p + 1 + t
    <3>1. Lacks(b, p + 1 + t)
      BY ONLY <1>3, <2>5 DEF Lacks
    <3>2. s1 = [s EXCEPT !.out = NeedMore(p + 1 + t)]
      BY ONLY <1>5, <1>8, <1>10, <2>1, <2>2, <2>3, <2>5, <3>1, tr % 16 = 12 DEF Turn
    <3>3. p + 1 + t \in Nat /\ p + 1 + t <= p + 1 + t
      BY ONLY p \in Nat, t \in Nat
    <3> QED BY ONLY <1>13, <2>5, <3>2, <3>3, Zenon
  <2>6. CASE tr \in {28, 44} /\ ~(l < p + 1 + t)
    <3>1. ~Lacks(b, p + 1 + t) /\ ~(p + 1 + t > max) /\ l = p + 1 + t
      BY ONLY <1>2, <1>3, <1>6, <1>7, <2>6, p \in Nat, t \in Nat, l \in Nat, max \in Nat DEF Lacks
    <3>2. b = W
      <4>1. Len(b) = Len(W)
        BY ONLY <1>3, <1>6, <3>1, Zenon
      <4>2. Beginning(b, W)
        BY ONLY <1>1, Beginning(b, Whole(fs, tr)), Zenon
      <4> QED BY ONLY <1>2, <4>1, <4>2, W \in Seq(Nat), BeginningIsAll, Zenon
    <3>3. SubSeq(b, p + 1 + 1, p + 1 + t) = Checksum(SubSeq(b, 1, p + 1), TrailerLen(tr))
      <4>1. p + 1 + 1 = p + 2
        BY ONLY p \in Nat
      <4> QED BY ONLY <1>6, <3>2, <4>1, Zenon
    <3>4. PICK r : r = [tag |-> "ok", entries |-> s.entries, magic |-> "ACCEPT", n |-> p + 1 + t]
      OBVIOUS
    <3>5. s1 = [s EXCEPT !.out = r]
      BY ONLY <1>5, <1>8, <1>10, <2>1, <2>2, <2>3, <2>6, <3>1, <3>3, <3>4, tr % 16 = 12 DEF Turn
    <3>6. s1.out = r
      BY ONLY <1>9, <3>5, Zenon
    <3>7. r.tag = "ok" /\ r.magic = "ACCEPT" /\ r.entries = Partial(fs, Len(fs))
      BY ONLY <1>8, <3>4
    <3>8. s1.out.tag # "more"
      BY ONLY <3>6, <3>7
    <3>9. l = Len(Whole(fs, tr))
      BY ONLY <1>1, <1>6, <3>1, Zenon
    <3> QED BY ONLY <2>6, <3>6, <3>7, <3>8, <3>9, Good(fs, Len(fs)), Zenon DEF Answers
  <2> QED BY ONLY <2>4, <2>5, <2>6, Zenon
<1> QED BY ONLY <1>14, <1>15, Zenon

(* The loop with a result stands still. *)
LEMMA TurnSettled ==
    ASSUME NEW b, NEW max, NEW magic, NEW s, s.out.tag # "more"
    PROVE  Turn(b, max, magic, s) = s
BY DEF Turn

Fits(fs) == \A i \in 1..Len(fs) : Shifts(fs[i].value, fs[i].width)[fs[i].width] = 0

(* Where the loop begins. *)
LEMMA RunningFirst ==
    ASSUME NEW fs \in Seq(Field)
    PROVE  LoopStart = Running(fs, 0) /\ Good(fs, 0) /\ At(fs, 0) = 4
<1>1. "ACCEPT" \in Magic
  BY DEF Magic
<1>2. At(fs, 0) = 4
  <2>1. Laid("ACCEPT", fs)[0] = MagicBytes["ACCEPT"]
    BY ONLY <1>1, LaidIs, fs \in Seq(Field), Zenon
  <2> QED BY ONLY <1>1, <2>1, MagicIs, Zenon DEF At, Place
<1>3. \A i \in 1..0 : FALSE
  OBVIOUS
<1>4. Good(fs, 0)
  BY ONLY <1>3, Zenon DEF Good
<1>5. Partial(fs, 0) = Empty
  BY ONLY <1>3, Zenon DEF Partial, Empty
<1> QED BY ONLY <1>2, <1>4, <1>5, Zenon DEF Running, LoopStart

(* The loop ends with the right answer. *)
LEMMA LoopIs ==
    ASSUME NEW fs \in Seq(Field), Fits(fs), NEW tr \in Nat, tr % 16 = 12, NEW b, Beginning(b, Whole(fs, tr)),
           NEW max \in Nat, Len(b) <= max, Len(b) >= 4
    PROVE  Answers(fs, tr, Len(b), Turns(b, max, "ACCEPT")[Len(b)].out)
<1>1. PICK U : U = Turns(b, max, "ACCEPT")
  OBVIOUS
<1>2. b \in Seq(Nat)
  BY DEF Beginning
<1>3. PICK l \in Nat : l = Len(b)
  BY ONLY <1>2
<1>4. PICK n \in Nat : n = Len(fs)
  BY ONLY fs \in Seq(Field)
<1>5. U[0] = LoopStart /\ \A k \in 1..l : U[k] = Turn(b, max, "ACCEPT", U[k - 1])
  <2>1. "ACCEPT" \in Magic
    BY DEF Magic
  <2> QED BY ONLY <1>1, <1>2, <1>3, <2>1, max \in Nat, TurnsAre, Zenon
<1> DEFINE On(d) == d <= n /\ U[d] = Running(fs, d) /\ Good(fs, d) /\ At(fs, d) <= l
           Off(d) == U[d].out.tag # "more" /\ Answers(fs, tr, l, U[d].out)
           T == {d \in Nat : d <= l => On(d) \/ Off(d)}
<1>6. 0 \in T
  <2>1. 0 \in Nat /\ 0 <= n /\ 4 <= l
    BY ONLY <1>3, n \in Nat, Len(b) >= 4, l \in Nat
  <2>2. U[0] = Running(fs, 0) /\ Good(fs, 0) /\ At(fs, 0) = 4
    BY ONLY <1>5, fs \in Seq(Field), RunningFirst, Zenon
  <2>3. On(0)
    BY ONLY <2>1, <2>2, Zenon
  <2> QED BY ONLY <2>1, <2>3, Zenon
<1>7. ASSUME NEW d \in Nat, d \in T PROVE d + 1 \in T
  <2> SUFFICES ASSUME d + 1 <= l PROVE On(d + 1) \/ Off(d + 1)
    OBVIOUS
  <2>1. d <= l /\ d + 1 \in 1..l /\ (d + 1) - 1 = d
    BY ONLY d \in Nat, d + 1 <= l, l \in Nat
  <2>2. U[d + 1] = Turn(b, max, "ACCEPT", U[d])
    BY ONLY <1>5, <2>1, Zenon
  <2>3. On(d) \/ Off(d)
    BY ONLY <1>7, <2>1, Zenon
  <2>4. CASE Off(d)
    <3>1. U[d + 1] = U[d]
      BY ONLY <2>2, <2>4, TurnSettled
    <3> QED BY ONLY <2>4, <3>1, Zenon
  <2>5. CASE On(d) /\ d < n
    <3>1. PICK k \in 1..Len(fs) : k = d + 1 /\ k - 1 = d
      BY ONLY <1>4, <2>5, d \in Nat, n \in Nat
    <3>2. U[k] = Turn(b, max, "ACCEPT", Running(fs, k - 1)) /\ Good(fs, k - 1) /\ At(fs, k - 1) <= Len(b)
      BY ONLY <1>3, <2>2, <2>5, <3>1, Zenon
    <3>3. Shifts(fs[k].value, fs[k].width)[fs[k].width] = 0
      BY ONLY Fits(fs), k \in 1..Len(fs), Zenon DEF Fits
    <3>4. PICK s1 : s1 = U[k]
      OBVIOUS
    <3>5. s1 = Turn(b, max, "ACCEPT", Running(fs, k - 1))
      BY ONLY <3>2, <3>4, Zenon
    <3>6. \/ s1 = Running(fs, k) /\ Good(fs, k) /\ At(fs, k) <= Len(b)
          \/ s1.out.tag # "more" /\ Answers(fs, tr, Len(b), s1.out)
      BY ONLY fs \in Seq(Field), tr \in Nat, Beginning(b, Whole(fs, tr)), max \in Nat, Len(b) <= max,
              k \in 1..Len(fs), <3>2, <3>3, <3>5, TurnField
    <3>7. k <= n
      BY ONLY <1>4, k \in 1..Len(fs), n \in Nat
    <3> QED BY ONLY <1>3, <3>1, <3>4, <3>6, <3>7, Zenon
  <2>6. CASE On(d) /\ ~(d < n)
    <3>1. d = n
      BY ONLY <2>6, d \in Nat, n \in Nat
    <3>2. Good(fs, Len(fs)) /\ At(fs, Len(fs)) <= Len(b)
      BY ONLY <1>3, <1>4, <2>6, <3>1, Zenon
    <3>3. PICK s1 : s1 = U[d + 1]
      OBVIOUS
    <3>4. s1 = Turn(b, max, "ACCEPT", Running(fs, Len(fs)))
      BY ONLY <1>4, <2>2, <2>6, <3>1, <3>3, Zenon
    <3>5. s1.out.tag # "more" /\ Answers(fs, tr, Len(b), s1.out)
      BY ONLY fs \in Seq(Field), tr \in Nat, tr % 16 = 12, Beginning(b, Whole(fs, tr)), max \in Nat, Len(b) <= max,
              <3>2, <3>4, TurnTrailer
    <3> QED BY ONLY <1>3, <3>3, <3>5, Zenon
  <2> QED BY ONLY <2>3, <2>4, <2>5, <2>6, Zenon
<1>8. On(l) \/ Off(l)
  <2>1. l \in T
    <3> HIDE DEF T
    <3> QED BY ONLY <1>6, <1>7, l \in Nat, Induction, Zenon
  <2>2. l <= l
    BY ONLY l \in Nat
  <2> QED BY ONLY <2>1, <2>2, Zenon
<1>9. ~On(l)
  <2> SUFFICES ASSUME On(l) PROVE FALSE
    OBVIOUS
  <2>1. "ACCEPT" \in Magic
    BY DEF Magic
  <2>2. 0 \in 0..Len(fs) /\ l \in 0..Len(fs) /\ l - 0 = l
    BY ONLY <1>4, On(l), l \in Nat, n \in Nat
  <2>3. Place("ACCEPT", fs, l) \in Nat /\ Place("ACCEPT", fs, l) >= Place("ACCEPT", fs, 0) + 2 * (l - 0)
    BY ONLY <2>1, <2>2, fs \in Seq(Field), LaidGrows, Zenon
  <2>4. Place("ACCEPT", fs, 0) = 4
    BY ONLY fs \in Seq(Field), RunningFirst, Zenon DEF At
  <2>5. Place("ACCEPT", fs, l) <= l
    BY ONLY On(l), Zenon DEF At
  <2> QED BY ONLY <2>2, <2>3, <2>4, <2>5, l \in Nat
<1> QED BY ONLY <1>1, <1>3, <1>8, <1>9, Zenon

(* A frame begins with its magic. *)
LEMMA MagicFirst ==
    ASSUME NEW fs \in Seq(Field), NEW tr \in Nat, NEW q \in 1..4
    PROVE  Whole(fs, tr)[q] = MagicBytes["ACCEPT"][q]
<1>1. "ACCEPT" \in Magic
  BY DEF Magic
<1>2. Laid("ACCEPT", fs)[0] = MagicBytes["ACCEPT"]
  BY ONLY <1>1, LaidIs, fs \in Seq(Field), Zenon
<1>3. PICK e \in Nat : e = Place("ACCEPT", fs, Len(fs)) /\ e >= 4
  BY ONLY TrailerAt, fs \in Seq(Field), tr \in Nat, Zenon DEF At
<1>4. \A i \in 1..e : Whole(fs, tr)[i] = Laid("ACCEPT", fs)[Len(fs)][i]
  BY ONLY <1>1, <1>3, FrameIs, fs \in Seq(Field), tr \in Nat, Zenon DEF Whole
<1>5. 0 \in 0..Len(fs) /\ Len(fs) \in 0..Len(fs)
  BY fs \in Seq(Field)
<1>6. \A i \in 1..Place("ACCEPT", fs, 0) : Laid("ACCEPT", fs)[Len(fs)][i] = Laid("ACCEPT", fs)[0][i]
  BY ONLY <1>1, <1>5, fs \in Seq(Field), LaidGrows, Zenon
<1>7. Place("ACCEPT", fs, 0) = 4
  BY ONLY RunningFirst, fs \in Seq(Field), Zenon DEF At
<1>8. q \in 1..e
  BY ONLY <1>3, e \in Nat, q \in 1..4
<1> QED BY ONLY <1>2, <1>4, <1>6, <1>7, <1>8, q \in 1..4, Zenon

(* parse_frame_ gives the right answer to any beginning of a frame. *)
LEMMA ParseIs ==
    ASSUME NEW fs \in Seq(Field), Fits(fs), NEW tr \in Nat, tr % 16 = 12, NEW b, Beginning(b, Whole(fs, tr)),
           NEW max \in Nat, Len(b) <= max
    PROVE  Answers(fs, tr, Len(b), ParseFrame(b, max))
<1>1. PICK W \in Seq(Nat) : W = Whole(fs, tr)
  BY ONLY TrailerAt, fs \in Seq(Field), tr \in Nat, Zenon
<1>2. b \in Seq(Nat) /\ Len(b) <= Len(W) /\ \A q \in 1..Len(b) : b[q] = W[q]
  BY ONLY <1>1, Beginning(b, Whole(fs, tr)), Zenon DEF Beginning
<1>3. PICK l \in Nat : l = Len(b)
  BY ONLY <1>2
<1>4. "ACCEPT" \in Magic
  BY DEF Magic
<1>5. Good(fs, 0) /\ At(fs, 0) = 4
  BY ONLY fs \in Seq(Field), RunningFirst, Zenon
<1>6. CASE l < 4
  <2>1. Lacks(b, 4)
    BY ONLY <1>3, <1>6 DEF Lacks
  <2>2. ParseFrame(b, max) = NeedMore(4)
    BY ONLY <2>1, Zenon DEF ParseFrame
  <2>3. 4 <= Limit(fs, tr, 0)
    <3>1. CASE 0 < Len(fs)
      <4>1. PICK k \in 1..Len(fs) : k = 0 + 1 /\ k - 1 = 0
        BY <3>1, fs \in Seq(Field)
      <4>2. /\ At(fs, k) \in Nat /\ At(fs, k) = At(fs, k - 1) + 1 + fs[k].width
        BY ONLY fs \in Seq(Field), tr \in Nat, k \in 1..Len(fs), FieldAt, Zenon
      <4>3. fs[k] \in Field
        OBVIOUS
      <4>4. PICK w \in Nat : w = fs[k].width
        BY ONLY <4>3, EntryIs, Zenon
      <4>5. At(fs, k) = 4 + 1 + w
        BY ONLY <1>5, <4>1, <4>2, <4>4, Zenon
      <4>6. 4 <= 4 + 1 + w
        BY ONLY w \in Nat
      <4> QED BY ONLY <3>1, <4>1, <4>5, <4>6, Zenon DEF Limit
    <3>2. CASE ~(0 < Len(fs))
      <4>1. PICK p \in Nat : p = At(fs, Len(fs)) /\ p >= 4
        BY ONLY TrailerAt, fs \in Seq(Field), tr \in Nat, Zenon
      <4>2. PICK t \in Nat : t = TrailerLen(tr)
        BY ONLY WidthType, tr \in Nat
      <4>3. Len(W) = p + 1 + t
        BY ONLY <1>1, <4>1, <4>2, TrailerAt, fs \in Seq(Field), tr \in Nat, Zenon
      <4>4. 4 <= p + 1 + t
        BY ONLY <4>1, p \in Nat, t \in Nat
      <4> QED BY ONLY <1>1, <3>2, <4>3, <4>4, Zenon DEF Limit
    <3> QED BY ONLY <3>1, <3>2, Zenon
  <2>4. 0 \in 0..Len(fs) /\ 4 \in Nat
    BY fs \in Seq(Field)
  <2>5. Asks(fs, tr, l, 4)
    BY ONLY <1>5, <1>6, <2>3, <2>4, Zenon DEF Asks
  <2> QED BY ONLY <1>3, <2>2, <2>4, <2>5, Zenon DEF Answers
<1>7. CASE ~(l < 4)
  <2>1. ~Lacks(b, 4) /\ ~(max < 4) /\ Len(b) >= 4
    BY ONLY <1>3, <1>7, Len(b) <= max, l \in Nat, max \in Nat DEF Lacks
  <2>2. PICK M \in Seq(Nat) : M = MagicBytes["ACCEPT"] /\ Len(M) = 4
    BY ONLY <1>4, MagicIs, Zenon
  <2>3. \A q \in 1..4 : b[q] = M[q]
    <3> TAKE q \in 1..4
    <3>1. W[q] = M[q]
      BY ONLY <1>1, <2>2, fs \in Seq(Field), tr \in Nat, q \in 1..4, MagicFirst, Zenon
    <3>2. q \in 1..Len(b)
      BY ONLY <1>3, <1>7, l \in Nat, q \in 1..4
    <3> QED BY ONLY <1>2, <3>1, <3>2, Zenon
  <2>4. SubSeq(b, 1, 4) = M
    <3>1. PICK z : z = SubSeq(b, 1, 4)
      OBVIOUS
    <3>2. z \in Seq(Nat) /\ Len(z) = 4 /\ \A q \in 1..4 : z[q] = b[q]
      BY ONLY <1>2, <1>3, <1>7, <3>1, l \in Nat, SMTT(40)
    <3> QED BY ONLY <2>2, <2>3, <3>1, <3>2, M \in Seq(Nat), SMTT(60)
  <2>5. ~ \A m \in Magic : SubSeq(b, 1, 4) # MagicBytes[m]
    BY ONLY <1>4, <2>2, <2>4, Zenon
  <2>6. (CHOOSE m \in Magic : SubSeq(b, 1, 4) = MagicBytes[m]) = "ACCEPT"
    <3>1. PICK m \in Magic : m = (CHOOSE y \in Magic : SubSeq(b, 1, 4) = MagicBytes[y])
      BY ONLY <2>5, Zenon
    <3>2. SubSeq(b, 1, 4) = MagicBytes[m]
      BY ONLY <2>5, <3>1, Zenon
    <3>3. MagicBytes[m] = MagicBytes["ACCEPT"]
      BY ONLY <2>2, <2>4, <3>2, Zenon
    <3> QED BY ONLY <3>1, <3>3, MagicIs, m \in Magic, Zenon
  <2>7. ParseFrame(b, max) = Turns(b, max, "ACCEPT")[Len(b)].out
    BY ONLY <2>1, <2>5, <2>6, Zenon DEF ParseFrame
  <2>8. Answers(fs, tr, Len(b), Turns(b, max, "ACCEPT")[Len(b)].out)
    BY ONLY <2>1, fs \in Seq(Field), Fits(fs), tr \in Nat, tr % 16 = 12, Beginning(b, Whole(fs, tr)),
            max \in Nat, Len(b) <= max, LoopIs
  <2> QED BY ONLY <2>7, <2>8, Zenon
<1> QED BY ONLY <1>6, <1>7, Zenon

-----------------------------------------------------------------------------
(* Reading a frame from the stream.                                        *)

(* No request goes beyond the frame. *)
LEMMA LimitIs ==
    ASSUME NEW fs \in Seq(Field), NEW tr \in Nat, NEW k \in 0..Len(fs)
    PROVE  Limit(fs, tr, k) \in Nat /\ Len(Whole(fs, tr)) \in Nat /\ Limit(fs, tr, k) <= Len(Whole(fs, tr))
<1>1. PICK W \in Seq(Nat) : W = Whole(fs, tr)
  BY ONLY TrailerAt, fs \in Seq(Field), tr \in Nat, Zenon
<1>2. PICK l \in Nat : l = Len(W)
  OBVIOUS
<1>3. CASE k < Len(fs)
  <2>1. PICK j \in 1..Len(fs) : j = k + 1
    BY <1>3, fs \in Seq(Field)
  <2>2. At(fs, j) \in Nat /\ At(fs, j) < Len(Whole(fs, tr))
    BY ONLY fs \in Seq(Field), tr \in Nat, j \in 1..Len(fs), FieldAt, Zenon
  <2>3. Limit(fs, tr, k) = At(fs, j)
    BY ONLY <1>3, <2>1, Zenon DEF Limit
  <2> QED BY ONLY <1>1, <1>2, <2>2, <2>3, l \in Nat
<1>4. CASE ~(k < Len(fs))
  <2>1. Limit(fs, tr, k) = Len(Whole(fs, tr))
    BY ONLY <1>4, Zenon DEF Limit
  <2> QED BY ONLY <1>1, <1>2, <2>1, l \in Nat
<1> QED BY ONLY <1>3, <1>4, Zenon

(* The same, said of the number asked for. *)
LEMMA AsksWithin ==
    ASSUME NEW fs \in Seq(Field), NEW tr \in Nat, NEW l, NEW m \in Nat, Asks(fs, tr, l, m)
    PROVE  l < m /\ m <= Len(Whole(fs, tr))
<1>1. PICK k \in 0..Len(fs) : l < m /\ m <= Limit(fs, tr, k)
  BY ONLY Asks(fs, tr, l, m), Zenon DEF Asks
<1>2. Limit(fs, tr, k) \in Nat /\ Len(Whole(fs, tr)) \in Nat /\ Limit(fs, tr, k) <= Len(Whole(fs, tr))
  BY ONLY fs \in Seq(Field), tr \in Nat, k \in 0..Len(fs), LimitIs, Zenon
<1>3. m <= Len(Whole(fs, tr))
  BY ONLY <1>1, <1>2, m \in Nat
<1> QED BY ONLY <1>1, <1>3, Zenon

Drawn(W, N, b, st, m) ==
    /\ Len(st) \in Nat /\ m - Len(b) <= Len(st)
    /\ Beginning(b \o SubSeq(st, 1, m - Len(b)), W)
    /\ Len(b \o SubSeq(st, 1, m - Len(b))) = m
    /\ SubSeq(st, m - Len(b) + 1, Len(st)) = Rest(W \o N, m)

(* Taking what is still lacking from the rest of a stream. *)
LEMMA TakeOn ==
    ASSUME NEW W \in Seq(Nat), NEW N \in Seq(Nat), NEW b, Beginning(b, W),
           NEW st, st = Rest(W \o N, Len(b)), NEW m \in Nat, Len(b) < m, m <= Len(W)
    PROVE  Drawn(W, N, b, st, m)
<1>1. b \in Seq(Nat) /\ Len(b) <= Len(W) /\ \A q \in 1..Len(b) : b[q] = W[q]
  BY DEF Beginning
<1>2. PICK l \in Nat : l = Len(b)
  BY ONLY <1>1
<1>3. PICK w \in Nat, n \in Nat : w = Len(W) /\ n = Len(N) /\ l < m /\ m <= w
  BY ONLY <1>2, W \in Seq(Nat), N \in Seq(Nat), Len(b) < m, m <= Len(W)
<1>4. PICK x \in Seq(Nat) : x = W \o N /\ Len(x) = w + n /\ \A q \in 1..w : x[q] = W[q]
  <2>1. W \o N \in Seq(Nat) /\ Len(W \o N) = w + n /\ \A q \in 1..w : (W \o N)[q] = W[q]
    BY ONLY <1>3, W \in Seq(Nat), N \in Seq(Nat), w \in Nat, n \in Nat, Concat
  <2> QED BY ONLY <2>1, Zenon
<1>5. l <= Len(x) /\ m <= Len(x)
  BY ONLY <1>3, <1>4, l \in Nat, m \in Nat, w \in Nat, n \in Nat
<1>6. st = Rest(x, l)
  BY ONLY <1>2, <1>4, st = Rest(W \o N, Len(b)), Zenon
<1>7. /\ st \in Seq(Nat) /\ Len(st) = Len(x) - l /\ \A i \in 1..(Len(x) - l) : st[i] = x[l + i]
  BY ONLY <1>5, <1>6, x \in Seq(Nat), l \in Nat, RestIs, Zenon
<1>8. PICK d \in Nat, r \in Nat : d = m - l /\ r = Len(st) /\ d <= r /\ r = w + n - l /\ d >= 1 /\ l + d = m
  <2>a. Len(st) = w + n - l
    <3>1. Len(st) = Len(x) - l
      BY ONLY <1>7, Zenon
    <3>2. Len(x) = w + n
      BY ONLY <1>4, Zenon
    <3> QED BY ONLY <3>1, <3>2, l \in Nat, w \in Nat, n \in Nat
  <2>b. l < m /\ m <= w
    BY ONLY <1>3, Zenon
  <2>1. m - l \in Nat /\ Len(st) \in Nat /\ m - l <= Len(st) /\ Len(st) = w + n - l /\ m - l >= 1 /\ l + (m - l) = m
    BY ONLY <2>a, <2>b, l \in Nat, m \in Nat, w \in Nat, n \in Nat
  <2> QED BY ONLY <2>1, Zenon
<1>9. PICK t \in Seq(Nat) : t = SubSeq(st, 1, d) /\ Len(t) = d /\ \A i \in 1..d : t[i] = st[i]
  <2>1. 0 \in Nat /\ 0 <= d /\ d <= Len(st) /\ 0 + 1 = 1 /\ d - 0 = d /\ \A i \in 1..d : 0 + i = i
    BY ONLY <1>8, d \in Nat, r \in Nat
  <2>2. /\ Slice(st, 0, d) \in Seq(Nat) /\ Len(Slice(st, 0, d)) = d - 0
        /\ \A i \in 1..(d - 0) : Slice(st, 0, d)[i] = st[0 + i]
    BY ONLY <1>7, <2>1, d \in Nat, SliceIs, ZenonT(60)
  <2>3. Slice(st, 0, d) = SubSeq(st, 1, d)
    BY ONLY <2>1, Zenon DEF Slice
  <2> QED BY ONLY <2>1, <2>2, <2>3, Zenon
<1>10. \A i \in 1..d : t[i] = W[l + i]
  <2> TAKE i \in 1..d
  <2>1. i \in 1..(Len(x) - l) /\ l + i \in 1..w
    BY ONLY <1>3, <1>4, <1>8, i \in 1..d, l \in Nat, m \in Nat, w \in Nat, n \in Nat, d \in Nat
  <2> QED BY ONLY <1>4, <1>7, <1>9, <2>1, i \in 1..d, Zenon
<1>11. PICK b1 \in Seq(Nat) : /\ b1 = b \o t /\ Len(b1) = m
                             /\ \A q \in 1..m : b1[q] = IF q <= l THEN b[q] ELSE t[q - l]
  <2>1. /\ b \o t \in Seq(Nat) /\ Len(b \o t) = Len(b) + Len(t)
        /\ \A q \in 1..(Len(b) + Len(t)) : (b \o t)[q] = IF q <= Len(b) THEN b[q] ELSE t[q - Len(b)]
    BY ONLY <1>1, t \in Seq(Nat), Concat, Zenon
  <2>2. Len(b) = l /\ Len(t) = d /\ l + d = m
    BY ONLY <1>2, <1>8, <1>9, Zenon
  <2> QED BY ONLY <2>1, <2>2, Zenon
<1>12. \A q \in 1..m : b1[q] = W[q]
  <2> TAKE q \in 1..m
  <2>1. CASE q <= l
    <3>1. q \in 1..l
      BY ONLY <2>1, q \in 1..m, l \in Nat, m \in Nat
    <3> QED BY ONLY <1>1, <1>2, <1>11, <2>1, <3>1, q \in 1..m, Zenon
  <2>2. CASE ~(q <= l)
    <3>1. q - l \in 1..d /\ l + (q - l) = q
      BY ONLY <1>8, <2>2, q \in 1..m, l \in Nat, m \in Nat, d \in Nat
    <3> QED BY ONLY <1>10, <1>11, <2>2, <3>1, q \in 1..m, Zenon
  <2> QED BY ONLY <2>1, <2>2, Zenon
<1>13. Beginning(b1, W)
  <2>1. Len(b1) <= Len(W)
    BY ONLY <1>3, <1>11, Zenon
  <2> QED BY ONLY <1>11, <1>12, <2>1, b1 \in Seq(Nat), Zenon DEF Beginning
<1>14. SubSeq(st, d + 1, r) = Rest(x, m)
  <2>1. PICK z : z = Slice(st, d, r)
    OBVIOUS
  <2>2. z \in Seq(Nat) /\ Len(z) = r - d /\ \A i \in 1..(r - d) : z[i] = st[d + i]
    <3>1. st \in Seq(Nat) /\ d <= r /\ r <= Len(st)
      BY ONLY <1>7, <1>8, r \in Nat
    <3>2. /\ Slice(st, d, r) \in Seq(Nat) /\ Len(Slice(st, d, r)) = r - d
          /\ \A i \in 1..(r - d) : Slice(st, d, r)[i] = st[d + i]
      BY ONLY <3>1, d \in Nat, r \in Nat, SliceIs, ZenonT(60)
    <3> QED BY ONLY <2>1, <3>2, Zenon
  <2>3. PICK y : y = Rest(x, m)
    OBVIOUS
  <2>4. y \in Seq(Nat) /\ Len(y) = Len(x) - m /\ \A i \in 1..(Len(x) - m) : y[i] = x[m + i]
    BY ONLY <1>5, <2>3, x \in Seq(Nat), m \in Nat, RestIs, Zenon
  <2>5. PICK e \in Nat : e = r - d /\ e = Len(x) - m
    BY ONLY <1>4, <1>8, d \in Nat, r \in Nat, m \in Nat, l \in Nat, w \in Nat, n \in Nat
  <2>6. \A i \in 1..e : z[i] = y[i]
    <3> TAKE i \in 1..e
    <3>1. d + i \in 1..(Len(x) - l) /\ l + (d + i) = m + i
      BY ONLY <1>4, <1>8, <2>5, i \in 1..e, d \in Nat, r \in Nat, m \in Nat, l \in Nat, w \in Nat, n \in Nat
    <3> QED BY ONLY <1>7, <2>2, <2>4, <2>5, <3>1, i \in 1..e, Zenon
  <2>7. z \in Seq(Nat) /\ y \in Seq(Nat) /\ Len(z) = e /\ Len(y) = e
    BY ONLY <2>2, <2>4, <2>5, Zenon
  <2>8. z = y
    BY ONLY <2>6, <2>7
  <2> QED BY ONLY <2>1, <2>3, <2>8, Zenon DEF Slice
<1> QED BY ONLY <1>2, <1>4, <1>8, <1>9, <1>11, <1>13, <1>14, Zenon DEF Drawn

(* What a peer may write, and what follows it. *)
LEMMA Inputs ==
    /\ \A fs \in FieldLists : fs \in Seq(Field) /\ Fits(fs)
    /\ \A tr \in Trailers : tr \in Nat /\ tr % 16 = 12
    /\ \A m \in MaxSizes : m \in Nat /\ Cap(m) \in Nat /\ Cap(m) <= m
    /\ NextFrame \in Seq(Nat)
<1>1. ASSUME NEW fs \in FieldLists PROVE fs \in Seq(Field) /\ Fits(fs)
  <2>1. fs \in Seq(Field) /\ \A i \in DOMAIN fs : Shifts(fs[i].value, fs[i].width)[fs[i].width] = 0
    BY ONLY CodecAssumption, fs \in FieldLists, Zenon
  <2>2. DOMAIN fs = 1..Len(fs)
    BY ONLY <2>1
  <2> QED BY ONLY <2>1, <2>2, Zenon DEF Fits
<1>2. \A tr \in Trailers : tr \in Nat /\ tr % 16 = 12
  BY CodecAssumption
<1>3. \A m \in MaxSizes : m \in Nat /\ Cap(m) \in Nat /\ Cap(m) <= m
  BY CodecAssumption DEF Cap, MaxHandshakeFrame
<1>4. NextFrame \in Seq(Nat)
  <2>1. "CONFRM" \in Magic /\ << >> \in Seq(Field) /\ 28 \in Nat
    BY DEF Magic
  <2> QED BY ONLY <2>1, FrameIs, Zenon DEF NextFrame
<1> QED BY ONLY <1>1, <1>2, <1>3, <1>4, Zenon

(* What read_frame_async_ returns, with l bytes taken. *)
Result(fs, tr, max, l, r) ==
    \/ r.tag = "FrameTooLarge" /\ \E m \in Nat : Asks(fs, tr, l, m) /\ m > Cap(max)
    \/ r.tag = "UnsupportedOption" /\ Foreign(fs, tr)
    \/ r.tag = "MalformedBody" /\ \E k \in 1..Len(fs) : At(fs, k) <= l /\ Bad(fs, k)
    \/ /\ r.tag = "ok" /\ r.magic = "ACCEPT" /\ r.entries = Partial(fs, Len(fs))
       /\ Good(fs, Len(fs)) /\ tr \in {28, 44} /\ l = Len(Whole(fs, tr))

(* What is fixed when a frame is written. *)
FrTypes == fields \in FieldLists /\ trailer \in Trailers /\ maxSize \in MaxSizes

LEMMA FrFixed ==
    ASSUME FrTypes
    PROVE  /\ fields \in Seq(Field) /\ Fits(fields) /\ trailer \in Nat /\ trailer % 16 = 12
           /\ maxSize \in Nat /\ Cap(maxSize) \in Nat /\ Cap(maxSize) <= maxSize
           /\ Written \in Seq(Nat) /\ Written = Whole(fields, trailer) /\ NextFrame \in Seq(Nat)
<1>1. /\ fields \in Seq(Field) /\ Fits(fields) /\ trailer \in Nat /\ trailer % 16 = 12
      /\ maxSize \in Nat /\ Cap(maxSize) \in Nat /\ Cap(maxSize) <= maxSize /\ NextFrame \in Seq(Nat)
  BY ONLY FrTypes, Inputs, Zenon DEF FrTypes
<1>2. Written \in Seq(Nat) /\ Written = Whole(fields, trailer)
  BY ONLY <1>1, TrailerAt, Zenon DEF Written, Whole
<1> QED BY ONLY <1>1, <1>2, Zenon

(* What parse_frame_ says of a beginning of the frame. *)
LEMMA Parsed ==
    ASSUME FrTypes, NEW b, Beginning(b, Written), Len(b) <= Cap(maxSize)
    PROVE  Len(b) \in Nat /\ Answers(fields, trailer, Len(b), ParseFrame(b, maxSize))
<1>1. /\ fields \in Seq(Field) /\ Fits(fields) /\ trailer \in Nat /\ trailer % 16 = 12
      /\ maxSize \in Nat /\ Cap(maxSize) \in Nat /\ Cap(maxSize) <= maxSize
      /\ Written = Whole(fields, trailer)
  BY ONLY FrTypes, FrFixed, Zenon
<1>2. Len(b) \in Nat /\ Len(b) <= maxSize
  <2>1. b \in Seq(Nat)
    BY ONLY Beginning(b, Written), Zenon DEF Beginning
  <2> QED BY ONLY <1>1, <2>1, Len(b) <= Cap(maxSize)
<1>3. Beginning(b, Whole(fields, trailer))
  BY ONLY <1>1, Beginning(b, Written), Zenon
<1>4. Answers(fields, trailer, Len(b), ParseFrame(b, maxSize))
  BY ONLY <1>1, <1>2, <1>3, ParseIs
<1> QED BY ONLY <1>2, <1>4, Zenon

(* A request is for bytes that the frame has. *)
LEMMA Requested ==
    ASSUME FrTypes, NEW l, NEW p, Answers(fields, trailer, l, p), p.tag = "NeedMore"
    PROVE  /\ p.n \in Nat /\ Asks(fields, trailer, l, p.n)
           /\ l < p.n /\ p.n <= Len(Written)
<1>1. fields \in Seq(Field) /\ trailer \in Nat /\ Written = Whole(fields, trailer)
  BY ONLY FrTypes, FrFixed, Zenon
<1>2. p # Err("UnsupportedOption") /\ p # Err("MalformedBody") /\ p.tag # "ok"
  BY ONLY p.tag = "NeedMore", AnswerTypes DEF Errors
<1>3. PICK a \in Nat : p = NeedMore(a) /\ Asks(fields, trailer, l, a)
  BY ONLY <1>2, Answers(fields, trailer, l, p), Zenon DEF Answers
<1>4. p.n = a
  BY ONLY <1>3, a \in Nat, AnswerTypes, Zenon
<1>5. l < a /\ a <= Len(Whole(fields, trailer))
  BY ONLY <1>1, <1>3, a \in Nat, AsksWithin, Zenon
<1> QED BY ONLY <1>1, <1>3, <1>4, <1>5, Zenon

(* Any other answer is a result, ... *)
LEMMA Returned ==
    ASSUME NEW l, NEW p, Answers(fields, trailer, l, p), p.tag # "NeedMore"
    PROVE  Result(fields, trailer, maxSize, l, p)
<1>1. \A a \in Nat : p # NeedMore(a)
  BY ONLY p.tag # "NeedMore", AnswerTypes, Zenon
<1>2. Err("UnsupportedOption").tag = "UnsupportedOption" /\ Err("MalformedBody").tag = "MalformedBody"
  BY ONLY AnswerTypes DEF Errors
<1> QED BY ONLY <1>1, <1>2, Answers(fields, trailer, l, p), Zenon DEF Answers, Result

(* ... and so is the refusal of a request that is too large. *)
LEMMA RequestRefused ==
    ASSUME NEW l, NEW m \in Nat, Asks(fields, trailer, l, m), m > Cap(maxSize)
    PROVE  Result(fields, trailer, maxSize, l, Err("FrameTooLarge"))
<1>1. Err("FrameTooLarge").tag = "FrameTooLarge"
  BY ONLY AnswerTypes DEF Errors
<1> QED BY ONLY <1>1, m \in Nat, Asks(fields, trailer, l, m), m > Cap(maxSize), Zenon DEF Result

-----------------------------------------------------------------------------
(* Reading from a buffer that lends what it is asked for.                  *)

(* The reader holds a beginning of the frame, the stream has the rest and the
   next frame, and the result, once there is one, has its reason; or the peer
   has closed. *)
Intact == /\ Beginning(buf, Written) /\ Len(buf) <= Cap(maxSize)
          /\ stream = Rest(Written \o NextFrame, Len(buf))
          /\ res.tag = "reading" \/ Result(fields, trailer, maxSize, Len(buf), res)
FrInv == FrTypes /\ (~cut => Intact)

(* It holds when read_frame_async_ is called, ... *)
LEMMA FrInit == Init => FrInv
<1> SUFFICES ASSUME Init PROVE FrInv
  OBVIOUS
<1>1. /\ FrTypes /\ stream = Written \o NextFrame /\ buf = << >> /\ res = Err("reading")
  BY DEF Init, Written, FrTypes
<1>2. Cap(maxSize) \in Nat /\ NextFrame \in Seq(Nat) /\ Written \in Seq(Nat)
  BY ONLY <1>1, FrFixed, Zenon
<1>3. PICK W \in Seq(Nat) : W = Written
  BY ONLY <1>2, Zenon
<1>4. Beginning(buf, W) /\ Len(buf) = 0
  BY ONLY <1>1, W \in Seq(Nat) DEF Beginning
<1>5. res.tag = "reading"
  BY ONLY <1>1 DEF Err
<1>6. PICK x \in Seq(Nat) : x = W \o NextFrame
  <2>1. W \o NextFrame \in Seq(Nat)
    BY ONLY <1>2, W \in Seq(Nat), Concat
  <2> QED BY ONLY <2>1, Zenon
<1>7. x = Rest(x, 0)
  <2>1. PICK y : y = Rest(x, 0)
    OBVIOUS
  <2>2. 0 \in Nat /\ 0 <= Len(x)
    BY ONLY x \in Seq(Nat)
  <2>3. y \in Seq(Nat) /\ Len(y) = Len(x) - 0 /\ \A i \in 1..(Len(x) - 0) : y[i] = x[0 + i]
    BY ONLY <2>1, <2>2, x \in Seq(Nat), RestIs, Zenon
  <2>4. PICK n \in Nat : n = Len(x) /\ Len(x) - 0 = n /\ \A i \in 1..n : 0 + i = i
    BY ONLY x \in Seq(Nat)
  <2>5. y \in Seq(Nat) /\ Len(y) = n /\ \A i \in 1..n : y[i] = x[i]
    BY ONLY <2>3, <2>4, Zenon
  <2>6. x = y
    BY ONLY <2>4, <2>5, x \in Seq(Nat), SMTT(40)
  <2> QED BY ONLY <2>1, <2>6, Zenon
<1>8. 0 <= Cap(maxSize)
  BY ONLY <1>2
<1> QED BY ONLY <1>1, <1>3, <1>4, <1>5, <1>6, <1>7, <1>8, Zenon DEF FrInv, Intact

(* What a whole segment leaves in the n bytes it is copied into. *)
LEMMA Copied ==
    ASSUME NEW st \in Seq(Nat), NEW n \in Nat, n <= Len(st)
    PROVE  [i \in 1..n |-> IF i <= n THEN st[i] ELSE 0] = SubSeq(st, 1, n)
<1>1. PICK r \in Nat : r = Len(st)
  OBVIOUS
<1>2. SubSeq(st, 1, n) = [i \in 1..n |-> st[i]]
  BY ONLY <1>1, st \in Seq(Nat), n \in Nat, n <= Len(st), SMTT(40)
<1>3. \A i \in 1..n : i <= n
  BY ONLY n \in Nat
<1> QED BY ONLY <1>2, <1>3

(* ... when read_exact_into_ has read what was asked for, ... *)
LEMMA FrReadField == ASSUME Ideal, FrInv, ReadField PROVE FrInv'
<1>1. PICK p : p = ParseFrame(buf, maxSize)
  OBVIOUS
<1>2. PICK n : n = p.n - Len(buf)
  OBVIOUS
<1>3. /\ res.tag = "reading" /\ p.tag = "NeedMore" /\ p.n <= Cap(maxSize)
      /\ UNCHANGED <<fields, trailer, maxSize>>
  BY ONLY <1>1, ReadField, Zenon DEF ReadField
<1>a. PICK a \in 1..Len(stream) :
         /\ IF Lent(n, a) > n THEN res' = Err("Panic") /\ UNCHANGED buf
            ELSE /\ buf' = buf \o [i \in 1..n |-> IF i <= Lent(n, a) THEN stream[i] ELSE 0]
                 /\ UNCHANGED res
         /\ cut' = (cut \/ a < n)
         /\ a < n \/ stream' = SubSeq(stream, Lent(n, a) + 1, Len(stream))
  BY ONLY <1>1, <1>2, Ideal, ReadField, Zenon DEF ReadField
<1>4. PICK k : /\ k = Lent(n, a)
               /\ IF k > n THEN res' = Err("Panic") /\ UNCHANGED buf
                  ELSE buf' = buf \o [i \in 1..n |-> IF i <= k THEN stream[i] ELSE 0] /\ UNCHANGED res
               /\ cut' = (cut \/ a < n)
               /\ a < n \/ stream' = SubSeq(stream, k + 1, Len(stream))
  BY ONLY <1>a, Zenon
<1>5. FrTypes' /\ Written' = Written /\ NextFrame' = NextFrame /\ Cap(maxSize)' = Cap(maxSize)
  BY ONLY <1>3, FrInv DEF FrInv, FrTypes, Written, NextFrame
<1>6. ASSUME ~cut' PROVE Intact'
  <2>1. ~cut /\ ~(a < n)
    BY ONLY <1>4, <1>6, Zenon
  <2>2. FrTypes /\ Intact
    BY ONLY <2>1, FrInv, Zenon DEF FrInv
  <2>3. Beginning(buf, Written) /\ Len(buf) <= Cap(maxSize) /\ stream = Rest(Written \o NextFrame, Len(buf))
    BY ONLY <2>2, Zenon DEF Intact
  <2>4. Len(buf) \in Nat /\ Answers(fields, trailer, Len(buf), p)
    BY ONLY <1>1, <2>2, <2>3, Parsed, Zenon
  <2>5. PICK m \in Nat : m = p.n /\ Len(buf) < m /\ m <= Len(Written)
    BY ONLY <1>3, <2>2, <2>4, Requested, Zenon
  <2>6. Written \in Seq(Nat) /\ NextFrame \in Seq(Nat)
    BY ONLY <2>2, FrFixed, Zenon
  <2>7. Drawn(Written, NextFrame, buf, stream, m)
    BY ONLY <2>3, <2>5, <2>6, m \in Nat, TakeOn, Zenon
  <2>8. PICK d \in Nat : d = n /\ d = m - Len(buf) /\ ~(a < d)
    BY ONLY <1>2, <2>1, <2>4, <2>5, m \in Nat
  <2>9. Len(stream) \in Nat /\ d <= Len(stream)
    BY ONLY <2>7, <2>8, Zenon DEF Drawn
  <2>10. k = d
    <3>1. a \in Nat /\ d \in Nat
      BY ONLY <2>9, a \in 1..Len(stream), d \in Nat
    <3>2. Lent(d, a) = IF a < d THEN a ELSE d
      BY ONLY Ideal, Zenon DEF Lent
    <3> QED BY ONLY <1>4, <2>8, <3>2, Zenon
  <2>11. ~(k > n)
    BY ONLY <2>8, <2>10, d \in Nat
  <2>12. stream \in Seq(Nat)
    <3>1. Written \o NextFrame \in Seq(Nat) /\ Len(Written \o NextFrame) = Len(Written) + Len(NextFrame)
      BY ONLY <2>6, Concat, Zenon
    <3>2. Len(buf) <= Len(Written \o NextFrame)
      BY ONLY <2>4, <2>5, <2>6, <3>1, m \in Nat
    <3> QED BY ONLY <2>3, <2>4, <3>1, <3>2, RestIs, Zenon
  <2>13. [i \in 1..d |-> IF i <= d THEN stream[i] ELSE 0] = SubSeq(stream, 1, d)
    BY ONLY <2>9, <2>12, d \in Nat, Copied, Zenon
  <2>14. buf' = buf \o SubSeq(stream, 1, d) /\ res' = res
    BY ONLY <1>4, <2>8, <2>10, <2>11, <2>13, Zenon
  <2>15. stream' = SubSeq(stream, d + 1, Len(stream))
    BY ONLY <1>4, <2>1, <2>10, Zenon
  <2>16. Beginning(buf', Written) /\ Len(buf') = m /\ stream' = Rest(Written \o NextFrame, m)
    BY ONLY <2>7, <2>8, <2>14, <2>15, Zenon DEF Drawn
  <2>17. res'.tag = "reading"
    BY ONLY <1>3, <2>14, Zenon
  <2> QED BY ONLY <1>3, <1>5, <2>5, <2>16, <2>17 DEF Intact
<1> QED BY ONLY <1>5, <1>6, Zenon DEF FrInv

(* ... and when read_frame_async_ returns. *)
LEMMA FrFinish == ASSUME FrInv, Finish PROVE FrInv'
<1>1. PICK p : p = ParseFrame(buf, maxSize)
  OBVIOUS
<1>2. /\ \/ p.tag # "NeedMore" /\ res' = p /\ UNCHANGED cut
         \/ p.tag = "NeedMore" /\ p.n > Cap(maxSize) /\ res' = Err("FrameTooLarge") /\ UNCHANGED cut
         \/ cut' = TRUE
      /\ UNCHANGED <<fields, trailer, maxSize, stream, buf>>
  BY ONLY <1>1, Finish, Zenon DEF Finish
<1>3. FrTypes' /\ Written' = Written /\ NextFrame' = NextFrame
  BY ONLY <1>2, FrInv DEF FrInv, FrTypes, Written, NextFrame
<1>4. ASSUME ~cut' PROVE Intact'
  <2>1. ~cut
    BY ONLY <1>2, <1>4, Zenon
  <2>2. FrTypes /\ Intact
    BY ONLY <2>1, FrInv, Zenon DEF FrInv
  <2>3. Beginning(buf, Written) /\ Len(buf) <= Cap(maxSize)
    BY ONLY <2>2, Zenon DEF Intact
  <2>4. Answers(fields, trailer, Len(buf), p)
    BY ONLY <1>1, <2>2, <2>3, Parsed, Zenon
  <2>6. ASSUME p.tag = "NeedMore", p.n > Cap(maxSize), res' = Err("FrameTooLarge")
        PROVE  Result(fields, trailer, maxSize, Len(buf), res')
    <3>1. p.n \in Nat /\ Asks(fields, trailer, Len(buf), p.n)
      BY ONLY <2>2, <2>4, <2>6, Requested, Zenon
    <3> QED BY ONLY <2>6, <3>1, RequestRefused, Zenon
  <2>7. Result(fields, trailer, maxSize, Len(buf), res')
    <3>1. \/ p.tag # "NeedMore" /\ res' = p
          \/ p.tag = "NeedMore" /\ p.n > Cap(maxSize) /\ res' = Err("FrameTooLarge")
      BY ONLY <1>2, <1>4, Zenon
    <3>2. CASE p.tag # "NeedMore" /\ res' = p
      BY ONLY <2>4, <3>2, Returned, Zenon
    <3> QED BY ONLY <2>6, <3>1, <3>2, Zenon
  <2> QED BY ONLY <1>2, <1>3, <2>2, <2>7 DEF Intact
<1> QED BY ONLY <1>3, <1>4, Zenon DEF FrInv

(* What is left behind the first of two sequences is the second. *)
LEMMA RestBehind ==
    ASSUME NEW x \in Seq(Nat), NEW y \in Seq(Nat)
    PROVE  Rest(x \o y, Len(x)) = y
<1>1. PICK k \in Nat, n \in Nat : k = Len(x) /\ n = Len(y)
  OBVIOUS
<1>2. PICK z \in Seq(Nat) : /\ z = x \o y /\ Len(z) = k + n
                            /\ \A i \in 1..(k + n) : z[i] = IF i <= k THEN x[i] ELSE y[i - k]
  <2>1. /\ x \o y \in Seq(Nat) /\ Len(x \o y) = Len(x) + Len(y)
        /\ \A i \in 1..(Len(x) + Len(y)) : (x \o y)[i] = IF i <= Len(x) THEN x[i] ELSE y[i - Len(x)]
    BY ONLY x \in Seq(Nat), y \in Seq(Nat), Concat, Zenon
  <2> QED BY ONLY <1>1, <2>1, Zenon
<1>3. PICK r : r = Rest(z, k)
  OBVIOUS
<1>4. k <= Len(z) /\ Len(z) - k = n
  BY ONLY <1>2, k \in Nat, n \in Nat
<1>5. r \in Seq(Nat) /\ Len(r) = n /\ \A i \in 1..n : r[i] = z[k + i]
  <2>1. /\ Rest(z, k) \in Seq(Nat) /\ Len(Rest(z, k)) = Len(z) - k
        /\ \A i \in 1..(Len(z) - k) : Rest(z, k)[i] = z[k + i]
    BY ONLY <1>4, z \in Seq(Nat), k \in Nat, RestIs, Zenon
  <2> QED BY ONLY <1>3, <1>4, <2>1, Zenon
<1>6. \A i \in 1..n : r[i] = y[i]
  <2> TAKE i \in 1..n
  <2>1. k + i \in 1..(k + n) /\ ~(k + i <= k) /\ (k + i) - k = i
    BY ONLY i \in 1..n, k \in Nat, n \in Nat
  <2> QED BY ONLY <1>2, <1>5, <2>1, i \in 1..n, Zenon
<1>7. r = y
  <2>1. r \in Seq(Nat) /\ Len(r) = n /\ Len(y) = n
    BY ONLY <1>1, <1>5, Zenon
  <2> QED BY ONLY <1>6, <2>1, y \in Seq(Nat)
<1> QED BY ONLY <1>1, <1>2, <1>3, <1>7, Zenon

(* The invariant says what the protocol promises. *)
LEMMA FrReads == FrInv => (~cut => ReadsWhatWasSent)
<1> SUFFICES ASSUME FrInv, ~cut PROVE ReadsWhatWasSent
  OBVIOUS
<1>a. FrTypes /\ Intact
  BY ONLY FrInv, ~cut, Zenon DEF FrInv
<1>1. /\ fields \in Seq(Field) /\ trailer \in Nat
      /\ Written \in Seq(Nat) /\ Written = Whole(fields, trailer)
  BY ONLY <1>a, FrFixed, Zenon
<1>2. /\ Len(buf) <= Cap(maxSize) /\ stream = Rest(Written \o NextFrame, Len(buf))
      /\ res.tag = "reading" \/ Result(fields, trailer, maxSize, Len(buf), res)
      /\ maxSize \in MaxSizes
  BY ONLY <1>a, Zenon DEF FrTypes, Intact
<1>3. PICK n \in Nat : n = Len(fields) /\ DOMAIN fields = 1..n
  BY ONLY <1>1
<1>4. PICK c \in Nat : c = Cap(maxSize)
  BY ONLY <1>2, Inputs, Zenon
<1>5. NextFrame \in Seq(Nat)
  BY ONLY Inputs, Zenon
<1>6. ASSUME Done, Legal
      PROVE  res.tag = "ok" /\ stream = NextFrame
  <2>1. Result(fields, trailer, maxSize, Len(buf), res)
    BY ONLY <1>2, <1>6, Zenon DEF Done
  <2>2. /\ \A i \in 1..n : fields[i].key \in Keys /\ fields[i].value # 0
        /\ \A i, j \in 1..n : fields[i].key = fields[j].key => i = j
        /\ trailer \in {28, 44} /\ Len(Written) <= Cap(maxSize)
    BY ONLY <1>3, <1>6, Zenon DEF Legal
  <2>3. ASSUME NEW m \in Nat, Asks(fields, trailer, Len(buf), m), m > Cap(maxSize) PROVE FALSE
    <3>1. m <= Len(Written)
      BY ONLY <1>1, <2>3, m \in Nat, AsksWithin, Zenon
    <3>2. PICK k \in Nat : k = Len(Written)
      BY ONLY <1>1
    <3> QED BY ONLY <1>4, <2>2, <2>3, <3>1, <3>2, m \in Nat, k \in Nat, c \in Nat
  <2>4. ~Foreign(fields, trailer)
    BY ONLY <1>3, <2>2, Zenon DEF Foreign
  <2>5. ASSUME NEW k \in 1..Len(fields), Bad(fields, k) PROVE FALSE
    <3>1. \A j \in 1..(k - 1) : j \in 1..n /\ j # k
      BY ONLY <1>3, n \in Nat, k \in 1..Len(fields)
    <3> QED BY ONLY <1>3, <2>2, <2>5, <3>1, k \in 1..Len(fields), Zenon DEF Bad
  <2>6. res.tag = "ok" /\ Len(buf) = Len(Written)
    BY ONLY <1>1, <2>1, <2>3, <2>4, <2>5, Zenon DEF Result
  <2>7. stream = NextFrame
    <3>1. stream = Rest(Written \o NextFrame, Len(Written))
      BY ONLY <1>2, <2>6, Zenon
    <3> QED BY ONLY <1>1, <1>5, <3>1, RestBehind, Zenon
  <2> QED BY ONLY <2>6, <2>7, Zenon
<1>7. ASSUME Done, res.tag = "ok" PROVE Legal /\ res.magic = "ACCEPT" /\ res.entries = Meaning
  <2>1. /\ Good(fields, Len(fields)) /\ trailer \in {28, 44} /\ Len(buf) = Len(Whole(fields, trailer))
        /\ res.magic = "ACCEPT" /\ res.entries = Partial(fields, Len(fields))
    BY ONLY <1>2, <1>7 DEF Result, Done
  <2>2. Len(Written) <= Cap(maxSize)
    BY ONLY <1>1, <1>2, <2>1, Zenon
  <2>3. Partial(fields, Len(fields)) = Meaning
    BY ONLY <1>3, Zenon DEF Partial, Meaning
  <2>4. Legal
    BY ONLY <1>3, <2>1, <2>2, Zenon DEF Legal, Good
  <2> QED BY ONLY <2>1, <2>3, <2>4, Zenon
<1> QED BY ONLY <1>2, <1>6, <1>7, Zenon DEF ReadsWhatWasSent

-----------------------------------------------------------------------------
(* The size that the protocol model counts is the length of the bytes.     *)

Canon(fs) == /\ \A i \in 1..Len(fs) : fs[i].key \in Keys /\ fs[i].width = Width(fs[i].value)
             /\ \A i, j \in 1..Len(fs) : i < j => fs[i].key < fs[j].key

(* The bytes of the first i entries, each under its key. *)
Cells(fs, i) == {q \in Keys \X (0..8) : \E j \in 1..i : q[1] = fs[j].key /\ q[2] <= fs[j].width}

(* Keys that rise differ, and stand in the order of the entries. *)
LEMMA KeysRise ==
    ASSUME NEW fs \in Seq(Field), Canon(fs), NEW i \in 1..Len(fs), NEW j \in 1..Len(fs)
    PROVE  (fs[i].key = fs[j].key => i = j) /\ (fs[j].key <= fs[i].key => j <= i)
<1>1. Len(fs) \in Nat /\ i \in Nat /\ j \in Nat
  OBVIOUS
<1>2. PICK a \in Int, b \in Int : a = fs[i].key /\ b = fs[j].key
  <2>1. fs[i].key \in Keys /\ fs[j].key \in Keys
    BY ONLY Canon(fs), i \in 1..Len(fs), j \in 1..Len(fs), Zenon DEF Canon
  <2> QED BY ONLY <2>1, BasicCountAssumption DEF Keys
<1>3. (i < j => a < b) /\ (j < i => b < a)
  BY ONLY <1>2, Canon(fs), i \in 1..Len(fs), j \in 1..Len(fs), Zenon DEF Canon
<1>4. (a = b => i = j) /\ (b <= a => j <= i)
  BY ONLY <1>1, <1>3, a \in Int, b \in Int
<1> QED BY ONLY <1>2, <1>4, Zenon

(* An entry more. *)
LEMMA CellsGrow ==
    ASSUME NEW fs \in Seq(Field), Canon(fs), NEW k \in 1..Len(fs)
    PROVE  /\ Cells(fs, k) = Cells(fs, k - 1) \cup ({fs[k].key} \X (0..fs[k].width))
           /\ Cells(fs, k - 1) \cap ({fs[k].key} \X (0..fs[k].width)) = {}
<1>1. fs[k] \in Field
  OBVIOUS
<1>2. PICK w \in Nat : w = fs[k].width /\ w <= 8
  BY ONLY <1>1 DEF Field
<1>3. PICK a \in Keys : a = fs[k].key
  BY ONLY Canon(fs), k \in 1..Len(fs), Zenon DEF Canon
<1>4. k \in 1..k /\ \A j \in 1..k : j \in 1..(k - 1) \/ j = k
  OBVIOUS
<1>5. \A j \in 1..(k - 1) : j \in 1..k /\ j \in 1..Len(fs) /\ j # k
  OBVIOUS
<1>6. \A j \in 1..(k - 1) : fs[j].key # a
  BY ONLY <1>3, <1>5, fs \in Seq(Field), Canon(fs), k \in 1..Len(fs), KeysRise, Zenon
<1> DEFINE C == {a} \X (0..w)
<1>7. ASSUME NEW q PROVE q \in C <=> q \in Keys \X (0..8) /\ q[1] = a /\ q[2] <= w
  BY ONLY <1>2, a \in Keys, w \in Nat, SMTT(40)
<1> HIDE DEF C
<1>8. Cells(fs, k) = Cells(fs, k - 1) \cup C
  <2>1. ASSUME NEW q \in Cells(fs, k) PROVE q \in Cells(fs, k - 1) \cup C
    <3>1. q \in Keys \X (0..8) /\ \E j \in 1..k : q[1] = fs[j].key /\ q[2] <= fs[j].width
      BY ONLY q \in Cells(fs, k), Zenon DEF Cells
    <3>2. PICK j \in 1..k : q[1] = fs[j].key /\ q[2] <= fs[j].width
      BY ONLY <3>1, Zenon
    <3>3. CASE j \in 1..(k - 1)
      BY ONLY <3>1, <3>2, <3>3, Zenon DEF Cells
    <3>4. CASE j = k
      BY ONLY <1>2, <1>3, <1>7, <3>1, <3>2, <3>4, Zenon
    <3> QED BY ONLY <1>4, <3>3, <3>4, j \in 1..k, Zenon
  <2>2. ASSUME NEW q \in Cells(fs, k - 1) PROVE q \in Cells(fs, k)
    BY ONLY <1>5, q \in Cells(fs, k - 1), Zenon DEF Cells
  <2>3. ASSUME NEW q \in C PROVE q \in Cells(fs, k)
    BY ONLY <1>2, <1>3, <1>4, <1>7, q \in C, Zenon DEF Cells
  <2> QED BY ONLY <2>1, <2>2, <2>3, Zenon
<1>9. Cells(fs, k - 1) \cap C = {}
  <2>1. ASSUME NEW q \in Cells(fs, k - 1), q \in C PROVE FALSE
    <3>1. PICK j \in 1..(k - 1) : q[1] = fs[j].key
      BY ONLY q \in Cells(fs, k - 1), Zenon DEF Cells
    <3> QED BY ONLY <1>6, <1>7, <2>1, <3>1, j \in 1..(k - 1), Zenon
  <2> QED BY ONLY <2>1, Zenon
<1> QED BY ONLY <1>2, <1>3, <1>8, <1>9, Zenon DEF C

(* There are as many as the frame has bytes behind the magic. *)
LEMMA CellsCount ==
    ASSUME NEW fs \in Seq(Field), Canon(fs), NEW i \in 0..Len(fs)
    PROVE  IsFiniteSet(Cells(fs, i)) /\ 4 + Cardinality(Cells(fs, i)) = At(fs, i)
<1>1. PICK n \in Nat : n = Len(fs)
  OBVIOUS
<1> DEFINE T == {d \in Nat : d <= n => IsFiniteSet(Cells(fs, d)) /\ 4 + Cardinality(Cells(fs, d)) = At(fs, d)}
<1>2. 0 \in T
  <2>1. \A j \in 1..0 : FALSE
    OBVIOUS
  <2>2. Cells(fs, 0) = {}
    BY ONLY <2>1, Zenon DEF Cells
  <2>3. At(fs, 0) = 4
    BY ONLY fs \in Seq(Field), RunningFirst, Zenon
  <2>4. IsFiniteSet(Cells(fs, 0)) /\ Cardinality(Cells(fs, 0)) = 0
    BY ONLY <2>2, FS_EmptySet, Zenon
  <2>5. 4 + 0 = 4 /\ 0 \in Nat
    OBVIOUS
  <2> QED BY ONLY <2>3, <2>4, <2>5, Zenon
<1>3. ASSUME NEW d \in Nat, d \in T PROVE d + 1 \in T
  <2> SUFFICES ASSUME d + 1 <= n
               PROVE  IsFiniteSet(Cells(fs, d + 1)) /\ 4 + Cardinality(Cells(fs, d + 1)) = At(fs, d + 1)
    OBVIOUS
  <2>1. PICK k \in 1..Len(fs) : k = d + 1 /\ k - 1 = d /\ d <= n
    BY ONLY <1>1, d \in Nat, n \in Nat, d + 1 <= n
  <2>2. PICK S : S = Cells(fs, d) /\ IsFiniteSet(S) /\ 4 + Cardinality(S) = At(fs, d)
    BY ONLY <1>3, <2>1, Zenon
  <2>3. fs[k] \in Field
    OBVIOUS
  <2>4. PICK w \in Nat : w = fs[k].width
    BY ONLY <2>3, EntryIs, Zenon
  <2>5. PICK C : C = {fs[k].key} \X (0..w)
    OBVIOUS
  <2>6. Cells(fs, k) = S \cup C /\ S \cap C = {}
    BY ONLY <2>1, <2>2, <2>4, <2>5, fs \in Seq(Field), Canon(fs), k \in 1..Len(fs), CellsGrow, ZenonT(60)
  <2>7. IsFiniteSet(C) /\ Cardinality(C) = w + 1
    <3>1. IsFiniteSet(0..w) /\ Cardinality(0..w) = w + 1
      BY ONLY w \in Nat, FS_Interval
    <3>2. IsFiniteSet({fs[k].key}) /\ Cardinality({fs[k].key}) = 1
      BY ONLY FS_Singleton, Zenon
    <3>3. IsFiniteSet(C) /\ Cardinality(C) = Cardinality({fs[k].key}) * Cardinality(0..w)
      BY ONLY <2>5, <3>1, <3>2, FS_Product, Zenon
    <3> QED BY ONLY <3>1, <3>2, <3>3, w \in Nat
  <2>8. IsFiniteSet(S \cup C) /\ Cardinality(S \cup C) = Cardinality(S) + Cardinality(C) - Cardinality(S \cap C)
    BY ONLY <2>2, <2>7, FS_Union, Zenon
  <2>9. Cardinality(S) \in Nat /\ Cardinality(S \cap C) = 0
    BY ONLY <2>2, <2>6, FS_CardinalityType, FS_EmptySet, Zenon
  <2>10. At(fs, k) = At(fs, k - 1) + 1 + fs[k].width
    <3>1. "ACCEPT" \in Magic
      BY DEF Magic
    <3> QED BY ONLY <3>1, fs \in Seq(Field), k \in 1..Len(fs), EntryLaid, Zenon DEF At
  <2>11. At(fs, k) = At(fs, d) + 1 + w
    BY ONLY <2>1, <2>4, <2>10, Zenon
  <2>12. PICK e \in Nat : e = Cardinality(S)
    BY ONLY <2>9, Zenon
  <2>13. Cardinality(S \cup C) = e + (w + 1) - 0 /\ 4 + e = At(fs, d)
    BY ONLY <2>2, <2>7, <2>8, <2>9, <2>12, Zenon
  <2>14. 4 + Cardinality(S \cup C) = At(fs, k)
    BY ONLY <2>11, <2>13, e \in Nat, w \in Nat
  <2> QED BY ONLY <2>1, <2>6, <2>8, <2>14, Zenon
<1>4. i \in T
  <2>1. i \in Nat
    OBVIOUS
  <2> HIDE DEF T
  <2> QED BY ONLY <1>2, <1>3, <2>1, Induction, Zenon
<1>5. i <= n
  BY ONLY <1>1, i \in 0..Len(fs)
<1> QED BY ONLY <1>4, <1>5, Zenon

(* What an ordered frame means. *)
LEMMA CanonMeaning ==
    ASSUME NEW fs \in Seq(Field), Canon(fs), NEW M, M = Partial(fs, Len(fs))
    PROVE  /\ \A i \in 1..Len(fs) : M[fs[i].key] = fs[i].value /\ fs[i].value \in Nat /\ fs[i].value # None
           /\ \A x \in Keys : M[x] # None => \E i \in 1..Len(fs) : fs[i].key = x
<1>1. ASSUME NEW i \in 1..Len(fs) PROVE M[fs[i].key] = fs[i].value /\ fs[i].value \in Nat /\ fs[i].value # None
  <2>1. fs[i] \in Field
    OBVIOUS
  <2>2. fs[i].value \in Nat /\ fs[i].value # None
    BY ONLY <2>1 DEF Field, None
  <2>3. PICK x \in Keys : x = fs[i].key
    BY ONLY Canon(fs), i \in 1..Len(fs), Zenon DEF Canon
  <2>4. PICK c \in 1..Len(fs) : c = (CHOOSE j \in 1..Len(fs) : fs[j].key = x) /\ fs[c].key = x
    BY ONLY <2>3, i \in 1..Len(fs), Zenon
  <2>5. c = i
    BY ONLY <2>3, <2>4, fs \in Seq(Field), Canon(fs), c \in 1..Len(fs), i \in 1..Len(fs), KeysRise, Zenon
  <2>6. M[x] = fs[i].value
    BY ONLY <2>3, <2>4, <2>5, M = Partial(fs, Len(fs)), x \in Keys, i \in 1..Len(fs), Zenon DEF Partial
  <2> QED BY ONLY <2>2, <2>3, <2>6, Zenon
<1>2. ASSUME NEW x \in Keys, \A i \in 1..Len(fs) : fs[i].key # x PROVE M[x] = None
  BY ONLY <1>2, x \in Keys, M = Partial(fs, Len(fs)), Zenon DEF Partial
<1> QED BY ONLY <1>1, <1>2, Zenon

(* The bytes that the protocol model counts, up to a key behind i entries. *)
LEMMA SizeBehind ==
    ASSUME NEW fs \in Seq(Field), Canon(fs), NEW M, M = Partial(fs, Len(fs)),
           NEW c \in Keys, NEW i \in 0..Len(fs), \A j \in 1..Len(fs) : fs[j].key <= c <=> j <= i
    PROVE  SizeUpto(M, c) = At(fs, i)
<1>1. /\ \A j \in 1..Len(fs) : M[fs[j].key] = fs[j].value /\ fs[j].value # None
      /\ \A x \in Keys : M[x] # None => \E j \in 1..Len(fs) : fs[j].key = x
  BY ONLY fs \in Seq(Field), Canon(fs), M = Partial(fs, Len(fs)), CanonMeaning, ZenonT(60)
<1>2. \A j \in 1..Len(fs) : fs[j].key \in Keys /\ fs[j].width = Width(fs[j].value)
  BY ONLY Canon(fs), Zenon DEF Canon
<1>3. /\ \A x \in 0..c : x \in Keys /\ x <= c
      /\ \A x \in Keys : x <= c => x \in 0..c
  BY ONLY c \in Keys, BasicCountAssumption DEF Keys
<1>4. /\ \A j \in 1..i : j \in 1..Len(fs) /\ j <= i
      /\ \A j \in 1..Len(fs) : j <= i => j \in 1..i
  BY ONLY i \in 0..Len(fs), fs \in Seq(Field)
<1> DEFINE S == {p \in (0..c) \X (0..8) : M[p[1]] # None /\ p[2] <= Width(M[p[1]])}
<1>5. ASSUME NEW q PROVE /\ q \in (0..c) \X (0..8) <=> q \in Keys \X (0..8) /\ q[1] <= c
  BY ONLY <1>3
<1>a. \A q \in Keys \X (0..8) : q[1] \in Keys
  OBVIOUS
<1>6. ASSUME NEW q \in S PROVE q \in Cells(fs, i)
  <2>1. q \in Keys \X (0..8) /\ q[1] <= c /\ M[q[1]] # None /\ q[2] <= Width(M[q[1]])
    BY ONLY <1>5, q \in S, Zenon
  <2>2. PICK j \in 1..Len(fs) : fs[j].key = q[1]
    BY ONLY <1>1, <1>a, <2>1, Zenon
  <2>3. j \in 1..i /\ q[2] <= fs[j].width
    <3>1. fs[j].key <= c
      BY ONLY <2>1, <2>2, Zenon
    <3>2. j <= i
      BY ONLY <3>1, j \in 1..Len(fs), \A x \in 1..Len(fs) : fs[x].key <= c <=> x <= i, Zenon
    <3>3. M[fs[j].key] = fs[j].value /\ fs[j].width = Width(fs[j].value)
      BY ONLY <1>1, <1>2, j \in 1..Len(fs), Zenon
    <3>4. Width(M[q[1]]) = fs[j].width
      BY ONLY <2>2, <3>3, Zenon
    <3>5. q[2] <= fs[j].width
      BY ONLY <2>1, <3>4, Zenon
    <3> QED BY ONLY <1>4, <3>2, <3>5, j \in 1..Len(fs), Zenon
  <2> QED BY ONLY <2>1, <2>2, <2>3, Zenon DEF Cells
<1>7. ASSUME NEW q \in Cells(fs, i) PROVE q \in S
  <2>1. PICK j \in 1..i : q \in Keys \X (0..8) /\ q[1] = fs[j].key /\ q[2] <= fs[j].width
    BY ONLY q \in Cells(fs, i), Zenon DEF Cells
  <2>2. j \in 1..Len(fs) /\ fs[j].key <= c
    BY ONLY <1>4, j \in 1..i, \A x \in 1..Len(fs) : fs[x].key <= c <=> x <= i, Zenon
  <2>3. M[q[1]] # None /\ q[2] <= Width(M[q[1]]) /\ q \in (0..c) \X (0..8)
    <3>1. M[fs[j].key] = fs[j].value /\ fs[j].width = Width(fs[j].value) /\ fs[j].value # None
      BY ONLY <1>1, <1>2, <2>2, Zenon
    <3>2. M[q[1]] = fs[j].value /\ Width(M[q[1]]) = fs[j].width
      BY ONLY <2>1, <3>1, Zenon
    <3>3. q[1] <= c
      BY ONLY <2>1, <2>2, Zenon
    <3>4. q[2] <= Width(M[q[1]])
      BY ONLY <2>1, <3>2, Zenon
    <3> QED BY ONLY <1>5, <2>1, <3>1, <3>2, <3>3, <3>4, Zenon
  <2> QED BY ONLY <2>3, Zenon
<1>8. S = Cells(fs, i)
  <2> HIDE DEF S
  <2> QED BY ONLY <1>6, <1>7, Zenon
<1>9. 4 + Cardinality(Cells(fs, i)) = At(fs, i)
  BY ONLY fs \in Seq(Field), Canon(fs), i \in 0..Len(fs), CellsCount, Zenon
<1> QED BY ONLY <1>8, <1>9, Zenon DEF SizeUpto

(* Up to each entry, and for the whole frame with the CRC-16. *)
LEMMA SizesAre ==
    ASSUME NEW fs \in Seq(Field), Canon(fs), NEW M, M = Partial(fs, Len(fs))
    PROVE  /\ \A i \in 1..Len(fs) : SizeUpto(M, fs[i].key) = At(fs, i)
           /\ Size(M) = Len(Whole(fs, 28))
<1>1. ASSUME NEW i \in 1..Len(fs) PROVE SizeUpto(M, fs[i].key) = At(fs, i)
  <2>1. PICK c \in Keys : c = fs[i].key
    BY ONLY Canon(fs), i \in 1..Len(fs), Zenon DEF Canon
  <2>2. ASSUME NEW j \in 1..Len(fs) PROVE fs[j].key <= c <=> j <= i
    <3>1. PICK a \in Int, b \in Int : a = fs[i].key /\ b = fs[j].key
      <4>1. fs[i].key \in Keys /\ fs[j].key \in Keys
        BY ONLY Canon(fs), i \in 1..Len(fs), j \in 1..Len(fs), Zenon DEF Canon
      <4> QED BY ONLY <4>1, BasicCountAssumption DEF Keys
    <3>2. (b <= a => j <= i) /\ (j < i => b < a)
      BY ONLY <3>1, fs \in Seq(Field), Canon(fs), i \in 1..Len(fs), j \in 1..Len(fs), KeysRise, Zenon DEF Canon
    <3>3. i = j => a = b
      BY ONLY <3>1, Zenon
    <3>4. i \in Nat /\ j \in Nat
      BY i \in 1..Len(fs), j \in 1..Len(fs)
    <3>5. b <= a <=> j <= i
      BY ONLY <3>2, <3>3, <3>4, a \in Int, b \in Int
    <3> QED BY ONLY <2>1, <3>1, <3>5, Zenon
  <2>3. i \in 0..Len(fs)
    BY fs \in Seq(Field)
  <2>4. SizeUpto(M, c) = At(fs, i)
    BY ONLY <2>2, <2>3, c \in Keys, fs \in Seq(Field), Canon(fs), M = Partial(fs, Len(fs)), SizeBehind
  <2> QED BY ONLY <2>1, <2>4, Zenon
<1>2. SizeUpto(M, BasicCount - 1) = At(fs, Len(fs))
  <2>1. PICK c \in Keys : c = BasicCount - 1 /\ \A x \in Keys : x <= c
    BY ONLY BasicCountAssumption DEF Keys
  <2>2. Len(fs) \in 0..Len(fs) /\ \A j \in 1..Len(fs) : j <= Len(fs)
    BY fs \in Seq(Field)
  <2>3. \A j \in 1..Len(fs) : fs[j].key <= c <=> j <= Len(fs)
    BY ONLY <2>1, <2>2, Canon(fs), Zenon DEF Canon
  <2>4. SizeUpto(M, c) = At(fs, Len(fs))
    BY ONLY <2>2, <2>3, c \in Keys, fs \in Seq(Field), Canon(fs), M = Partial(fs, Len(fs)), SizeBehind
  <2> QED BY ONLY <2>1, <2>4, Zenon
<1>3. 28 \in Nat /\ TrailerLen(28) = 2
  BY DEF TrailerLen
<1>4. PICK p \in Nat : p = At(fs, Len(fs)) /\ Len(Whole(fs, 28)) = p + 1 + 2
  BY ONLY <1>3, fs \in Seq(Field), TrailerAt, ZenonT(60)
<1>5. p + 1 + 2 = p + 3
  BY ONLY p \in Nat
<1> QED BY ONLY <1>1, <1>2, <1>4, <1>5, Zenon DEF Size

(* ... and what the model of the protocol expects. *)
LEMMA CanonicalResult ==
    ASSUME FrTypes, Canonical, NEW l \in Nat, l <= Cap(maxSize),
           NEW r, Result(fields, trailer, maxSize, l, r)
    PROVE  r.tag = FrameError(Frame("ACCEPT", Meaning), maxSize)
<1>1. /\ fields \in Seq(Field) /\ trailer \in Nat
      /\ Written \in Seq(Nat) /\ Written = Whole(fields, trailer)
  BY ONLY FrTypes, FrFixed, Zenon
<1>2. maxSize \in MaxSizes
  BY ONLY FrTypes, Zenon DEF FrTypes
<1>3. PICK n \in Nat : n = Len(fields) /\ DOMAIN fields = 1..n
  BY ONLY <1>1
<1>4. PICK c \in Nat : c = Cap(maxSize)
  BY ONLY <1>2, Inputs, Zenon
<1>5. l <= c
  BY ONLY <1>4, l <= Cap(maxSize), Zenon
<1>6. Canon(fields) /\ trailer = 28
  BY ONLY <1>3, Canonical, Zenon DEF Canonical, Canon
<1>7. PICK M : M = Meaning /\ M = Partial(fields, Len(fields))
  BY ONLY <1>3, Zenon DEF Partial, Meaning
<1>8. /\ \A i \in 1..n : SizeUpto(M, fields[i].key) = At(fields, i)
      /\ Size(M) = Len(Whole(fields, 28))
  BY ONLY <1>1, <1>3, <1>6, <1>7, SizesAre, Zenon
<1>9. PICK z \in Nat : z = Size(M) /\ z = Len(Whole(fields, trailer))
  <2>1. Len(Written) \in Nat
    BY ONLY <1>1
  <2> QED BY ONLY <1>1, <1>6, <1>8, <2>1, Zenon
<1>10. /\ \A i \in 1..n : M[fields[i].key] = fields[i].value
       /\ \A x \in Keys : M[x] # None => \E i \in 1..n : fields[i].key = x
  BY ONLY <1>1, <1>3, <1>6, <1>7, CanonMeaning, ZenonT(60)
<1>11. \A i \in 1..n : fields[i].key \in Keys
  BY ONLY <1>3, <1>6, Zenon DEF Canon
<1>12. \A i, j \in 1..n : fields[i].key = fields[j].key => i = j
  <2> SUFFICES ASSUME NEW i \in 1..n, NEW j \in 1..n, fields[i].key = fields[j].key PROVE i = j
    BY Zenon
  <2>1. i \in 1..Len(fields) /\ j \in 1..Len(fields)
    BY ONLY <1>3, i \in 1..n, j \in 1..n, Zenon
  <2>2. fields[i].key = fields[j].key => i = j
    BY ONLY <1>1, <1>6, <2>1, KeysRise, Zenon
  <2> QED BY <2>2, Zenon
<1> DEFINE Zero == \E i \in 1..n : fields[i].value = 0 /\ At(fields, i) <= c
<1>13. FrameError(Frame("ACCEPT", M), maxSize)
         = IF Zero THEN "MalformedBody" ELSE IF z > c THEN "FrameTooLarge" ELSE "ok"
  <2>1. Frame("ACCEPT", M).entries = M
    BY DEF Frame
  <2>2. 0 # None
    BY DEF None
  <2>3. ASSUME NEW k \in Keys, M[k] = 0, SizeUpto(M, k) <= c PROVE Zero
    <3>1. PICK i \in 1..n : fields[i].key = k
      BY ONLY <1>10, <2>2, <2>3, Zenon
    <3> QED BY ONLY <1>8, <1>10, <2>3, <3>1, Zenon
  <2>4. ASSUME NEW i \in 1..n, fields[i].value = 0, At(fields, i) <= c
        PROVE  \E k \in Keys : M[k] = 0 /\ SizeUpto(M, k) <= c
    BY ONLY <1>8, <1>10, <1>11, <2>4, i \in 1..n, Zenon
  <2>5. Zero <=> \E k \in Keys : M[k] = 0 /\ SizeUpto(M, k) <= c
    BY ONLY <2>3, <2>4, Zenon
  <2> HIDE DEF Zero
  <2> QED BY ONLY <1>4, <1>9, <2>1, <2>5, Zenon DEF FrameError
<1>14. CASE r.tag = "FrameTooLarge" /\ \E m \in Nat : Asks(fields, trailer, l, m) /\ m > Cap(maxSize)
  <2>1. PICK m \in Nat : Asks(fields, trailer, l, m) /\ m > c
    BY ONLY <1>4, <1>14, Zenon
  <2>2. PICK k \in 0..n : Good(fields, k) /\ m <= Limit(fields, trailer, k)
    BY ONLY <1>3, <2>1, Zenon DEF Asks
  <2>3. z > c
    <3>1. m <= z
      BY ONLY <1>1, <1>9, <2>1, m \in Nat, AsksWithin, Zenon
    <3> QED BY ONLY <2>1, <3>1, m \in Nat, z \in Nat, c \in Nat
  <2>4. ASSUME NEW i \in 1..n, fields[i].value = 0, At(fields, i) <= c PROVE FALSE
    <3>1. i \notin 1..k
      BY ONLY <2>2, <2>4, Zenon DEF Good
    <3>2. k < n /\ k + 1 \in 0..n /\ i \in (k + 1)..n /\ i - (k + 1) \in Nat
      BY ONLY <3>1, i \in 1..n, k \in 0..n, n \in Nat
    <3>3. Limit(fields, trailer, k) = At(fields, k + 1)
      BY ONLY <1>3, <3>2, Zenon DEF Limit
    <3>4. "ACCEPT" \in Magic
      BY DEF Magic
    <3>5. /\ At(fields, k + 1) \in Nat /\ At(fields, i) \in Nat
          /\ At(fields, i) >= At(fields, k + 1) + 2 * (i - (k + 1))
      BY ONLY <1>1, <1>3, <3>2, <3>4, LaidGrows, Zenon DEF At
    <3>6. PICK x \in Nat, y \in Nat, d \in Nat : /\ x = At(fields, k + 1) /\ y = At(fields, i)
                                              /\ d = i - (k + 1) /\ y >= x + 2 * d /\ m <= x /\ y <= c
      BY ONLY <2>2, <2>4, <3>2, <3>3, <3>5, Zenon
    <3> QED BY ONLY <2>1, <3>6, m \in Nat, c \in Nat, x \in Nat, y \in Nat, d \in Nat
  <2>5. ~Zero
    BY ONLY <2>4, Zenon
  <2> HIDE DEF Zero
  <2> QED BY ONLY <1>7, <1>13, <1>14, <2>3, <2>5, Zenon
<1>15. ~Foreign(fields, trailer)
  <2>1. trailer \in {28, 44}
    BY ONLY <1>6
  <2> QED BY ONLY <1>3, <1>11, <2>1, Zenon DEF Foreign
<1>16. CASE r.tag = "MalformedBody" /\ \E k \in 1..Len(fields) : At(fields, k) <= l /\ Bad(fields, k)
  <2>1. PICK k \in 1..n : At(fields, k) <= l /\ Bad(fields, k)
    BY ONLY <1>3, <1>5, <1>16, Zenon
  <2>2. \A j \in 1..(k - 1) : j \in 1..n /\ j # k
    BY ONLY n \in Nat, k \in 1..n
  <2>3. fields[k].value = 0
    BY ONLY <1>12, <2>1, <2>2, k \in 1..n, Zenon DEF Bad
  <2>4. At(fields, k) <= c
    <3>1. At(fields, k) \in Nat
      BY ONLY <1>1, <1>3, k \in 1..n, FieldAt, Zenon
    <3> QED BY ONLY <1>5, <2>1, <3>1, l \in Nat, c \in Nat
  <2>5. Zero
    BY ONLY <2>3, <2>4, k \in 1..n, Zenon
  <2> HIDE DEF Zero
  <2> QED BY ONLY <1>7, <1>13, <1>16, <2>5, Zenon
<1>17. CASE r.tag = "ok" /\ Good(fields, Len(fields)) /\ l = Len(Whole(fields, trailer))
  <2>1. ~Zero
    BY ONLY <1>3, <1>17, Zenon DEF Good
  <2>2. ~(z > c)
    <3>1. z = l
      BY ONLY <1>9, <1>17, Zenon
    <3> QED BY ONLY <1>5, <3>1, l \in Nat, c \in Nat
  <2> HIDE DEF Zero
  <2> QED BY ONLY <1>7, <1>13, <1>17, <2>1, <2>2, Zenon
<1> QED BY ONLY Result(fields, trailer, maxSize, l, r), <1>14, <1>15, <1>16, <1>17, Zenon DEF Result

(* The beginnings of a frame, and what is said of them. *)
LEMMA BeginningIs ==
    ASSUME FrTypes, NEW n \in Beginnings
    PROVE  /\ n \in Nat /\ n <= Len(Written) /\ n <= Cap(maxSize)
           /\ Answers(fields, trailer, n, ParsedFrom(n))
<1>1. Written \in Seq(Nat) /\ Cap(maxSize) \in Nat
  BY ONLY FrTypes, FrFixed, Zenon
<1>2. n \in Nat /\ n <= Len(Written) /\ n <= Cap(maxSize)
  BY ONLY <1>1, n \in Beginnings DEF Beginnings
<1>3. PICK W \in Seq(Nat) : W = Written
  BY ONLY <1>1, Zenon
<1>4. PICK b : b = SubSeq(W, 1, n)
  OBVIOUS
<1>5. b \in Seq(Nat) /\ Len(b) = n /\ \A q \in 1..n : b[q] = W[q]
  BY ONLY <1>2, <1>3, <1>4, W \in Seq(Nat), SMTT(40)
<1>6. Beginning(b, Written) /\ Len(b) <= Cap(maxSize)
  BY ONLY <1>2, <1>3, <1>5, Zenon DEF Beginning
<1>7. Answers(fields, trailer, Len(b), ParseFrame(b, maxSize))
  BY ONLY FrTypes, <1>6, Parsed, Zenon
<1> QED BY ONLY <1>2, <1>3, <1>4, <1>5, <1>7, Zenon DEF ParsedFrom

(* The parser does to a frame what it should, ... *)
LEMMA FrParses == FrTypes => ParsesAsBuilt
<1> SUFFICES ASSUME FrTypes, NEW n \in Beginnings, NEW p, p = ParsedFrom(n)
             PROVE  /\ p.tag = "NeedMore" => n < p.n /\ p.n <= Len(Written)
                    /\ p.tag = "ok" => Legal /\ n = Len(Written) /\ p.magic = "ACCEPT" /\ p.entries = Meaning
                    /\ Legal => p.tag = IF n = Len(Written) THEN "ok" ELSE "NeedMore"
  BY Zenon DEF ParsesAsBuilt
<1>1. /\ n \in Nat /\ n <= Len(Written) /\ n <= Cap(maxSize)
      /\ Answers(fields, trailer, n, p)
  BY ONLY FrTypes, n \in Beginnings, p = ParsedFrom(n), BeginningIs, Zenon
<1>2. /\ fields \in Seq(Field) /\ Written \in Seq(Nat) /\ Written = Whole(fields, trailer)
  BY ONLY FrTypes, FrFixed, Zenon
<1>3. DOMAIN fields = 1..Len(fields) /\ Len(fields) \in Nat
  BY ONLY <1>2
<1>4. p.tag = "NeedMore" => n < p.n /\ p.n <= Len(Written)
  BY ONLY FrTypes, <1>1, Requested, Zenon
<1>5. ASSUME p.tag = "ok"
      PROVE  Legal /\ n = Len(Written) /\ p.magic = "ACCEPT" /\ p.entries = Meaning
  <2>1. /\ \A a \in Nat : p # NeedMore(a)
        /\ p # Err("UnsupportedOption") /\ p # Err("MalformedBody")
    BY ONLY <1>5, AnswerTypes DEF Errors
  <2>2. /\ p.magic = "ACCEPT" /\ p.entries = Partial(fields, Len(fields))
        /\ Good(fields, Len(fields)) /\ trailer \in {28, 44} /\ n = Len(Whole(fields, trailer))
    BY ONLY <1>1, <2>1, Zenon DEF Answers
  <2>3. Partial(fields, Len(fields)) = Meaning
    BY ONLY <1>3, Zenon DEF Partial, Meaning
  <2>4. Len(Written) <= Cap(maxSize)
    BY ONLY <1>1, <1>2, <2>2, Zenon
  <2>5. Legal
    BY ONLY <1>3, <2>2, <2>4, Zenon DEF Legal, Good
  <2> QED BY ONLY <1>2, <2>2, <2>3, <2>5, Zenon
<1>6. ASSUME Legal PROVE p.tag = IF n = Len(Written) THEN "ok" ELSE "NeedMore"
  <2>1. /\ \A i \in 1..Len(fields) : fields[i].key \in Keys /\ fields[i].value # 0
        /\ \A i, j \in 1..Len(fields) : fields[i].key = fields[j].key => i = j
        /\ trailer \in {28, 44}
    BY ONLY <1>3, <1>6, Zenon DEF Legal
  <2>2. ~Foreign(fields, trailer)
    BY ONLY <2>1, Zenon DEF Foreign
  <2>3. ASSUME NEW k \in 1..Len(fields), Bad(fields, k) PROVE FALSE
    <3>1. \A j \in 1..(k - 1) : j \in 1..Len(fields) /\ j # k
      BY ONLY <1>3, k \in 1..Len(fields)
    <3> QED BY ONLY <2>1, <2>3, <3>1, k \in 1..Len(fields), Zenon DEF Bad
  <2>4. CASE p.tag = "ok"
    BY ONLY <1>5, <2>4, Zenon
  <2>5. CASE p.tag # "ok"
    <3>1. PICK a \in Nat : p = NeedMore(a)
      BY ONLY <1>1, <2>2, <2>3, <2>5, Zenon DEF Answers
    <3>2. p.tag = "NeedMore"
      BY ONLY <3>1, AnswerTypes, Zenon
    <3>3. n < p.n /\ p.n <= Len(Written) /\ p.n \in Nat
      BY ONLY FrTypes, <1>1, <3>2, Requested, Zenon
    <3>4. n # Len(Written)
      BY ONLY <1>1, <1>2, <3>3
    <3> QED BY ONLY <3>2, <3>4, Zenon
  <2> QED BY ONLY <2>4, <2>5, Zenon
<1> QED BY ONLY <1>4, <1>5, <1>6, Zenon

(* ... and to a frame of build_frame_ what the protocol model says. *)
LEMMA FrMatches == FrTypes => MatchesProtocol
<1> SUFFICES ASSUME FrTypes, Canonical, NEW n \in Beginnings, NEW p, p = ParsedFrom(n),
                    NEW expected, expected = FrameError(Frame("ACCEPT", Meaning), maxSize)
             PROVE  IF p.tag = "NeedMore" THEN p.n > Cap(maxSize) => expected = "FrameTooLarge"
                                          ELSE p.tag = expected
  BY Zenon DEF MatchesProtocol
<1>1. n \in Nat /\ n <= Cap(maxSize) /\ Answers(fields, trailer, n, p)
  BY ONLY FrTypes, n \in Beginnings, p = ParsedFrom(n), BeginningIs, Zenon
<1>2. \A r : Result(fields, trailer, maxSize, n, r) => r.tag = expected
  BY ONLY FrTypes, Canonical, <1>1, expected = FrameError(Frame("ACCEPT", Meaning), maxSize),
          CanonicalResult, Zenon
<1>3. CASE p.tag # "NeedMore"
  BY ONLY <1>1, <1>2, <1>3, Returned, Zenon
<1>4. ASSUME p.tag = "NeedMore", p.n > Cap(maxSize) PROVE expected = "FrameTooLarge"
  <2>1. p.n \in Nat /\ Asks(fields, trailer, n, p.n)
    BY ONLY FrTypes, <1>1, <1>4, Requested, Zenon
  <2>2. Result(fields, trailer, maxSize, n, Err("FrameTooLarge"))
    BY ONLY <1>4, <2>1, RequestRefused, Zenon
  <2>3. Err("FrameTooLarge").tag = "FrameTooLarge"
    BY ONLY AnswerTypes DEF Errors
  <2> QED BY ONLY <1>2, <2>2, <2>3, Zenon
<1> QED BY ONLY <1>3, <1>4, Zenon

-----------------------------------------------------------------------------
(* Reading from a buffer that lends one byte more than Demand::exactly     *)
(* means, and takes nothing out.                                           *)

LEMMA ErrTag == \A t : Err(t).tag = t
BY DEF Err

(* Of a magic alone nothing is known but that one more byte is lacking. *)
LEMMA OneMoreByte ==
    ASSUME NEW b \in Seq(Nat), Len(b) = 4, NEW max \in Nat, max >= 4, SubSeq(b, 1, 4) = MagicBytes["ACCEPT"]
    PROVE  ParseFrame(b, max) = NeedMore(5)
<1>1. "ACCEPT" \in Magic
  BY DEF Magic
<1>2. ~Lacks(b, 4) /\ Lacks(b, 5) /\ ~(max < 4)
  BY DEF Lacks
<1>3. ~ \A m \in Magic : SubSeq(b, 1, 4) # MagicBytes[m]
  BY ONLY <1>1, SubSeq(b, 1, 4) = MagicBytes["ACCEPT"], Zenon
<1>4. (CHOOSE m \in Magic : SubSeq(b, 1, 4) = MagicBytes[m]) = "ACCEPT"
  <2>1. PICK m \in Magic : m = (CHOOSE y \in Magic : SubSeq(b, 1, 4) = MagicBytes[y])
    BY ONLY <1>3, Zenon
  <2>2. MagicBytes[m] = MagicBytes["ACCEPT"]
    BY ONLY <1>3, <2>1, SubSeq(b, 1, 4) = MagicBytes["ACCEPT"], Zenon
  <2> QED BY ONLY <2>1, <2>2, MagicIs, m \in Magic, Zenon
<1>5. PICK U : U = Turns(b, max, "ACCEPT")
  OBVIOUS
<1>6. ParseFrame(b, max) = U[4].out
  BY ONLY <1>2, <1>3, <1>4, <1>5, Len(b) = 4, Zenon DEF ParseFrame
<1>7. U[0] = LoopStart /\ \A k \in 1..4 : U[k] = Turn(b, max, "ACCEPT", U[k - 1])
  BY ONLY <1>1, <1>5, b \in Seq(Nat), Len(b) = 4, max \in Nat, TurnsAre, Zenon
<1>8. U[1].out = NeedMore(5)
  <2>1. PICK s : s = LoopStart /\ s.pos + 1 = 5 /\ s.out.tag = "more" /\ [s EXCEPT !.out = NeedMore(5)].out = NeedMore(5)
    <3>1. LoopStart.pos + 1 = 5 /\ LoopStart.out = Err("more")
      BY DEF LoopStart
    <3>2. [LoopStart EXCEPT !.out = NeedMore(5)].out = NeedMore(5)
      BY DEF LoopStart
    <3> QED BY ONLY <3>1, <3>2, ErrTag, Zenon
  <2>2. U[1] = Turn(b, max, "ACCEPT", s)
    <3>1. 1 \in 1..4 /\ 1 - 1 = 0
      OBVIOUS
    <3> QED BY ONLY <1>7, <2>1, <3>1, Zenon
  <2>3. Turn(b, max, "ACCEPT", s) = [s EXCEPT !.out = NeedMore(5)]
    BY ONLY <1>2, <2>1, Zenon DEF Turn
  <2> QED BY ONLY <2>1, <2>2, <2>3, Zenon
<1>9. U[1].out.tag # "more"
  BY ONLY <1>8, AnswerTypes
<1>10. U[2] = U[1] /\ U[3] = U[2] /\ U[4] = U[3]
  <2>1. \A k \in 2..4 : k \in 1..4
    OBVIOUS
  <2>2. U[2] = Turn(b, max, "ACCEPT", U[1]) /\ U[3] = Turn(b, max, "ACCEPT", U[2]) /\ U[4] = Turn(b, max, "ACCEPT", U[3])
    BY ONLY <1>7
  <2>3. U[2] = U[1]
    BY ONLY <1>9, <2>2, TurnSettled
  <2>4. U[3] = U[2]
    BY ONLY <1>9, <2>2, <2>3, TurnSettled
  <2>5. U[4] = U[3]
    BY ONLY <1>9, <2>2, <2>3, <2>4, TurnSettled
  <2> QED BY ONLY <2>3, <2>4, <2>5, Zenon
<1> QED BY ONLY <1>6, <1>8, <1>10, Zenon

(* No magic ends with a zero. *)
LEMMA NoMagic ==
    ASSUME NEW b \in Seq(Nat), Len(b) = 4, b[4] = 0, NEW max \in Nat, max >= 4
    PROVE  ParseFrame(b, max).tag = "InvalidMagic"
<1>1. ~Lacks(b, 4) /\ ~(max < 4)
  BY DEF Lacks
<1>2. SubSeq(b, 1, 4)[4] = 0
  BY SMTT(40)
<1>3. \A m \in Magic : MagicBytes[m][4] # 0
  BY DEF Magic, MagicBytes
<1>4. ParseFrame(b, max) = Err("InvalidMagic")
  BY ONLY <1>1, <1>2, <1>3, Zenon DEF ParseFrame
<1> QED BY ONLY <1>4, ErrTag, Zenon

NoFrame == {"Panic", "PeerClosed", "FrameTooLarge", "InvalidMagic"}

(* The reader has nothing yet, or the magic, of which the buffer has still
   every byte, or what is no magic, or it has returned. *)
Stuck == \/ res.tag \in NoFrame
         \/ /\ res.tag = "reading" /\ kept = 0 /\ buf = << >>
            /\ stream = Written \o NextFrame
         \/ res.tag = "reading" /\ kept = 4 /\ Len(buf) = 4 /\ ParseFrame(buf, maxSize) = NeedMore(5)
         \/ res.tag = "reading" /\ ParseFrame(buf, maxSize).tag = "InvalidMagic"
StuckInv == FrTypes /\ Stuck

LEMMA StuckInit == Init => StuckInv
<1> SUFFICES ASSUME Init PROVE StuckInv
  OBVIOUS
<1>1. FrTypes /\ stream = Written \o NextFrame /\ buf = << >> /\ kept = 0 /\ res = Err("reading")
  BY DEF Init, Written, FrTypes
<1>2. res.tag = "reading"
  BY ONLY <1>1 DEF Err
<1> QED BY ONLY <1>1, <1>2, Zenon DEF StuckInv, Stuck

(* It remains so when read_exact_into_ has read or panicked, ... *)
LEMMA StuckReadField == ASSUME ~Ideal, StuckInv, ReadField PROVE StuckInv'
<1>1. PICK p : p = ParseFrame(buf, maxSize)
  OBVIOUS
<1>2. PICK n : n = p.n - Len(buf)
  OBVIOUS
<1>3. /\ res.tag = "reading" /\ p.tag = "NeedMore" /\ p.n <= Cap(maxSize)
      /\ UNCHANGED <<fields, trailer, maxSize>>
  BY ONLY <1>1, ReadField, Zenon DEF ReadField
<1>4. PICK a \in 1..Len(stream) :
         /\ a >= kept
         /\ IF Lent(n, a) > n THEN res' = Err("Panic") /\ UNCHANGED buf
            ELSE /\ buf' = buf \o [i \in 1..n |-> IF i <= Lent(n, a) THEN stream[i] ELSE 0]
                 /\ UNCHANGED res
         /\ kept' = a
  BY ONLY <1>1, <1>2, ~Ideal, ReadField, Zenon DEF ReadField
<1>5. FrTypes /\ FrTypes' /\ maxSize' = maxSize
  BY ONLY <1>3, StuckInv DEF StuckInv, FrTypes
<1>6. maxSize \in Nat /\ Cap(maxSize) \in Nat /\ Cap(maxSize) <= maxSize /\ fields \in Seq(Field) /\ trailer \in Nat
      /\ Written \in Seq(Nat) /\ Written = Whole(fields, trailer) /\ NextFrame \in Seq(Nat)
  BY ONLY <1>5, FrFixed, Zenon
<1>7. Lent(n, a) = IF a < n + 1 THEN a ELSE n + 1
  BY ONLY ~Ideal, Zenon DEF Lent
<1>8. ASSUME Lent(n, a) > n PROVE Stuck'
  <2>1. res'.tag = "Panic"
    BY ONLY <1>4, <1>8, ErrTag, Zenon
  <2>2. "Panic" \in NoFrame
    BY DEF NoFrame
  <2> QED BY ONLY <2>1, <2>2, Zenon DEF Stuck
<1>9. ASSUME kept = 0, buf = << >>, stream = Written \o NextFrame PROVE Stuck'
  <2>1. p = NeedMore(4)
    <3>1. Lacks(<< >>, 4)
      BY DEF Lacks
    <3> QED BY ONLY <1>1, <1>9, <3>1, Zenon DEF ParseFrame
  <2>2. n = 4 /\ p.n = 4
    <3>1. p.n = 4
      BY ONLY <2>1, AnswerTypes
    <3> QED BY ONLY <1>2, <1>9, <3>1
  <2>3. CASE Lent(n, a) > n
    BY ONLY <1>8, <2>3, Zenon
  <2>4. CASE ~(Lent(n, a) > n)
    <3>1. a \in 1..4 /\ Lent(n, a) = a
      <4>1. a \in Nat /\ a >= 1
        <5>1. stream \in Seq(Nat)
          BY ONLY <1>6, <1>9, Concat, Zenon
        <5> QED BY ONLY <5>1, a \in 1..Len(stream)
      <4> QED BY ONLY <1>7, <2>2, <2>4, <4>1
    <3>2. PICK f \in Seq(Nat) : f = [i \in 1..4 |-> IF i <= a THEN stream[i] ELSE 0]
      <4>1. \A i \in 1..4 : i <= a => stream[i] \in Nat
        <5>1. stream \in Seq(Nat)
          BY ONLY <1>6, <1>9, Concat, Zenon
        <5> QED BY ONLY <5>1, a \in 1..Len(stream)
      <4>2. [i \in 1..4 |-> IF i <= a THEN stream[i] ELSE 0] \in [1..4 -> Nat]
        BY ONLY <4>1
      <4>3. [i \in 1..4 |-> IF i <= a THEN stream[i] ELSE 0] \in Seq(Nat)
        BY ONLY <4>2
      <4> QED BY ONLY <4>3, Zenon
    <3>3. buf' = f /\ Len(f) = 4 /\ \A i \in 1..4 : f[i] = IF i <= a THEN stream[i] ELSE 0
      <4>1. buf' = << >> \o f
        BY ONLY <1>4, <1>9, <2>2, <2>4, <3>1, <3>2, Zenon
      <4>2. << >> \o f = f
        BY ONLY f \in Seq(Nat)
      <4>3. Len(f) = 4 /\ \A i \in 1..4 : f[i] = IF i <= a THEN stream[i] ELSE 0
        BY ONLY <3>2, f \in Seq(Nat)
      <4> QED BY ONLY <4>1, <4>2, <4>3, Zenon
    <3>4. res'.tag = "reading" /\ kept' = a
      BY ONLY <1>3, <1>4, <2>4, Zenon
    <3>5. maxSize >= 4
      BY ONLY <1>3, <1>6, <2>2
    <3>6. CASE a = 4
      <4>0. Len(f) = 4
        BY ONLY <3>3, Zenon
      <4>1. ASSUME NEW i \in 1..4 PROVE f[i] = MagicBytes["ACCEPT"][i]
        <5>1. f[i] = stream[i]
          BY ONLY <3>3, <3>6, i \in 1..4
        <5>2. stream[i] = Written[i]
          <6>1. PICK W \in Seq(Nat) : W = Written
            BY ONLY <1>6, Zenon
          <6>2. Len(W) \in Nat /\ Len(W) >= 4
            <7>1. PICK e \in Nat : e = At(fields, Len(fields)) /\ e >= 4 /\ Len(W) = e + 1 + TrailerLen(trailer)
              BY ONLY <1>6, <6>1, TrailerAt, Zenon
            <7>2. TrailerLen(trailer) \in {2, 4}
              BY ONLY <1>6, WidthType, Zenon
            <7> QED BY ONLY <7>1, <7>2, e \in Nat
          <6>3. i \in 1..(Len(W) + Len(NextFrame)) /\ i <= Len(W)
            BY ONLY <1>6, <6>2, i \in 1..4, SMTT(60)
          <6>4. \A j \in 1..(Len(W) + Len(NextFrame)) :
                   (W \o NextFrame)[j] = IF j <= Len(W) THEN W[j] ELSE NextFrame[j - Len(W)]
            BY ONLY <1>6, W \in Seq(Nat), Concat, Zenon
          <6> QED BY ONLY <1>9, <6>1, <6>3, <6>4, Zenon
        <5>3. Written[i] = MagicBytes["ACCEPT"][i]
          BY ONLY <1>6, i \in 1..4, MagicFirst, Zenon
        <5> QED BY ONLY <5>1, <5>2, <5>3, Zenon
      <4>2. SubSeq(f, 1, 4) = MagicBytes["ACCEPT"]
        <5>1. PICK z : z = Slice(f, 0, 4)
          OBVIOUS
        <5>a. 0 + 1 = 1 /\ 4 - 0 = 4 /\ (\A i \in 1..4 : 0 + i = i) /\ 0 \in Nat /\ 4 \in Nat /\ 0 <= 4 /\ 4 <= 4
          OBVIOUS
        <5>2. z \in Seq(Nat) /\ Len(z) = 4 /\ \A i \in 1..4 : z[i] = f[i]
          <6>1. /\ Slice(f, 0, 4) \in Seq(Nat) /\ Len(Slice(f, 0, 4)) = 4 - 0
                /\ \A i \in 1..(4 - 0) : Slice(f, 0, 4)[i] = f[0 + i]
            BY ONLY <4>0, <5>a, f \in Seq(Nat), SliceIs, ZenonT(60)
          <6> QED BY ONLY <5>1, <5>a, <6>1, Zenon
        <5>3. PICK M \in Seq(Nat) : M = MagicBytes["ACCEPT"] /\ Len(M) = 4
          <6>1. "ACCEPT" \in Magic
            BY DEF Magic
          <6> QED BY ONLY <6>1, MagicIs, Zenon
        <5>4. \A i \in 1..4 : z[i] = M[i]
          BY ONLY <4>1, <5>2, <5>3, Zenon
        <5>5. z = M
          BY ONLY <5>2, <5>3, <5>4, M \in Seq(Nat), SameSequence, Zenon
        <5> QED BY ONLY <5>1, <5>3, <5>5, <5>a, Zenon DEF Slice
      <4>3. ParseFrame(f, maxSize) = NeedMore(5)
        BY ONLY <1>6, <3>3, <3>5, <4>2, f \in Seq(Nat), OneMoreByte, Zenon
      <4>4. ParseFrame(buf, maxSize)' = NeedMore(5)
        BY ONLY <1>5, <3>3, <4>3
      <4> QED BY ONLY <3>3, <3>4, <3>6, <4>4, Zenon DEF Stuck
    <3>7. CASE a # 4
      <4>1. f[4] = 0
        BY ONLY <3>1, <3>3, <3>7
      <4>2. ParseFrame(f, maxSize).tag = "InvalidMagic"
        BY ONLY <1>6, <3>3, <3>5, <4>1, f \in Seq(Nat), NoMagic, Zenon
      <4>3. ParseFrame(buf, maxSize)'.tag = "InvalidMagic"
        BY ONLY <1>5, <3>3, <4>2
      <4> QED BY ONLY <3>4, <4>3, Zenon DEF Stuck
    <3> QED BY ONLY <3>6, <3>7, Zenon
  <2> QED BY ONLY <2>3, <2>4, Zenon
<1>10. ASSUME kept = 4, Len(buf) = 4, ParseFrame(buf, maxSize) = NeedMore(5) PROVE Stuck'
  <2>1. p.n = 5
    BY ONLY <1>1, <1>10, AnswerTypes
  <2>2. n = 1 /\ a >= 4
    BY ONLY <1>2, <1>4, <1>10, <2>1
  <2>3. Lent(n, a) = 2
    BY ONLY <1>7, <2>2, a \in 1..Len(stream)
  <2>4. Lent(n, a) > n
    BY ONLY <2>2, <2>3
  <2> QED BY ONLY <1>8, <2>4, Zenon
<1>11. Stuck'
  <2>1. p.tag # "InvalidMagic" /\ res.tag \notin NoFrame
    BY ONLY <1>3 DEF NoFrame
  <2> QED BY ONLY <1>1, <1>9, <1>10, <2>1, StuckInv, Zenon DEF StuckInv, Stuck
<1> QED BY ONLY <1>5, <1>11, Zenon DEF StuckInv

(* ... and when read_frame_async_ returns. *)
LEMMA StuckFinish == ASSUME StuckInv, Finish PROVE StuckInv'
<1>1. PICK p : p = ParseFrame(buf, maxSize)
  OBVIOUS
<1>2. /\ res.tag = "reading"
      /\ \/ p.tag # "NeedMore" /\ res' = p
         \/ p.tag = "NeedMore" /\ res' = Err("FrameTooLarge")
         \/ p.tag = "NeedMore" /\ res' = Err("PeerClosed")
      /\ UNCHANGED <<fields, trailer, maxSize>>
  BY ONLY <1>1, Finish, Zenon DEF Finish
<1>3. FrTypes'
  BY ONLY <1>2, StuckInv DEF StuckInv, FrTypes
<1>4. p.tag = "NeedMore" \/ p.tag = "InvalidMagic"
  <2>1. CASE buf = << >>
    <3>1. Lacks(<< >>, 4)
      BY DEF Lacks
    <3>2. p = NeedMore(4)
      BY ONLY <1>1, <2>1, <3>1, Zenon DEF ParseFrame
    <3> QED BY ONLY <3>2, AnswerTypes
  <2>2. CASE ParseFrame(buf, maxSize) = NeedMore(5)
    BY ONLY <1>1, <2>2, AnswerTypes
  <2>3. res.tag \notin NoFrame
    BY ONLY <1>2 DEF NoFrame
  <2> QED BY ONLY <1>1, <2>1, <2>2, <2>3, StuckInv, Zenon DEF StuckInv, Stuck
<1>5. res'.tag \in NoFrame
  <2>1. res'.tag = "InvalidMagic" \/ res'.tag = "FrameTooLarge" \/ res'.tag = "PeerClosed"
    BY ONLY <1>2, <1>4, ErrTag, Zenon
  <2> QED BY ONLY <2>1 DEF NoFrame
<1> QED BY ONLY <1>3, <1>5, Zenon DEF StuckInv, Stuck

-----------------------------------------------------------------------------
(* The theorems.                                                           *)

(* What is written stays what it is. *)
LEMMA FrTypesStep == FrTypes /\ [Next]_vars => FrTypes'
<1> SUFFICES ASSUME FrTypes, [Next]_vars PROVE FrTypes'
  OBVIOUS
<1>1. UNCHANGED <<fields, trailer, maxSize>>
  <2>1. CASE ReadField
    BY ONLY <2>1, Zenon DEF ReadField
  <2>2. CASE Finish
    BY ONLY <2>2, Zenon DEF Finish
  <2>3. CASE UNCHANGED vars
    BY ONLY <2>3 DEF vars
  <2> QED BY <2>1, <2>2, <2>3, Zenon DEF Next
<1> QED BY ONLY <1>1, FrTypes DEF FrTypes

(* parse_frame_ returns a frame as it was written, and only a legal one, and
   of every beginning of it asks for no byte that it does not have, whatever
   the fields, their order and their widths. *)
THEOREM FramesParseAsBuilt == Spec => []ParsesAsBuilt
<1>1. Init => FrTypes
  BY DEF Init, FrTypes
<1> QED BY <1>1, FrTypesStep, FrParses, PTL DEF Spec

(* A frame laid out by build_frame_ is parsed with the result that the model of
   the protocol takes from its values and its size alone: what Handshake.tla
   assumes of the codec is what the codec does. *)
THEOREM FramesMatchProtocol == Spec => []MatchesProtocol
<1>1. Init => FrTypes
  BY DEF Init, FrTypes
<1> QED BY <1>1, FrTypesStep, FrMatches, PTL DEF Spec

(* What the steps of either kind of reader keep. *)
ReaderInv == IF Ideal THEN FrInv ELSE StuckInv

(* From a buffer that lends what it is asked for, read_frame_async_ returns
   every legal frame with the values written, and leaves the next frame in the
   stream, and an error for every other frame, and never takes more than
   max_size bytes, unless the peer closes in between.  From a buffer of this
   repository it returns no frame at all. *)
THEOREM FramesReadAsLent == Spec => [](IF Ideal THEN ~cut => ReadsWhatWasSent ELSE NoFrameIsRead)
<1>1. Init => ReaderInv
  BY FrInit, StuckInit, Zenon DEF ReaderInv
<1>2. ReaderInv /\ [Next]_vars => ReaderInv'
  <2> SUFFICES ASSUME ReaderInv, [Next]_vars PROVE ReaderInv'
    OBVIOUS
  <2>1. CASE ReadField
    BY ONLY <2>1, ReaderInv, FrReadField, StuckReadField, Zenon DEF ReaderInv
  <2>2. CASE Finish
    BY ONLY <2>2, ReaderInv, FrFinish, StuckFinish, Zenon DEF ReaderInv
  <2>3. CASE UNCHANGED vars
    <3>1. FrInv => FrInv'
      BY ONLY <2>3 DEF vars, FrInv, FrTypes, Intact, Written, NextFrame
    <3>2. StuckInv => StuckInv'
      BY ONLY <2>3 DEF vars, StuckInv, FrTypes, Stuck, Written, NextFrame
    <3> QED BY ONLY <3>1, <3>2, ReaderInv, Zenon DEF ReaderInv
  <2> QED BY <2>1, <2>2, <2>3, Zenon DEF Next
<1>3. ReaderInv => IF Ideal THEN ~cut => ReadsWhatWasSent ELSE NoFrameIsRead
  <2>1. StuckInv => NoFrameIsRead
    BY Zenon DEF StuckInv, Stuck, NoFrameIsRead, NoFrame, Done
  <2> QED BY <2>1, FrReads, Zenon DEF ReaderInv
<1> QED BY <1>1, <1>2, <1>3, PTL DEF Spec

=============================================================================
