---------------------------- MODULE LocksProofs -----------------------------
(***************************************************************************)
(* The spinning locks of atomic_sync: a writer of the preemptive           *)
(* read-write lock is alone, for every number of handles, and no update    *)
(* made under the mutex is lost, for every number of threads.              *)
(***************************************************************************)
EXTENDS SpinRwLock, SpinMutex, FiniteSetTheorems, SequenceTheorems, TLAPS

-----------------------------------------------------------------------------
(* Nestings of guards, and what they weigh in the word. *)

Bit(b) == IF b THEN 1 ELSE 0
InStack(i, kinds, t) == Bit(i <= Len(t) /\ t[i] \in kinds)
Weight(kinds, t) == InStack(1, kinds, t) + InStack(2, kinds, t)

(* What each nesting adds to the reader count and to the upgrade bit. *)
LEMMA Weights ==
    /\ Weight(Counted, << >>) = 0 /\ Weight({"upg"}, << >>) = 0
    /\ Weight(Counted, <<"read">>) = 1 /\ Weight({"upg"}, <<"read">>) = 0
    /\ Weight(Counted, <<"write">>) = 0 /\ Weight({"upg"}, <<"write">>) = 0
    /\ Weight(Counted, <<"upg">>) = 1 /\ Weight({"upg"}, <<"upg">>) = 1
    /\ Weight(Counted, <<"upg", "read">>) = 2
    /\ Weight({"upg"}, <<"upg", "read">>) = 1
    /\ Weight(Counted, <<"upg", "write">>) = 1
    /\ Weight({"upg"}, <<"upg", "write">>) = 1
    /\ Weight(Counted, <<"upg", "upg">>) = 2
    /\ Weight({"upg"}, <<"upg", "upg">>) = 2
BY DEF Weight, InStack, Bit, Counted

(* Nestings are sequences of guards. *)
LEMMA StacksAreSeqs == Stacks \subseteq Seq({"read", "write", "upg"})
BY DEF Stacks

(* The newest guard of each nesting. *)
LEMMA Newest ==
    ASSUME NEW t \in Stacks
    PROVE  /\ t # << >> /\ t[Len(t)] = "read"
                <=> t \in {<<"read">>, <<"upg", "read">>}
           /\ t # << >> /\ t[Len(t)] = "write"
                <=> t \in {<<"write">>, <<"upg", "write">>}
           /\ t # << >> /\ t[Len(t)] = "upg"
                <=> t \in {<<"upg">>, <<"upg", "upg">>}
<1>1. CASE t = << >>
  BY <1>1
<1>2. CASE t = <<"read">>
  BY <1>2
<1>3. CASE t = <<"write">>
  BY <1>3
<1>4. CASE t = <<"upg">>
  BY <1>4
<1>5. CASE t = <<"upg", "read">>
  BY <1>5
<1>6. CASE t = <<"upg", "write">>
  BY <1>6
<1>7. CASE t = <<"upg", "upg">>
  BY <1>7
<1> QED BY <1>1, <1>2, <1>3, <1>4, <1>5, <1>6, <1>7 DEF Stacks

(* The nestings that have a given newest guard. *)
LEMMA Tops ==
    ASSUME NEW h \in Handles, guards[h] \in Stacks
    PROVE  /\ Holds(h, "read") <=> guards[h] \in {<<"read">>, <<"upg", "read">>}
           /\ Holds(h, "write") <=> guards[h] \in {<<"write">>, <<"upg", "write">>}
           /\ Holds(h, "upg") <=> guards[h] \in {<<"upg">>, <<"upg", "upg">>}
BY Newest DEF Holds, TopGuard

(* What is left of a nesting without its newest guard. *)
LEMMA Popped ==
    /\ \A g : SubSeq(<<g>>, 1, 0) = << >>
    /\ \A g \in {"read", "write", "upg"} : SubSeq(<<"upg", g>>, 1, 1) = <<"upg">>
    /\ SubSeq(<<"upg", "write">>, 1, 0) \o <<"write">> = <<"write">>
<1>1. \A g : SubSeq(<<g>>, 1, 0) = << >>
  BY SubSeqEmpty
<1>2. ASSUME NEW g \in {"read", "write", "upg"}
      PROVE  SubSeq(<<"upg", g>>, 1, 1) = <<"upg">>
  <2> DEFINE s == SubSeq(<<"upg", g>>, 1, 1)
  <2>1. \A i \in 1 .. 1 : <<"upg", g>>[i] \in {"upg"}
    OBVIOUS
  <2>2. s \in Seq({"upg"}) /\ Len(s) = 1 /\ s[1] = "upg"
    BY <2>1, SubSeqProperties
  <2> HIDE DEF s
  <2>3. <<"upg">> \in Seq({"upg"})
    OBVIOUS
  <2>4. s = <<"upg">>
    BY <2>2, <2>3, SeqEqual
  <2> QED BY <2>4 DEF s
<1>3. SubSeq(<<"upg", "write">>, 1, 0) = << >>
  BY SubSeqEmpty
<1>4. << >> \o <<"write">> = <<"write">>
  OBVIOUS
<1> QED BY <1>1, <1>2, <1>3, <1>4

-----------------------------------------------------------------------------
(* Counting guards when one handle's nesting changes. *)

(* Two sets of handles that differ in h at most. *)
LEMMA OneHandle ==
    ASSUME NEW S \in SUBSET Handles, NEW T \in SUBSET Handles,
           NEW h \in Handles, S \ {h} = T \ {h}
    PROVE  /\ Cardinality(S) \in 0 .. Cardinality(Handles)
           /\ Cardinality(T) = Cardinality(S) + Bit(h \in T) - Bit(h \in S)
<1>1. IsFiniteSet(S) /\ IsFiniteSet(T)
  BY HandlesAssumption, FS_Subset
<1>2. /\ Cardinality(S) \in Nat /\ Cardinality(T) \in Nat
      /\ Cardinality(Handles) \in Nat
      /\ Cardinality(S) <= Cardinality(Handles)
  BY <1>1, HandlesAssumption, FS_Subset, FS_CardinalityType
<1>3. ASSUME NEW R \in SUBSET Handles, IsFiniteSet(R), Cardinality(R) \in Nat
      PROVE  Cardinality(R) = Cardinality(R \ {h}) + Bit(h \in R)
  <2>1. Cardinality(R \ {h})
            = IF h \in R THEN Cardinality(R) - 1 ELSE Cardinality(R)
    BY <1>3, FS_RemoveElement
  <2>2. CASE h \in R
    BY <1>3, <2>1, <2>2 DEF Bit
  <2>3. CASE h \notin R
    BY <1>3, <2>1, <2>3 DEF Bit
  <2> QED BY <2>2, <2>3
<1>4. /\ Cardinality(S) = Cardinality(S \ {h}) + Bit(h \in S)
      /\ Cardinality(T) = Cardinality(S \ {h}) + Bit(h \in T)
  BY <1>1, <1>2, <1>3
<1>5. /\ Cardinality(S \ {h}) \in Nat
      /\ Bit(h \in S) \in Int /\ Bit(h \in T) \in Int
  BY <1>1, FS_RemoveElement, FS_CardinalityType DEF Bit
<1> QED BY <1>2, <1>4, <1>5

(* Two handles in a set are two of its elements. *)
LEMMA TwoHandles ==
    ASSUME NEW S \in SUBSET Handles, NEW h \in Handles,
           NEW g \in Handles \ {h}
    PROVE  /\ Cardinality(S) \in Nat
           /\ Bit(h \in S) + Bit(g \in S) <= Cardinality(S)
<1> DEFINE T == S \ {h}
           R == T \ {g}
<1>1. T \in SUBSET Handles /\ R \in SUBSET Handles
  OBVIOUS
<1>2. /\ Cardinality(S) \in Nat
      /\ Cardinality(T) = Cardinality(S) + Bit(h \in T) - Bit(h \in S)
  <2>1. S \ {h} = T \ {h}
    OBVIOUS
  <2> HIDE DEF T
  <2> QED BY <1>1, <2>1, OneHandle
<1>3. /\ Cardinality(R) = Cardinality(T) + Bit(g \in R) - Bit(g \in T)
  <2>1. T \ {g} = R \ {g}
    OBVIOUS
  <2> HIDE DEF T, R
  <2> QED BY <1>1, <2>1, OneHandle
<1>4. Cardinality(R) \in Nat
  <2> HIDE DEF T, R
  <2> QED BY <1>1, HandlesAssumption, FS_Subset, FS_CardinalityType
<1>5. Bit(h \in T) = 0 /\ Bit(g \in R) = 0 /\ Bit(g \in T) = Bit(g \in S)
  BY DEF Bit
<1>6. Bit(h \in S) \in Int /\ Bit(g \in S) \in Int
  BY DEF Bit
<1> HIDE DEF T, R
<1> QED BY <1>2, <1>3, <1>4, <1>5, <1>6

(* The number of live guards changes by what the nesting does. *)
LEMMA Counts ==
    ASSUME guards \in [Handles -> Stacks], NEW h \in Handles,
           NEW t \in Stacks, guards' = [guards EXCEPT ![h] = t],
           NEW kinds
    PROVE  /\ LiveGuards(kinds) \in 0 .. 2 * Cardinality(Handles)
           /\ LiveGuards(kinds)' = LiveGuards(kinds) + Weight(kinds, t)
                                - Weight(kinds, guards[h])
<1>1. ASSUME NEW i \in {1, 2}
      PROVE  /\ Cardinality(GuardsAt(i, kinds)) \in 0 .. Cardinality(Handles)
             /\ Cardinality(GuardsAt(i, kinds)') = Cardinality(GuardsAt(i, kinds))
                    + InStack(i, kinds, t) - InStack(i, kinds, guards[h])
  <2>1. GuardsAt(i, kinds) \in SUBSET Handles /\ GuardsAt(i, kinds)' \in SUBSET Handles
    BY DEF GuardsAt
  <2>2. GuardsAt(i, kinds) \ {h} = GuardsAt(i, kinds)' \ {h}
    BY DEF GuardsAt
  <2>3. h \in GuardsAt(i, kinds)' <=> i <= Len(t) /\ t[i] \in kinds
    BY DEF GuardsAt
  <2>4. h \in GuardsAt(i, kinds) <=> i <= Len(guards[h]) /\ guards[h][i] \in kinds
    BY DEF GuardsAt
  <2>5. /\ Bit(h \in GuardsAt(i, kinds)') = InStack(i, kinds, t)
        /\ Bit(h \in GuardsAt(i, kinds)) = InStack(i, kinds, guards[h])
    BY <2>3, <2>4 DEF InStack, Bit
  <2> QED BY <2>1, <2>2, <2>5, OneHandle
<1>2. \A i \in {1, 2} : InStack(i, kinds, t) \in Int
                        /\ InStack(i, kinds, guards[h]) \in Int
  BY DEF InStack, Bit
<1>3. Cardinality(Handles) \in Nat
  BY HandlesAssumption, FS_CardinalityType
<1>4. /\ Cardinality(GuardsAt(1, kinds)) \in 0 .. Cardinality(Handles)
      /\ Cardinality(GuardsAt(1, kinds)') = Cardinality(GuardsAt(1, kinds))
             + InStack(1, kinds, t) - InStack(1, kinds, guards[h])
  BY <1>1
<1>5. /\ Cardinality(GuardsAt(2, kinds)) \in 0 .. Cardinality(Handles)
      /\ Cardinality(GuardsAt(2, kinds)') = Cardinality(GuardsAt(2, kinds))
             + InStack(2, kinds, t) - InStack(2, kinds, guards[h])
  BY <1>1
<1> QED BY <1>2, <1>3, <1>4, <1>5 DEF LiveGuards, Weight

(* The guards of two handles are among the live ones. *)
LEMMA Among ==
    ASSUME guards \in [Handles -> Stacks], NEW h \in Handles,
           NEW g \in Handles \ {h}, NEW kinds
    PROVE  Weight(kinds, guards[h]) + Weight(kinds, guards[g]) <= LiveGuards(kinds)
<1>1. ASSUME NEW i \in {1, 2}
      PROVE  /\ Cardinality(GuardsAt(i, kinds)) \in Nat
             /\ InStack(i, kinds, guards[h]) + InStack(i, kinds, guards[g])
                    <= Cardinality(GuardsAt(i, kinds))
  <2>1. GuardsAt(i, kinds) \in SUBSET Handles
    BY DEF GuardsAt
  <2>2. /\ Bit(h \in GuardsAt(i, kinds)) = InStack(i, kinds, guards[h])
        /\ Bit(g \in GuardsAt(i, kinds)) = InStack(i, kinds, guards[g])
    BY DEF GuardsAt, InStack, Bit
  <2> QED BY <2>1, <2>2, TwoHandles
<1>2. \A i \in {1, 2} : InStack(i, kinds, guards[h]) \in Int
                        /\ InStack(i, kinds, guards[g]) \in Int
  BY DEF InStack, Bit
<1>3. /\ Cardinality(GuardsAt(1, kinds)) \in Nat
      /\ InStack(1, kinds, guards[h]) + InStack(1, kinds, guards[g])
             <= Cardinality(GuardsAt(1, kinds))
      /\ Cardinality(GuardsAt(2, kinds)) \in Nat
      /\ InStack(2, kinds, guards[h]) + InStack(2, kinds, guards[g])
             <= Cardinality(GuardsAt(2, kinds))
  BY <1>1
<1> QED BY <1>2, <1>3 DEF LiveGuards, Weight

(* The guards of one handle are. *)
LEMMA Own ==
    ASSUME guards \in [Handles -> Stacks], NEW h \in Handles, NEW kinds
    PROVE  Weight(kinds, guards[h]) <= LiveGuards(kinds)
<1>1. ASSUME NEW i \in {1, 2}
      PROVE  /\ Cardinality(GuardsAt(i, kinds)) \in Nat
             /\ InStack(i, kinds, guards[h]) <= Cardinality(GuardsAt(i, kinds))
  <2> DEFINE S == GuardsAt(i, kinds)
             T == S \ {h}
  <2>1. S \in SUBSET Handles /\ T \in SUBSET Handles /\ S \ {h} = T \ {h}
    BY DEF GuardsAt
  <2>2. Bit(h \in S) = InStack(i, kinds, guards[h]) /\ Bit(h \in T) = 0
    BY DEF GuardsAt, InStack, Bit
  <2> HIDE DEF S, T
  <2>3. Cardinality(T) = Cardinality(S) + Bit(h \in T) - Bit(h \in S)
    BY <2>1, OneHandle
  <2>4. Cardinality(S) \in Nat /\ Cardinality(T) \in Nat
    BY <2>1, HandlesAssumption, FS_Subset, FS_CardinalityType
  <2>5. Bit(h \in S) \in Int
    BY DEF Bit
  <2>6. Bit(h \in S) <= Cardinality(S)
    BY <2>2, <2>3, <2>4, <2>5
  <2> QED BY <2>2, <2>4, <2>6 DEF S
<1>2. /\ InStack(1, kinds, guards[h]) \in Int
      /\ InStack(2, kinds, guards[h]) \in Int
  BY DEF InStack, Bit
<1>3. /\ Cardinality(GuardsAt(1, kinds)) \in Nat
      /\ InStack(1, kinds, guards[h]) <= Cardinality(GuardsAt(1, kinds))
      /\ Cardinality(GuardsAt(2, kinds)) \in Nat
      /\ InStack(2, kinds, guards[h]) <= Cardinality(GuardsAt(2, kinds))
  BY <1>1
<1> QED BY <1>2, <1>3 DEF LiveGuards, Weight

(* Upgradable guards are counted as readers. *)
LEMMA UpgradableCounted == LiveGuards({"upg"}) <= LiveGuards(Counted)
<1>1. ASSUME NEW i \in {1, 2}
      PROVE  /\ Cardinality(GuardsAt(i, {"upg"})) \in Nat
             /\ Cardinality(GuardsAt(i, Counted)) \in Nat
             /\ Cardinality(GuardsAt(i, {"upg"})) <= Cardinality(GuardsAt(i, Counted))
  <2>1. /\ GuardsAt(i, Counted) \in SUBSET Handles
        /\ GuardsAt(i, {"upg"}) \in SUBSET GuardsAt(i, Counted)
    BY DEF GuardsAt, Counted
  <2>2. IsFiniteSet(GuardsAt(i, Counted)) /\ IsFiniteSet(GuardsAt(i, {"upg"}))
    BY <2>1, HandlesAssumption, FS_Subset
  <2> QED BY <2>1, <2>2, FS_Subset, FS_CardinalityType
<1>2. /\ Cardinality(GuardsAt(1, {"upg"})) \in Nat
      /\ Cardinality(GuardsAt(1, Counted)) \in Nat
      /\ Cardinality(GuardsAt(1, {"upg"})) <= Cardinality(GuardsAt(1, Counted))
      /\ Cardinality(GuardsAt(2, {"upg"})) \in Nat
      /\ Cardinality(GuardsAt(2, Counted)) \in Nat
      /\ Cardinality(GuardsAt(2, {"upg"})) <= Cardinality(GuardsAt(2, Counted))
  BY <1>1
<1> QED BY <1>2 DEF LiveGuards

-----------------------------------------------------------------------------
(* What the nestings become. *)

(* A new guard on top of the nestings that take one. *)
LEMMA Pushed ==
    /\ \A g \in {"read", "write", "upg"} : Append(<< >>, g) = <<g>>
    /\ Append(<<"upg">>, "write") = <<"upg", "write">>
<1> DEFINE S == {"read", "write", "upg"}
<1>1. ASSUME NEW g \in S PROVE Append(<< >>, g) = <<g>>
  <2> DEFINE s == Append(<< >>, g)
             t == <<g>>
  <2>1. << >> \in Seq(S) /\ Len(<< >>) = 0
    OBVIOUS
  <2>2. s \in Seq(S) /\ Len(s) = 1 /\ s[1] = g
    BY <2>1, AppendProperties
  <2>3. t \in Seq(S) /\ Len(t) = 1 /\ t[1] = g
    OBVIOUS
  <2>4. s = t
    <3> HIDE DEF s, t
    <3> QED BY <2>2, <2>3, SeqEqual
  <2> QED BY <2>4
<1>2. Append(<<"upg">>, "write") = <<"upg", "write">>
  <2> DEFINE u == <<"upg">>
             s == Append(u, "write")
             t == <<"upg", "write">>
  <2>1. u \in Seq(S) /\ Len(u) = 1 /\ u[1] = "upg"
    OBVIOUS
  <2>2. s \in Seq(S) /\ Len(s) = 2 /\ s[1] = "upg" /\ s[2] = "write"
    <3>1. "write" \in S
      OBVIOUS
    <3>2. s \in Seq(S) /\ Len(s) = 2 /\ s[2] = "write"
      BY <2>1, <3>1, AppendProperties
    <3>3. s[1] = u[1]
      BY <2>1, <3>1, AppendProperties
    <3> QED BY <2>1, <3>2, <3>3
  <2>3. t \in Seq(S) /\ Len(t) = 2 /\ t[1] = "upg" /\ t[2] = "write"
    OBVIOUS
  <2>4. s = t
    <3> HIDE DEF s, t
    <3> QED BY <2>2, <2>3, SeqEqual
  <2> QED BY <2>4
<1> QED BY <1>1, <1>2

(* The newest guard changed for another kind. *)
LEMMA Swapped ==
    ASSUME NEW a \in {"read", "write", "upg"}, NEW b \in {"read", "write", "upg"}
    PROVE  /\ [<<a>> EXCEPT ![Len(<<a>>)] = b] = <<b>>
           /\ [<<"upg", a>> EXCEPT ![Len(<<"upg", a>>)] = b] = <<"upg", b>>
<1> DEFINE S == {"read", "write", "upg"}
<1>1. <<a>> \in Seq(S) /\ <<b>> \in Seq(S) /\ Len(<<a>>) = 1 /\ Len(<<b>>) = 1
  OBVIOUS
<1>2. /\ <<"upg", a>> \in Seq(S) /\ <<"upg", b>> \in Seq(S)
      /\ Len(<<"upg", a>>) = 2 /\ Len(<<"upg", b>>) = 2
  OBVIOUS
<1>3. [<<a>> EXCEPT ![Len(<<a>>)] = b] = <<b>>
  <2> DEFINE s == <<a>>
             t == <<b>>
             x == [s EXCEPT ![1] = b]
  <2>1. x \in Seq(S) /\ Len(x) = 1 /\ x[1] = b
    BY <1>1, ExceptSeq
  <2>2. t \in Seq(S) /\ Len(t) = 1 /\ t[1] = b
    BY <1>1
  <2>3. x = t
    <3> HIDE DEF x, t
    <3> QED BY <2>1, <2>2, SeqEqual
  <2> QED BY <2>3, <1>1
<1>4. [<<"upg", a>> EXCEPT ![Len(<<"upg", a>>)] = b] = <<"upg", b>>
  <2> DEFINE s == <<"upg", a>>
             t == <<"upg", b>>
             x == [s EXCEPT ![2] = b]
  <2>1. x \in Seq(S) /\ Len(x) = 2 /\ x[1] = "upg" /\ x[2] = b
    BY <1>2, ExceptSeq
  <2>2. t \in Seq(S) /\ Len(t) = 2 /\ t[1] = "upg" /\ t[2] = b
    BY <1>2
  <2>3. x = t
    <3> HIDE DEF x, t
    <3> QED BY <2>1, <2>2, SeqEqual
  <2> QED BY <2>3, <1>2
<1> QED BY <1>3, <1>4

-----------------------------------------------------------------------------
(* The word and the ledger of live guards. *)

(* Below its maximum the count is increased without a carry. *)
LEMMA Increase ==
    ASSUME NEW s \in Words, s.readers < MaxReaders
    PROVE  /\ IncReader(s) = [s EXCEPT !.readers = s.readers + 1]
           /\ IncReader(s) \in Words
           /\ IncReader(s).readers = s.readers + 1
           /\ IncReader(s).writer = s.writer
           /\ IncReader(s).upgrade = s.upgrade
BY MaxReadersAssumption DEF IncReader, Words

(* Setting and clearing the bits leaves the count alone. *)
LEMMA Marked ==
    ASSUME NEW s \in Words, NEW w \in BOOLEAN, NEW q \in BOOLEAN
    PROVE  /\ [s EXCEPT !.writer = w] \in Words
           /\ [s EXCEPT !.writer = w].readers = s.readers
           /\ [s EXCEPT !.writer = w].upgrade = s.upgrade
           /\ [s EXCEPT !.writer = w].writer = w
           /\ [s EXCEPT !.writer = w, !.queued = q] \in Words
           /\ [s EXCEPT !.writer = w, !.queued = q].readers = s.readers
           /\ [s EXCEPT !.writer = w, !.queued = q].upgrade = s.upgrade
           /\ [s EXCEPT !.writer = w, !.queued = q].writer = w
           /\ [s EXCEPT !.queued = q] \in Words
           /\ [s EXCEPT !.queued = q].readers = s.readers
           /\ [s EXCEPT !.queued = q].upgrade = s.upgrade
           /\ [s EXCEPT !.queued = q].writer = s.writer
           /\ [s EXCEPT !.writer = w, !.upgrade = q] \in Words
           /\ [s EXCEPT !.writer = w, !.upgrade = q].readers = s.readers
           /\ [s EXCEPT !.writer = w, !.upgrade = q].upgrade = q
           /\ [s EXCEPT !.writer = w, !.upgrade = q].writer = w
           /\ [s EXCEPT !.upgrade = q] \in Words
           /\ [s EXCEPT !.upgrade = q].readers = s.readers
           /\ [s EXCEPT !.upgrade = q].upgrade = q
           /\ [s EXCEPT !.upgrade = q].writer = s.writer
BY DEF Words

(* A counted reader can be taken off. *)
LEMMA Decrease ==
    ASSUME NEW s \in Words, s.readers >= 1
    PROVE  /\ DecReader(s) \in Words
           /\ DecReader(s).readers = s.readers + (-1)
           /\ DecReader(s).upgrade = s.upgrade
           /\ DecReader(s).writer = s.writer
<1>1. s.readers - 1 \in 0 .. MaxReaders /\ s.readers - 1 = s.readers + (-1)
  BY MaxReadersAssumption DEF Words
<1>2. /\ DecReader(s) \in Words /\ DecReader(s).readers = s.readers - 1
      /\ DecReader(s).upgrade = s.upgrade /\ DecReader(s).writer = s.writer
  BY <1>1 DEF DecReader, Words
<1> QED BY <1>1, <1>2

(* The live guards before and after a change of one nesting; the count is
   below its maximum. *)
LEMMA Ledger ==
    ASSUME LockInv, NEW h \in Handles, NEW t \in Stacks,
           guards' = [guards EXCEPT ![h] = t]
    PROVE  /\ word \in Words /\ word.readers \in Nat
           /\ word.readers < MaxReaders
           /\ LiveGuards(Counted) \in Nat /\ LiveGuards({"upg"}) \in Nat
           /\ LiveGuards(Counted) <= word.readers
           /\ LiveGuards(Counted)' = LiveGuards(Counted) + Weight(Counted, t)
                                   - Weight(Counted, guards[h])
           /\ LiveGuards({"upg"})' = LiveGuards({"upg"}) + Weight({"upg"}, t)
                                   - Weight({"upg"}, guards[h])
<1>1. guards \in [Handles -> Stacks] /\ NeverUndercounted /\ word \in Words
  BY DEF LockInv, TypeOK
<1>2. word.readers \in Nat
  BY <1>1, MaxReadersAssumption DEF Words
<1>3. /\ LiveGuards(Counted) \in 0 .. 2 * Cardinality(Handles)
      /\ LiveGuards(Counted)' = LiveGuards(Counted) + Weight(Counted, t)
                                   - Weight(Counted, guards[h])
  BY <1>1, Counts
<1>4. /\ LiveGuards({"upg"}) \in 0 .. 2 * Cardinality(Handles)
      /\ LiveGuards({"upg"})' = LiveGuards({"upg"}) + Weight({"upg"}, t)
                                   - Weight({"upg"}, guards[h])
  BY <1>1, Counts
<1>5. Cardinality(Handles) \in Nat
  BY HandlesAssumption, FS_CardinalityType
<1>6. LiveGuards(Counted) <= word.readers /\ word.readers <= LiveGuards(Counted) + 1
  <2>1. Leaked >= 0 /\ Stray >= 0 /\ Leaked + Stray <= 1
    BY <1>1 DEF NeverUndercounted
  <2>2. Leaked \in Int /\ Stray \in Int
    BY <1>2, <1>3, <1>4, <1>5 DEF Leaked, Stray
  <2>3. Leaked >= 0 /\ Leaked <= 1
    BY <2>1, <2>2
  <2> QED BY <1>2, <1>3, <1>5, <2>3 DEF Leaked
<1> QED BY <1>1, <1>2, <1>3, <1>4, <1>5, <1>6, MaxReadersAssumption

(* What the word and the live guards say of each other in any one state. *)
LEMMA Standing ==
    ASSUME LockInv, NEW h \in Handles
    PROVE  /\ Leaked \in Nat /\ Stray \in Nat
           /\ word.readers \in Nat
           /\ LiveGuards(Counted) \in Nat /\ LiveGuards({"upg"}) \in Nat
           /\ Leaked = word.readers - LiveGuards(Counted)
           /\ Stray = LiveGuards({"upg"}) - Bit(word.upgrade)
<1>1. guards \in [Handles -> Stacks] /\ word \in Words
  BY DEF LockInv, TypeOK
<1>2. word.readers \in Nat
  BY <1>1, MaxReadersAssumption DEF Words
<1>3. ASSUME NEW kinds PROVE LiveGuards(kinds) \in Nat
  <2>1. \A i \in {1, 2} : GuardsAt(i, kinds) \in SUBSET Handles
    BY DEF GuardsAt
  <2>2. \A i \in {1, 2} : Cardinality(GuardsAt(i, kinds)) \in Nat
    BY <2>1, HandlesAssumption, FS_Subset, FS_CardinalityType
  <2> QED BY <2>2 DEF LiveGuards
<1>4. Leaked = word.readers - LiveGuards(Counted)
  BY DEF Leaked
<1>5. Stray = LiveGuards({"upg"}) - Bit(word.upgrade) /\ Bit(word.upgrade) \in Int
  BY DEF Stray, Bit
<1>6. Leaked >= 0 /\ Stray >= 0
  BY DEF LockInv, NeverUndercounted
<1>7. LiveGuards(Counted) \in Nat /\ LiveGuards({"upg"}) \in Nat
  BY <1>3
<1> QED BY <1>2, <1>4, <1>5, <1>6, <1>7

-----------------------------------------------------------------------------
(* Writers. *)

(* Whoever holds a guard while a writer is in is that writer. *)
LEMMA Alone ==
    ASSUME LockInv, NEW h \in Handles, guards[h] # << >>, word.writer
    PROVE  Holds(h, "write")
BY DEF LockInv, WriterSeesExact, WriterExcludesAll

(* While no writer is in, nobody holds a writer guard. *)
LEMMA Nobody ==
    ASSUME LockInv, ~word.writer
    PROVE  \A g \in Handles : ~Holds(g, "write")
BY DEF LockInv, WriterBitSet

Writers == WriterBitSet /\ WriterSeesExact /\ WriterExcludesAll

(* h becomes or stays no writer, and nobody else is one. *)
LEMMA NoWriter ==
    ASSUME LockInv, NEW h \in Handles, NEW t \in Stacks,
           guards' = [guards EXCEPT ![h] = t],
           t \notin {<<"write">>, <<"upg", "write">>},
           \A g \in Handles \ {h} : ~Holds(g, "write"),
           ~word'.writer
    PROVE  Writers'
<1>1. guards \in [Handles -> Stacks]
  BY DEF LockInv
<1>2. \A g \in Handles : ~Holds(g, "write")'
  <2>1. ~Holds(h, "write")'
    BY <1>1, Newest DEF Holds, TopGuard
  <2>2. ASSUME NEW g \in Handles \ {h} PROVE ~Holds(g, "write")'
    BY <1>1, <2>2 DEF Holds, TopGuard
  <2> QED BY <2>1, <2>2
<1> QED BY <1>2 DEF Writers, WriterBitSet, WriterSeesExact, WriterExcludesAll

(* h is the writer and nobody else holds anything. *)
LEMMA OneWriter ==
    ASSUME LockInv, NEW h \in Handles, NEW t \in Stacks,
           guards' = [guards EXCEPT ![h] = t],
           t \in {<<"write">>, <<"upg", "write">>},
           \A g \in Handles \ {h} : guards[g] = << >>,
           word'.writer, (Leaked + Stray = 0)'
    PROVE  Writers'
<1>1. guards \in [Handles -> Stacks]
  BY DEF LockInv
<1>2. Holds(h, "write")'
  BY <1>1, Newest DEF Holds, TopGuard
<1>3. \A g \in Handles \ {h} : guards'[g] = << >> /\ ~Holds(g, "write")'
  BY <1>1 DEF Holds
<1> QED BY <1>2, <1>3 DEF Writers, WriterBitSet, WriterSeesExact, WriterExcludesAll

-----------------------------------------------------------------------------
(* One step of one handle. *)

(* What a step has to show that changes the nesting of one handle. *)
LEMMA Step ==
    ASSUME LockInv, NEW h \in Handles, NEW t \in Stacks, NEW l,
           guards' = [guards EXCEPT ![h] = t],
           pc' = [pc EXCEPT ![h] = l],
           l = "idle" \/ (l = "settle" /\ t = <<"upg", "write">>),
           word' \in Words, NeverUndercounted', Writers'
    PROVE  LockInv'
<1>1. guards \in [Handles -> Stacks] /\ TypeOK /\ CallsHold
  BY DEF LockInv
<1>2. guards' \in [Handles -> Stacks]
  BY <1>1
<1>3. guards' \in [Handles -> Seq({"read", "write", "upg"})]
  BY <1>2, StacksAreSeqs
<1>4. pc' \in [Handles -> Waiting \cup {"idle", "queue", "queueAgain", "settle"}]
  BY <1>1 DEF TypeOK
<1>5. TypeOK'
  BY <1>3, <1>4 DEF TypeOK
<1>6. CallsHold'
  BY <1>1 DEF TypeOK, CallsHold
<1> QED BY <1>2, <1>5, <1>6 DEF LockInv, Writers

(* What h's nesting adds to the live guards by becoming t. *)
Gain(kinds, h, t) == Weight(kinds, t) - Weight(kinds, guards[h])

(* The ledger after a step, from the change of the word and of the nesting. *)
LEMMA Balance ==
    ASSUME LockInv, NEW h \in Handles, NEW t \in Stacks,
           guards' = [guards EXCEPT ![h] = t], word' \in Words
    PROVE  /\ Leaked \in Nat /\ Stray \in Nat /\ Leaked + Stray <= 1
           /\ word.readers \in Nat /\ word'.readers \in Nat
           /\ Gain(Counted, h, t) \in Int /\ Gain({"upg"}, h, t) \in Int
           /\ Bit(word.upgrade) \in 0 .. 1 /\ Bit(word'.upgrade) \in 0 .. 1
           /\ Stray = LiveGuards({"upg"}) - Bit(word.upgrade)
           /\ LiveGuards({"upg"}) \in Nat
           /\ Leaked' = Leaked + (word'.readers - word.readers)
                            - Gain(Counted, h, t)
           /\ Stray' = Stray + Gain({"upg"}, h, t)
                            - (Bit(word'.upgrade) - Bit(word.upgrade))
<1> DEFINE u == Bit(word.upgrade)
           v == Bit(word'.upgrade)
<1>1. /\ word.readers \in Nat
      /\ LiveGuards(Counted) \in Nat /\ LiveGuards({"upg"}) \in Nat
      /\ LiveGuards(Counted)' = LiveGuards(Counted) + Weight(Counted, t)
                              - Weight(Counted, guards[h])
      /\ LiveGuards({"upg"})' = LiveGuards({"upg"}) + Weight({"upg"}, t)
                              - Weight({"upg"}, guards[h])
  BY Ledger
<1>2. word'.readers \in Nat
  BY MaxReadersAssumption DEF Words
<1>3. /\ Weight(Counted, guards[h]) \in Int /\ Weight({"upg"}, guards[h]) \in Int
      /\ Weight(Counted, t) \in Int /\ Weight({"upg"}, t) \in Int
  BY DEF Weight, InStack, Bit
<1>4. /\ u \in 0 .. 1 /\ v \in 0 .. 1
      /\ Stray = LiveGuards({"upg"}) - u /\ Stray' = LiveGuards({"upg"})' - v
  BY DEF Stray, Bit
<1>5. Leaked = word.readers - LiveGuards(Counted)
      /\ Leaked' = word'.readers - LiveGuards(Counted)'
  BY DEF Leaked
<1> HIDE DEF u, v
<1>6. Leaked \in Int /\ Stray \in Int
  BY <1>1, <1>4, <1>5
<1>7. Leaked >= 0 /\ Stray >= 0 /\ Leaked + Stray <= 1
  BY DEF LockInv, NeverUndercounted
<1>8. /\ Gain(Counted, h, t) \in Int
      /\ Leaked' = Leaked + (word'.readers - word.readers) - Gain(Counted, h, t)
  BY <1>1, <1>2, <1>3, <1>5 DEF Gain
<1>9. /\ Gain({"upg"}, h, t) \in Int
      /\ Stray' = Stray + Gain({"upg"}, h, t) - (v - u)
  BY <1>1, <1>3, <1>4 DEF Gain
<1> QED BY <1>1, <1>2, <1>4, <1>6, <1>7, <1>8, <1>9 DEF u, v

(* Nothing is lost when the word follows the nesting. *)
LEMMA Balanced ==
    ASSUME LockInv, NEW h \in Handles, NEW t \in Stacks,
           guards' = [guards EXCEPT ![h] = t], word' \in Words,
           word'.readers = word.readers + Gain(Counted, h, t),
           Bit(word'.upgrade) = Bit(word.upgrade) + Gain({"upg"}, h, t)
    PROVE  /\ NeverUndercounted'
           /\ (Leaked + Stray)' = Leaked + Stray
<1> DEFINE c == Gain(Counted, h, t)
           d == Gain({"upg"}, h, t)
           u == Bit(word.upgrade)
           v == Bit(word'.upgrade)
<1>1. /\ Leaked \in Nat /\ Stray \in Nat /\ Leaked + Stray <= 1
      /\ word.readers \in Nat /\ c \in Int /\ d \in Int /\ u \in 0 .. 1
      /\ Leaked' = Leaked + (word'.readers - word.readers) - c
      /\ Stray' = Stray + d - (v - u)
  BY Balance
<1> HIDE DEF c, d, u, v
<1>2. word'.readers = word.readers + c /\ v = u + d
  BY DEF c, d, u, v
<1>3. Leaked' = Leaked /\ Stray' = Stray
  BY <1>1, <1>2
<1> QED BY <1>1, <1>3 DEF NeverUndercounted

(* A free handle has no guard. *)
LEMMA FreeIsEmpty ==
    ASSUME LockInv, NEW h \in Handles,
           NEW l \in {"waitRead", "waitWrite", "waitUpg"}, Free(h, l)
    PROVE  guards[h] = << >>
BY DEF LockInv, CallsHold, Free

(* try_read: a shared guard is taken while no writer is in. *)
LEMMA TryReadStep ==
    ASSUME LockInv, NEW h \in Handles, TryRead(h)
    PROVE  LockInv'
<1> DEFINE t == <<"read">>
<1>1. t \in Stacks
  BY DEF Stacks
<1>2. guards[h] = << >>
  BY FreeIsEmpty DEF TryRead
<1>3. guards' = [guards EXCEPT ![h] = t] /\ pc' = [pc EXCEPT ![h] = "idle"]
  BY <1>2, Pushed DEF TryRead, Push, Goto
<1>4. Gain(Counted, h, t) = 1 /\ Gain({"upg"}, h, t) = 0
  BY <1>2, Weights DEF Gain
<1> HIDE DEF t
<1>5. word \in Words /\ word.readers \in Nat
  BY <1>1, <1>3, Ledger
<1>6. /\ word' \in Words /\ word'.readers = word.readers + 1
      /\ word'.upgrade = word.upgrade /\ word'.writer = word.writer
      /\ ~word.writer
  BY <1>5, Increase DEF TryRead, CanRead
<1>7. Bit(word'.upgrade) = Bit(word.upgrade) + 0
  BY <1>6 DEF Bit
<1>8. NeverUndercounted'
  BY <1>1, <1>3, <1>4, <1>6, <1>7, Balanced
<1>9. Writers'
  BY <1>1, <1>3, <1>6, Nobody, NoWriter DEF t
<1> QED BY <1>1, <1>3, <1>6, <1>8, <1>9, Step

(* try_upgradable_read: so is an upgradable one, with its bit. *)
LEMMA TryUpgradableReadStep ==
    ASSUME LockInv, NEW h \in Handles, TryUpgradableRead(h)
    PROVE  LockInv'
<1> DEFINE t == <<"upg">>
           s == [word EXCEPT !.upgrade = TRUE]
<1>1. t \in Stacks
  BY DEF Stacks
<1>2. guards[h] = << >>
  BY FreeIsEmpty DEF TryUpgradableRead
<1>3. guards' = [guards EXCEPT ![h] = t] /\ pc' = [pc EXCEPT ![h] = "idle"]
  BY <1>2, Pushed DEF TryUpgradableRead, Push, Goto
<1>4. Gain(Counted, h, t) = 1 /\ Gain({"upg"}, h, t) = 1
  BY <1>2, Weights DEF Gain
<1> HIDE DEF t
<1>5. word \in Words /\ word.readers \in Nat /\ word.readers < MaxReaders
  BY <1>1, <1>3, Ledger
<1>6. /\ word' \in Words /\ word'.readers = word.readers + 1
      /\ word'.upgrade = TRUE /\ word.upgrade = FALSE
      /\ ~word'.writer /\ ~word.writer
  <2>1. /\ s \in Words /\ s.readers = word.readers /\ s.writer = word.writer
        /\ s.upgrade = TRUE
    BY <1>5 DEF Words
  <2>2. word' = IncReader(s) /\ ~word.writer /\ ~word.upgrade
    BY DEF TryUpgradableRead, CanReadUpgradably
  <2> HIDE DEF s
  <2>3. word.upgrade \in BOOLEAN
    BY <1>5 DEF Words
  <2> QED BY <1>5, <2>1, <2>2, <2>3, Increase
<1>7. Bit(word'.upgrade) = Bit(word.upgrade) + 1
  BY <1>6 DEF Bit
<1>8. NeverUndercounted'
  BY <1>1, <1>3, <1>4, <1>6, <1>7, Balanced
<1>9. Writers'
  BY <1>1, <1>3, <1>6, Nobody, NoWriter DEF t
<1> QED BY <1>1, <1>3, <1>6, <1>8, <1>9, Step

(* A word with a count of zero stands for no reader at all. *)
LEMMA NoReaders ==
    ASSUME LockInv, NEW h \in Handles, word.readers = 0, ~word.writer
    PROVE  /\ Leaked = 0 /\ Stray = 0
           /\ \A g \in Handles : guards[g] = << >>
<1>0. guards \in [Handles -> Stacks]
  BY DEF LockInv
<1>1. /\ Leaked \in Nat /\ Stray \in Nat
      /\ LiveGuards(Counted) \in Nat /\ LiveGuards({"upg"}) \in Nat
      /\ Leaked = word.readers - LiveGuards(Counted)
      /\ Stray = LiveGuards({"upg"}) - Bit(word.upgrade)
  BY Standing
<1>2. LiveGuards(Counted) = 0 /\ Leaked = 0
  BY <1>1
<1>3. Stray = 0
  BY <1>1, <1>2, UpgradableCounted DEF Bit
<1>4. ASSUME NEW g \in Handles PROVE guards[g] = << >>
  <2>1. Weight(Counted, guards[g]) <= 0
    BY <1>0, <1>2, Own
  <2>2. guards[g] \in {<< >>, <<"write">>}
    BY <1>0, <2>1, Weights DEF Stacks
  <2>3. guards[g] # <<"write">>
    BY <1>0, Nobody, Tops
  <2> QED BY <2>2, <2>3
<1> QED BY <1>2, <1>3, <1>4

(* A count of one stands for the upgradable guard its holder has in hand. *)
LEMMA OneReader ==
    ASSUME LockInv, NEW h \in Handles, Holds(h, "upg"), CanUpgrade(word)
    PROVE  /\ Leaked = 0 /\ Stray = 0
           /\ guards[h] = <<"upg">>
           /\ \A g \in Handles \ {h} : guards[g] = << >>
<1>0. guards \in [Handles -> Stacks] /\ word.readers = 1 /\ word.upgrade
  BY DEF LockInv, CanUpgrade
<1>1. /\ Leaked \in Nat /\ Stray \in Nat
      /\ LiveGuards(Counted) \in Nat /\ LiveGuards({"upg"}) \in Nat
      /\ Leaked = word.readers - LiveGuards(Counted)
      /\ Stray = LiveGuards({"upg"}) - Bit(word.upgrade)
  BY Standing
<1>2. LiveGuards(Counted) <= 1
  BY <1>0, <1>1
<1>3. Weight(Counted, guards[h]) <= 1
  <2>1. Weight(Counted, guards[h]) <= LiveGuards(Counted)
    BY <1>0, Own
  <2>2. Weight(Counted, guards[h]) \in Int
    BY DEF Weight, InStack, Bit
  <2> QED BY <1>1, <1>2, <2>1, <2>2
<1>4. guards[h] = <<"upg">> /\ Weight(Counted, guards[h]) = 1
  BY <1>0, <1>3, Tops, Weights
<1>5. LiveGuards(Counted) = 1
  BY <1>0, <1>1, <1>2, <1>4, Own
<1>6. Leaked = 0 /\ Stray = 0
  BY <1>0, <1>1, <1>5, UpgradableCounted DEF Bit
<1>7. ASSUME NEW g \in Handles \ {h} PROVE guards[g] = << >>
  <2>1. Weight(Counted, guards[h]) + Weight(Counted, guards[g]) <= 1
    BY <1>0, <1>5, Among
  <2>2. Weight(Counted, guards[g]) \in Int
    BY DEF Weight, InStack, Bit
  <2>3. Weight(Counted, guards[g]) <= 0
    BY <1>4, <2>1, <2>2
  <2>4. guards[g] \in {<< >>, <<"write">>}
    BY <1>0, <2>3, Weights DEF Stacks
  <2>5. guards[g] # <<"write">>
    <3>1. ~Holds(g, "write")
      BY <1>4 DEF LockInv, WriterExcludesAll
    <3> QED BY <1>0, <3>1, Tops
  <2> QED BY <2>4, <2>5
<1> QED BY <1>4, <1>6, <1>7

(* try_write: a writer is let in when the count is zero. *)
LEMMA TryWriteStep ==
    ASSUME LockInv, NEW h \in Handles, TryWrite(h)
    PROVE  LockInv'
<1> DEFINE t == <<"write">>
<1>1. t \in Stacks
  BY DEF Stacks
<1>2. guards[h] = << >>
  BY FreeIsEmpty DEF TryWrite
<1>3. guards' = [guards EXCEPT ![h] = t] /\ pc' = [pc EXCEPT ![h] = "idle"]
  BY <1>2, Pushed DEF TryWrite, Push, Goto
<1>4. Gain(Counted, h, t) = 0 /\ Gain({"upg"}, h, t) = 0
  BY <1>2, Weights DEF Gain
<1> HIDE DEF t
<1>5. word \in Words /\ word.readers \in Nat
  BY <1>1, <1>3, Ledger
<1>6. /\ word' \in Words /\ word'.readers = word.readers + 0
      /\ word'.upgrade = word.upgrade /\ word'.writer
  <2>1. /\ word' \in Words /\ word'.readers = word.readers
        /\ word'.upgrade = word.upgrade /\ word'.writer = TRUE
    BY <1>5, Marked DEF TryWrite
  <2> QED BY <1>5, <2>1
<1>7. Bit(word'.upgrade) = Bit(word.upgrade) + 0
  BY <1>6 DEF Bit
<1>8. /\ Leaked = 0 /\ Stray = 0
      /\ \A g \in Handles : guards[g] = << >>
  BY NoReaders DEF TryWrite, CanWrite
<1>9. NeverUndercounted' /\ (Leaked + Stray)' = 0
  <2>1. NeverUndercounted' /\ (Leaked + Stray)' = Leaked + Stray
    BY <1>1, <1>3, <1>4, <1>6, <1>7, Balanced
  <2> QED BY <1>8, <2>1
<1>10. Writers'
  BY <1>1, <1>3, <1>6, <1>8, <1>9, OneWriter DEF t
<1> QED BY <1>1, <1>3, <1>6, <1>9, <1>10, Step

(* try_upgrade, borrowed or by value: the one reader left becomes the
   writer. *)
LEMMA TryUpgradeStep ==
    ASSUME LockInv, NEW h \in Handles, NEW l \in {"idle", "settle"},
           Holds(h, "upg"), CanUpgrade(word),
           word' = [word EXCEPT !.writer = TRUE],
           Push(h, "write"), Goto(h, l)
    PROVE  LockInv'
<1> DEFINE t == <<"upg", "write">>
<1>1. t \in Stacks
  BY DEF Stacks
<1>2. /\ Leaked = 0 /\ Stray = 0 /\ guards[h] = <<"upg">>
      /\ \A g \in Handles \ {h} : guards[g] = << >>
  BY OneReader
<1>3. guards' = [guards EXCEPT ![h] = t] /\ pc' = [pc EXCEPT ![h] = l]
  BY <1>2, Pushed DEF Push, Goto
<1>4. Gain(Counted, h, t) = 0 /\ Gain({"upg"}, h, t) = 0
  BY <1>2, Weights DEF Gain
<1> HIDE DEF t
<1>5. word \in Words /\ word.readers \in Nat
  BY <1>1, <1>3, Ledger
<1>6. /\ word' \in Words /\ word'.readers = word.readers + 0
      /\ word'.upgrade = word.upgrade /\ word'.writer
  <2>1. /\ word' \in Words /\ word'.readers = word.readers
        /\ word'.upgrade = word.upgrade /\ word'.writer = TRUE
    BY <1>5, Marked
  <2> QED BY <1>5, <2>1
<1>7. Bit(word'.upgrade) = Bit(word.upgrade) + 0
  BY <1>6 DEF Bit
<1>8. NeverUndercounted' /\ (Leaked + Stray)' = 0
  <2>1. NeverUndercounted' /\ (Leaked + Stray)' = Leaked + Stray
    BY <1>1, <1>3, <1>4, <1>6, <1>7, Balanced
  <2> QED BY <1>2, <2>1
<1>9. Writers'
  BY <1>1, <1>2, <1>3, <1>6, <1>8, OneWriter DEF t
<1> QED BY <1>1, <1>3, <1>6, <1>8, <1>9, Step DEF t

-----------------------------------------------------------------------------
(* Releasing and downgrading. *)

(* on_upgradable_read_drop: with its bit set an upgradable guard leaves as it
   came; with the bit clear it was a stray one, and its count is leaked. *)
LEMMA Freed ==
    ASSUME LockInv, NEW h \in Handles, NEW t \in Stacks,
           guards' = [guards EXCEPT ![h] = t],
           Gain(Counted, h, t) = -1, Gain({"upg"}, h, t) = -1,
           Weight({"upg"}, guards[h]) >= 1, Weight(Counted, guards[h]) >= 1,
           ReleaseUpgradable
    PROVE  /\ word' \in Words /\ word'.writer = word.writer
           /\ NeverUndercounted'
           /\ (Leaked + Stray)' = Leaked + Stray
<1> DEFINE u == Bit(word.upgrade)
           v == Bit(word'.upgrade)
           W(kinds) == Weight(kinds, guards[h])
<1>0. guards \in [Handles -> Stacks]
  BY DEF LockInv
<1>1. /\ word \in Words /\ word.readers \in Nat
      /\ LiveGuards(Counted) \in Nat /\ LiveGuards({"upg"}) \in Nat
      /\ LiveGuards(Counted) <= word.readers
  BY Ledger
<1>2. W({"upg"}) \in Int /\ W(Counted) \in Int
  BY DEF Weight, InStack, Bit
<1>3. LiveGuards({"upg"}) >= 1 /\ word.readers >= 1
  <2>1. W({"upg"}) <= LiveGuards({"upg"}) /\ W(Counted) <= LiveGuards(Counted)
    BY <1>0, Own
  <2>2. W({"upg"}) >= 1 /\ W(Counted) >= 1
    OBVIOUS
  <2> HIDE DEF W
  <2> QED BY <1>1, <1>2, <2>1, <2>2
<1>4. CASE word.upgrade
  <2> DEFINE s == [word EXCEPT !.upgrade = FALSE]
  <2>1. /\ word' = DecReader(s) /\ s \in Words /\ s.readers = word.readers
        /\ s.writer = word.writer /\ s.upgrade = FALSE
    BY <1>1, <1>4, Marked DEF ReleaseUpgradable
  <2> HIDE DEF s
  <2>2. /\ word' \in Words /\ word'.writer = word.writer
        /\ word'.readers = word.readers + (-1) /\ ~word'.upgrade
    BY <1>3, <2>1, Decrease
  <2>3. v = u + (-1)
    BY <1>4, <2>2 DEF Bit
  <2> QED BY <2>2, <2>3, Balanced
<1>5. CASE ~word.upgrade
  <2>1. word' = word
    BY <1>5 DEF ReleaseUpgradable
  <2>2. u = 0 /\ v = 0
    BY <1>5, <2>1 DEF Bit
  <2>3. /\ Leaked \in Nat /\ Stray \in Nat /\ Leaked + Stray <= 1
        /\ Stray = LiveGuards({"upg"}) - u
        /\ Leaked' = Leaked + (word'.readers - word.readers)
                         - Gain(Counted, h, t)
        /\ Stray' = Stray + Gain({"upg"}, h, t) - (v - u)
    BY <1>1, <2>1, Balance
  <2> HIDE DEF u, v
  <2>4. Leaked' = Leaked + 1 /\ Stray' = Stray - 1 /\ Stray >= 1
    BY <1>1, <1>3, <2>1, <2>2, <2>3
  <2> QED BY <1>1, <2>1, <2>3, <2>4 DEF NeverUndercounted
<1> QED BY <1>4, <1>5

(* The upgradable guard below a writer by value is dropped. *)
LEMMA SettleStep ==
    ASSUME LockInv, NEW h \in Handles, Settle(h)
    PROVE  LockInv'
<1> DEFINE t == <<"write">>
<1>0. guards \in [Handles -> Stacks]
  BY DEF LockInv
<1>1. t \in Stacks
  BY DEF Stacks
<1>2. guards[h] = <<"upg", "write">> /\ Holds(h, "write")
  BY <1>0, Tops DEF Settle, LockInv, CallsHold
<1>3. guards' = [guards EXCEPT ![h] = t] /\ pc' = [pc EXCEPT ![h] = "idle"]
  <2>1. Len(guards[h]) - 2 = 0
    BY <1>2
  <2> QED BY <1>2, <2>1, Popped DEF Settle, Goto
<1>4. /\ Gain(Counted, h, t) = -1 /\ Gain({"upg"}, h, t) = -1
      /\ Weight({"upg"}, guards[h]) >= 1 /\ Weight(Counted, guards[h]) >= 1
  BY <1>2, Weights DEF Gain
<1> HIDE DEF t
<1>5. /\ word.writer /\ Leaked + Stray = 0
      /\ \A g \in Handles \ {h} : guards[g] = << >>
  BY <1>2 DEF LockInv, WriterBitSet, WriterSeesExact, WriterExcludesAll
<1>6. /\ word' \in Words /\ word'.writer
      /\ NeverUndercounted' /\ (Leaked + Stray)' = 0
  BY <1>1, <1>3, <1>4, <1>5, Freed DEF Settle
<1>7. Writers'
  BY <1>1, <1>3, <1>5, <1>6, OneWriter DEF t
<1> QED BY <1>1, <1>3, <1>6, <1>7, Step

(* What is left of a nesting when its newest guard goes, or changes. *)
LEMMA Left ==
    ASSUME LockInv, NEW h \in Handles, NEW g \in {"read", "write", "upg"},
           Holds(h, g), Pop(h)
    PROVE  \/ guards[h] = <<g>> /\ guards' = [guards EXCEPT ![h] = << >>]
           \/ guards[h] = <<"upg", g>> /\ guards' = [guards EXCEPT ![h] = <<"upg">>]
<1>0. guards \in [Handles -> Stacks]
  BY DEF LockInv
<1>1. guards[h] \in {<<g>>, <<"upg", g>>}
  BY <1>0, Tops
<1>2. CASE guards[h] = <<g>>
  <2>1. Len(guards[h]) - 1 = 0
    BY <1>2
  <2> QED BY <1>2, <2>1, Popped DEF Pop
<1>3. CASE guards[h] = <<"upg", g>>
  <2>1. Len(guards[h]) - 1 = 1
    BY <1>3
  <2> QED BY <1>3, <2>1, Popped DEF Pop
<1> QED BY <1>1, <1>2, <1>3

(* What a nesting becomes when its newest guard is downgraded. *)
LEMMA Turned ==
    ASSUME LockInv, NEW h \in Handles, NEW g \in {"read", "write", "upg"},
           NEW k \in {"read", "write", "upg"}, Holds(h, g), Swap(h, k)
    PROVE  \/ guards[h] = <<g>> /\ guards' = [guards EXCEPT ![h] = <<k>>]
           \/ guards[h] = <<"upg", g>>
                /\ guards' = [guards EXCEPT ![h] = <<"upg", k>>]
<1>0. guards \in [Handles -> Stacks]
  BY DEF LockInv
<1>1. guards[h] \in {<<g>>, <<"upg", g>>}
  BY <1>0, Tops
<1>2. guards' = [guards EXCEPT ![h] = [guards[h] EXCEPT ![Len(guards[h])] = k]]
  BY DEF Swap
<1>3. CASE guards[h] = <<g>>
  <2>1. [guards[h] EXCEPT ![Len(guards[h])] = k] = <<k>>
    BY <1>3, Swapped
  <2> QED BY <1>2, <1>3, <2>1
<1>4. CASE guards[h] = <<"upg", g>>
  <2>1. [guards[h] EXCEPT ![Len(guards[h])] = k] = <<"upg", k>>
    BY <1>4, Swapped
  <2> QED BY <1>2, <1>4, <2>1
<1> QED BY <1>1, <1>3, <1>4

(* The nestings a released or downgraded guard leaves have no writer. *)
Rest == {<< >>, <<"upg">>, <<"read">>, <<"upg", "read">>, <<"upg", "upg">>}

(* A step that leaves no writer behind. *)
LEMMA StepDown ==
    ASSUME LockInv, NEW h \in Handles, NEW t \in Rest,
           guards[h] # << >>,
           guards' = [guards EXCEPT ![h] = t], pc[h] = "idle", UNCHANGED pc,
           word' \in Words, ~word'.writer, NeverUndercounted'
    PROVE  LockInv'
<1>1. t \in Stacks /\ t \notin {<<"write">>, <<"upg", "write">>}
  BY DEF Rest, Stacks
<1>2. pc' = [pc EXCEPT ![h] = "idle"]
  BY DEF LockInv, TypeOK
<1>3. \A g \in Handles \ {h} : ~Holds(g, "write")
  BY DEF LockInv, WriterExcludesAll
<1>4. Writers'
  BY <1>1, <1>3, NoWriter
<1> QED BY <1>1, <1>2, <1>4, Step

(* on_reader_guard_drop: a counted reader leaves. *)
LEMMA DropReaderStep ==
    ASSUME LockInv, NEW h \in Handles, DropReader(h)
    PROVE  LockInv'
<1>0. guards \in [Handles -> Stacks]
  BY DEF LockInv
<1>1. PICK t \in Rest :
        /\ guards' = [guards EXCEPT ![h] = t] /\ t \in Stacks
        /\ Gain(Counted, h, t) = -1 /\ Gain({"upg"}, h, t) = 0
        /\ Weight(Counted, guards[h]) >= 1
  <2>1. \/ guards[h] = <<"read">> /\ guards' = [guards EXCEPT ![h] = << >>]
        \/ guards[h] = <<"upg", "read">>
             /\ guards' = [guards EXCEPT ![h] = <<"upg">>]
    BY Left DEF DropReader
  <2>2. CASE guards[h] = <<"read">> /\ guards' = [guards EXCEPT ![h] = << >>]
    <3>1. Gain(Counted, h, << >>) = -1 /\ Gain({"upg"}, h, << >>) = 0
      BY <2>2, Weights DEF Gain
    <3>2. Weight(Counted, guards[h]) >= 1 /\ << >> \in Rest /\ << >> \in Stacks
      BY <2>2, Weights DEF Rest, Stacks
    <3> QED BY <2>2, <3>1, <3>2
  <2>3. CASE guards[h] = <<"upg", "read">>
                /\ guards' = [guards EXCEPT ![h] = <<"upg">>]
    <3>1. Gain(Counted, h, <<"upg">>) = -1 /\ Gain({"upg"}, h, <<"upg">>) = 0
      BY <2>3, Weights DEF Gain
    <3>2. /\ Weight(Counted, guards[h]) >= 1
          /\ <<"upg">> \in Rest /\ <<"upg">> \in Stacks
      BY <2>3, Weights DEF Rest, Stacks
    <3> QED BY <2>3, <3>1, <3>2
  <2> QED BY <2>1, <2>2, <2>3
<1>2. ~word.writer /\ guards[h] # << >>
  <2>1. Holds(h, "read") /\ guards[h] # << >>
    BY DEF DropReader, Holds
  <2>2. ~Holds(h, "write")
    BY <2>1 DEF Holds
  <2> QED BY <2>1, <2>2, Alone
<1>3. /\ word \in Words /\ word.readers \in Nat
      /\ LiveGuards(Counted) \in Nat /\ LiveGuards(Counted) <= word.readers
  BY <1>1, Ledger
<1>4. word.readers >= 1
  <2>1. Weight(Counted, guards[h]) <= LiveGuards(Counted)
    BY <1>0, Own
  <2>2. Weight(Counted, guards[h]) \in Int
    BY DEF Weight, InStack, Bit
  <2> QED BY <1>1, <1>3, <2>1, <2>2
<1>5. word' = DecReader(word)
  BY <1>3, <1>4 DEF DropReader
<1>6. /\ word' \in Words /\ word'.readers = word.readers + (-1)
      /\ word'.upgrade = word.upgrade /\ ~word'.writer
  BY <1>2, <1>3, <1>4, <1>5, Decrease
<1>7. Bit(word'.upgrade) = Bit(word.upgrade) + 0
  BY <1>6 DEF Bit
<1>8. NeverUndercounted'
  BY <1>1, <1>6, <1>7, Balanced
<1> QED BY <1>1, <1>2, <1>6, <1>8, StepDown DEF DropReader

(* on_writer_guard_drop: the writer leaves, and with it the queued bit. *)
LEMMA DropWriterStep ==
    ASSUME LockInv, NEW h \in Handles, DropWriter(h)
    PROVE  LockInv'
<1>1. PICK t \in Rest :
        /\ guards' = [guards EXCEPT ![h] = t] /\ t \in Stacks
        /\ Gain(Counted, h, t) = 0 /\ Gain({"upg"}, h, t) = 0
  <2>1. \/ guards[h] = <<"write">> /\ guards' = [guards EXCEPT ![h] = << >>]
        \/ guards[h] = <<"upg", "write">>
             /\ guards' = [guards EXCEPT ![h] = <<"upg">>]
    BY Left DEF DropWriter
  <2>2. CASE guards[h] = <<"write">> /\ guards' = [guards EXCEPT ![h] = << >>]
    <3>1. Gain(Counted, h, << >>) = 0 /\ Gain({"upg"}, h, << >>) = 0
      BY <2>2, Weights DEF Gain
    <3> QED BY <2>2, <3>1 DEF Rest, Stacks
  <2>3. CASE guards[h] = <<"upg", "write">>
                /\ guards' = [guards EXCEPT ![h] = <<"upg">>]
    <3>1. Gain(Counted, h, <<"upg">>) = 0 /\ Gain({"upg"}, h, <<"upg">>) = 0
      BY <2>3, Weights DEF Gain
    <3> QED BY <2>3, <3>1 DEF Rest, Stacks
  <2> QED BY <2>1, <2>2, <2>3
<1>2. word.writer /\ guards[h] # << >>
  BY DEF DropWriter, Holds, LockInv, WriterBitSet
<1>3. word \in Words /\ word.readers \in Nat
  BY <1>1, Ledger
<1>4. word' = [word EXCEPT !.writer = FALSE, !.queued = FALSE]
  BY <1>2 DEF DropWriter
<1>5. /\ word' \in Words /\ word'.readers = word.readers
      /\ word'.upgrade = word.upgrade /\ word'.writer = FALSE
  BY <1>3, <1>4, Marked
<1>6. word'.readers = word.readers + 0 /\ Bit(word'.upgrade) = Bit(word.upgrade) + 0
  BY <1>3, <1>5 DEF Bit
<1>7. NeverUndercounted'
  BY <1>1, <1>5, <1>6, Balanced
<1> QED BY <1>1, <1>2, <1>5, <1>7, StepDown DEF DropWriter

(* An upgradable guard that goes away: what is left, and who may be in. *)
LEMMA Upgradable ==
    ASSUME LockInv, NEW h \in Handles, Holds(h, "upg")
    PROVE  /\ ~word.writer /\ guards[h] # << >>
           /\ Weight(Counted, guards[h]) >= 1 /\ Weight({"upg"}, guards[h]) >= 1
           /\ Pop(h) => \E t \in Rest :
                /\ guards' = [guards EXCEPT ![h] = t] /\ t \in Stacks
                /\ Gain(Counted, h, t) = -1 /\ Gain({"upg"}, h, t) = -1
<1>0. guards \in [Handles -> Stacks]
  BY DEF LockInv
<1>1. ~word.writer /\ guards[h] # << >>
  <2>1. ~Holds(h, "write") /\ guards[h] # << >>
    BY DEF Holds
  <2> QED BY <2>1, Alone
<1>2. Weight(Counted, guards[h]) >= 1 /\ Weight({"upg"}, guards[h]) >= 1
  BY <1>0, Tops, Weights
<1>3. ASSUME Pop(h)
      PROVE  \E t \in Rest :
                /\ guards' = [guards EXCEPT ![h] = t] /\ t \in Stacks
                /\ Gain(Counted, h, t) = -1 /\ Gain({"upg"}, h, t) = -1
  <2>1. \/ guards[h] = <<"upg">> /\ guards' = [guards EXCEPT ![h] = << >>]
        \/ guards[h] = <<"upg", "upg">>
             /\ guards' = [guards EXCEPT ![h] = <<"upg">>]
    BY <1>3, Left
  <2>2. CASE guards[h] = <<"upg">> /\ guards' = [guards EXCEPT ![h] = << >>]
    <3>1. Gain(Counted, h, << >>) = -1 /\ Gain({"upg"}, h, << >>) = -1
      BY <2>2, Weights DEF Gain
    <3> QED BY <2>2, <3>1 DEF Rest, Stacks
  <2>3. CASE guards[h] = <<"upg", "upg">>
                /\ guards' = [guards EXCEPT ![h] = <<"upg">>]
    <3>1. Gain(Counted, h, <<"upg">>) = -1 /\ Gain({"upg"}, h, <<"upg">>) = -1
      BY <2>3, Weights DEF Gain
    <3> QED BY <2>3, <3>1 DEF Rest, Stacks
  <2> QED BY <2>1, <2>2, <2>3
<1> QED BY <1>1, <1>2, <1>3

(* on_upgradable_read_drop of the newest guard. *)
LEMMA DropUpgradableStep ==
    ASSUME LockInv, NEW h \in Handles, pc[h] = "idle", Holds(h, "upg"),
           ReleaseUpgradable, Pop(h), UNCHANGED pc
    PROVE  LockInv'
<1>1. PICK t \in Rest :
        /\ guards' = [guards EXCEPT ![h] = t] /\ t \in Stacks
        /\ Gain(Counted, h, t) = -1 /\ Gain({"upg"}, h, t) = -1
  BY Upgradable
<1>2. /\ ~word.writer /\ guards[h] # << >>
      /\ Weight(Counted, guards[h]) >= 1 /\ Weight({"upg"}, guards[h]) >= 1
  BY Upgradable
<1>3. word' \in Words /\ word'.writer = word.writer /\ NeverUndercounted'
  BY <1>1, <1>2, Freed
<1> QED BY <1>1, <1>2, <1>3, StepDown

(* UpgradableReaderGuard::downgrade: the bit is given up for a plain reader;
   where it is clear already the guard is lost with its count. *)
LEMMA UpgradableToReadStep ==
    ASSUME LockInv, NEW h \in Handles, UpgradableToRead(h)
    PROVE  LockInv'
<1>0. guards \in [Handles -> Stacks] /\ word \in Words /\ Holds(h, "upg")
  BY DEF LockInv, TypeOK, UpgradableToRead
<1>1. /\ ~word.writer /\ guards[h] # << >>
      /\ Weight(Counted, guards[h]) >= 1
  BY <1>0, Upgradable
<1>2. word.readers \in Nat /\ word.readers > 0
  <2>1. /\ word.readers \in Nat /\ LiveGuards(Counted) \in Nat
        /\ Leaked = word.readers - LiveGuards(Counted) /\ Leaked \in Nat
    BY Standing
  <2>2. Weight(Counted, guards[h]) <= LiveGuards(Counted)
    BY <1>0, Own
  <2>3. Weight(Counted, guards[h]) \in Int
    BY DEF Weight, InStack, Bit
  <2> QED BY <1>1, <2>1, <2>2, <2>3
<1>3. CASE word.upgrade
  <2>1. /\ word' = [word EXCEPT !.upgrade = FALSE] /\ Swap(h, "read")
        /\ pc[h] = "idle" /\ UNCHANGED pc
    BY <1>1, <1>2, <1>3 DEF UpgradableToRead
  <2>2. PICK t \in Rest :
          /\ guards' = [guards EXCEPT ![h] = t] /\ t \in Stacks
          /\ Gain(Counted, h, t) = 0 /\ Gain({"upg"}, h, t) = -1
    <3>1. \/ guards[h] = <<"upg">> /\ guards' = [guards EXCEPT ![h] = <<"read">>]
          \/ guards[h] = <<"upg", "upg">>
               /\ guards' = [guards EXCEPT ![h] = <<"upg", "read">>]
      BY <1>0, <2>1, Turned
    <3>2. CASE guards[h] = <<"upg">>
                 /\ guards' = [guards EXCEPT ![h] = <<"read">>]
      <4>1. Gain(Counted, h, <<"read">>) = 0 /\ Gain({"upg"}, h, <<"read">>) = -1
        BY <3>2, Weights DEF Gain
      <4> QED BY <3>2, <4>1 DEF Rest, Stacks
    <3>3. CASE guards[h] = <<"upg", "upg">>
                 /\ guards' = [guards EXCEPT ![h] = <<"upg", "read">>]
      <4>1. /\ Gain(Counted, h, <<"upg", "read">>) = 0
            /\ Gain({"upg"}, h, <<"upg", "read">>) = -1
        BY <3>3, Weights DEF Gain
      <4> QED BY <3>3, <4>1 DEF Rest, Stacks
    <3> QED BY <3>1, <3>2, <3>3
  <2>3. /\ word' \in Words /\ word'.readers = word.readers
        /\ word'.upgrade = FALSE /\ word'.writer = word.writer
    BY <1>0, <2>1, Marked
  <2>4. /\ word'.readers = word.readers + 0
        /\ Bit(word'.upgrade) = Bit(word.upgrade) + (-1)
    BY <1>2, <1>3, <2>3 DEF Bit
  <2>5. NeverUndercounted'
    BY <2>2, <2>3, <2>4, Balanced
  <2> QED BY <1>1, <2>1, <2>2, <2>3, <2>5, StepDown
<1>4. CASE ~word.upgrade
  <2>1. /\ word' = word /\ Pop(h) /\ pc[h] = "idle" /\ UNCHANGED pc
    BY <1>4 DEF UpgradableToRead
  <2>2. ReleaseUpgradable
    BY <1>4, <2>1 DEF ReleaseUpgradable
  <2> QED BY <1>0, <2>1, <2>2, DropUpgradableStep
<1> QED BY <1>3, <1>4

(* WriterGuard::downgrade_to_reader: the writer goes on as a counted
   reader. *)
LEMMA WriteToReadStep ==
    ASSUME LockInv, NEW h \in Handles, WriteToRead(h)
    PROVE  LockInv'
<1> DEFINE s == [word EXCEPT !.writer = FALSE]
<1>1. PICK t \in Rest :
        /\ guards' = [guards EXCEPT ![h] = t] /\ t \in Stacks
        /\ Gain(Counted, h, t) = 1 /\ Gain({"upg"}, h, t) = 0
  <2>1. \/ guards[h] = <<"write">> /\ guards' = [guards EXCEPT ![h] = <<"read">>]
        \/ guards[h] = <<"upg", "write">>
             /\ guards' = [guards EXCEPT ![h] = <<"upg", "read">>]
    BY Turned DEF WriteToRead
  <2>2. CASE guards[h] = <<"write">>
               /\ guards' = [guards EXCEPT ![h] = <<"read">>]
    <3>1. Gain(Counted, h, <<"read">>) = 1 /\ Gain({"upg"}, h, <<"read">>) = 0
      BY <2>2, Weights DEF Gain
    <3> QED BY <2>2, <3>1 DEF Rest, Stacks
  <2>3. CASE guards[h] = <<"upg", "write">>
               /\ guards' = [guards EXCEPT ![h] = <<"upg", "read">>]
    <3>1. /\ Gain(Counted, h, <<"upg", "read">>) = 1
          /\ Gain({"upg"}, h, <<"upg", "read">>) = 0
      BY <2>3, Weights DEF Gain
    <3> QED BY <2>3, <3>1 DEF Rest, Stacks
  <2> QED BY <2>1, <2>2, <2>3
<1>2. word \in Words /\ word.readers \in Nat /\ word.readers < MaxReaders
  BY <1>1, Ledger
<1>3. /\ s \in Words /\ s.readers = word.readers
      /\ s.upgrade = word.upgrade /\ s.writer = FALSE
  BY <1>2, Marked
<1>4. word' = IncReader(s) /\ guards[h] # << >>
  BY DEF WriteToRead, Holds
<1> HIDE DEF s
<1>5. /\ word' \in Words /\ word'.readers = word.readers + 1
      /\ word'.upgrade = word.upgrade /\ word'.writer = FALSE
  BY <1>2, <1>3, <1>4, Increase
<1>6. Bit(word'.upgrade) = Bit(word.upgrade) + 0
  BY <1>5 DEF Bit
<1>7. NeverUndercounted'
  BY <1>1, <1>5, <1>6, Balanced
<1> QED BY <1>1, <1>4, <1>5, <1>7, StepDown DEF WriteToRead

(* WriterGuard::downgrade_to_upgradable: the bit may be set already, for the
   upgradable guard below; then one of the two is stray from now on, which is
   the only one, for a writer has seen the word exact. *)
LEMMA WriteToUpgradableStep ==
    ASSUME LockInv, NEW h \in Handles, WriteToUpgradable(h)
    PROVE  LockInv'
<1> DEFINE s == [word EXCEPT !.writer = FALSE, !.upgrade = TRUE]
           u == Bit(word.upgrade)
           v == Bit(word'.upgrade)
<1>1. PICK t \in Rest :
        /\ guards' = [guards EXCEPT ![h] = t] /\ t \in Stacks
        /\ Gain(Counted, h, t) = 1 /\ Gain({"upg"}, h, t) = 1
  <2>1. \/ guards[h] = <<"write">> /\ guards' = [guards EXCEPT ![h] = <<"upg">>]
        \/ guards[h] = <<"upg", "write">>
             /\ guards' = [guards EXCEPT ![h] = <<"upg", "upg">>]
    BY Turned DEF WriteToUpgradable
  <2>2. CASE guards[h] = <<"write">>
               /\ guards' = [guards EXCEPT ![h] = <<"upg">>]
    <3>1. Gain(Counted, h, <<"upg">>) = 1 /\ Gain({"upg"}, h, <<"upg">>) = 1
      BY <2>2, Weights DEF Gain
    <3> QED BY <2>2, <3>1 DEF Rest, Stacks
  <2>3. CASE guards[h] = <<"upg", "write">>
               /\ guards' = [guards EXCEPT ![h] = <<"upg", "upg">>]
    <3>1. /\ Gain(Counted, h, <<"upg", "upg">>) = 1
          /\ Gain({"upg"}, h, <<"upg", "upg">>) = 1
      BY <2>3, Weights DEF Gain
    <3> QED BY <2>3, <3>1 DEF Rest, Stacks
  <2> QED BY <2>1, <2>2, <2>3
<1>2. word \in Words /\ word.readers \in Nat /\ word.readers < MaxReaders
  BY <1>1, Ledger
<1>3. /\ s \in Words /\ s.readers = word.readers
      /\ s.upgrade = TRUE /\ s.writer = FALSE
  BY <1>2, Marked
<1>4. word' = IncReader(s) /\ guards[h] # << >> /\ word.writer
  BY DEF WriteToUpgradable, Holds
<1> HIDE DEF s
<1>5. /\ word' \in Words /\ word'.readers = word.readers + 1
      /\ word'.upgrade = TRUE /\ word'.writer = FALSE
  BY <1>2, <1>3, <1>4, Increase
<1>6. Leaked + Stray = 0
  BY <1>4 DEF LockInv, WriterSeesExact
<1>7. v = 1
  BY <1>5 DEF Bit
<1>8. /\ Leaked \in Nat /\ Stray \in Nat /\ u \in 0 .. 1
      /\ Leaked' = Leaked + (word'.readers - word.readers)
                       - Gain(Counted, h, t)
      /\ Stray' = Stray + Gain({"upg"}, h, t) - (v - u)
  BY <1>1, <1>5, Balance
<1> HIDE DEF u, v
<1>9. Leaked' = 0 /\ Stray' = u
  BY <1>1, <1>2, <1>5, <1>6, <1>7, <1>8
<1>10. NeverUndercounted'
  BY <1>8, <1>9 DEF NeverUndercounted
<1> QED BY <1>1, <1>4, <1>5, <1>10, StepDown DEF WriteToUpgradable

-----------------------------------------------------------------------------
(* Steps that change no guard. *)

Labels == Waiting \cup {"idle", "queue", "queueAgain", "settle"}

(* What a step has to show that changes no guard and no count. *)
LEMMA Quiet ==
    ASSUME LockInv, NEW h \in Handles, NEW l \in Labels \ {"settle"},
           pc' = [pc EXCEPT ![h] = l], UNCHANGED guards,
           l \in {"idle", "waitUpgrade"} \/ guards[h] = << >>,
           word' \in Words, word'.readers = word.readers,
           word'.upgrade = word.upgrade, word'.writer = word.writer
    PROVE  LockInv'
<1>1. TypeOK'
  BY DEF LockInv, TypeOK, Labels
<1>2. CallsHold'
  BY DEF LockInv, TypeOK, CallsHold
<1>3. Leaked' = Leaked /\ Stray' = Stray
  BY DEF Leaked, Stray, LiveGuards, GuardsAt
<1>4. \A g \in Handles : Holds(g, "write")' <=> Holds(g, "write")
  BY DEF Holds, TopGuard
<1>5. NeverUndercounted'
  BY <1>3 DEF LockInv, NeverUndercounted
<1>6. WriterBitSet' /\ WriterSeesExact' /\ WriterExcludesAll'
  BY <1>3, <1>4 DEF LockInv, WriterBitSet, WriterSeesExact, WriterExcludesAll
<1> QED BY <1>1, <1>2, <1>5, <1>6 DEF LockInv

(* Beginning, giving up and queueing are such steps. *)
LEMMA QuietSteps ==
    ASSUME LockInv, NEW h \in Handles,
           \/ \E l \in Waiting : StartWait(h, l)
           \/ StartUpgrade(h) \/ Cancelled(h) \/ FailWrite(h) \/ Queue(h)
    PROVE  LockInv'
<1>0. word \in Words
  BY DEF LockInv, TypeOK
<1>1. CASE \E l \in Waiting : StartWait(h, l)
  <2>1. PICK l \in Waiting : StartWait(h, l)
    BY <1>1
  <2>2. l \in Labels \ {"settle"}
    BY DEF Labels, Waiting
  <2> QED BY <1>0, <2>1, <2>2, Quiet DEF StartWait, Goto
<1>2. CASE StartUpgrade(h)
  <2>1. "waitUpgrade" \in Labels \ {"settle"}
    BY DEF Labels, Waiting
  <2> QED BY <1>0, <1>2, <2>1, Quiet DEF StartUpgrade, Goto
<1>3. CASE Cancelled(h)
  <2>1. "idle" \in Labels \ {"settle"}
    BY DEF Labels
  <2> QED BY <1>0, <1>3, <2>1, Quiet DEF Cancelled, Goto
<1>4. CASE FailWrite(h)
  <2>1. PICK l \in {"queue", "queueAgain"} : pc' = [pc EXCEPT ![h] = l]
    BY <1>4 DEF FailWrite, Goto
  <2>2. l \in Labels \ {"settle"}
    BY DEF Labels
  <2>3. guards[h] = << >> /\ UNCHANGED <<word, guards>>
    BY <1>4, FreeIsEmpty DEF FailWrite
  <2> QED BY <1>0, <2>1, <2>2, <2>3, Quiet
<1>5. CASE Queue(h)
  <2>1. PICK l \in {"idle", "waitWrite"} : pc' = [pc EXCEPT ![h] = l]
    BY <1>5 DEF Queue, Goto
  <2>2. l \in Labels \ {"settle"}
    BY DEF Labels, Waiting
  <2>3. guards[h] = << >> /\ UNCHANGED guards
    BY <1>5 DEF Queue, LockInv, CallsHold
  <2>4. /\ word' \in Words /\ word'.readers = word.readers
        /\ word'.upgrade = word.upgrade /\ word'.writer = word.writer
    BY <1>0, <1>5, Marked DEF Queue
  <2> QED BY <2>1, <2>2, <2>3, <2>4, Quiet
<1> QED BY <1>1, <1>2, <1>3, <1>4, <1>5

-----------------------------------------------------------------------------
(* The theorems. *)

(* A new lock is free. *)
LEMMA InitLock == Init => LockInv
<1> SUFFICES ASSUME Init PROVE LockInv
  OBVIOUS
<1>1. word \in Words /\ word.readers = 0 /\ ~word.upgrade /\ ~word.writer
  BY MaxReadersAssumption DEF Init, Words
<1>2. guards \in [Handles -> Stacks] /\ \A h \in Handles : guards[h] = << >>
  BY DEF Init, Stacks
<1>3. TypeOK
  BY <1>1, <1>2, StacksAreSeqs DEF Init, TypeOK
<1>4. CallsHold
  BY <1>2 DEF Init, CallsHold
<1>5. ASSUME NEW kinds PROVE LiveGuards(kinds) = 0
  <2>1. \A i \in {1, 2} : GuardsAt(i, kinds) = {}
    BY <1>2 DEF GuardsAt
  <2> QED BY <2>1, FS_EmptySet DEF LiveGuards
<1>6. Leaked = 0 /\ Stray = 0
  <2>1. LiveGuards(Counted) = 0 /\ LiveGuards({"upg"}) = 0
    BY <1>5
  <2> QED BY <1>1, <2>1 DEF Leaked, Stray
<1>7. NeverUndercounted
  BY <1>6 DEF NeverUndercounted
<1>8. WriterBitSet /\ WriterSeesExact /\ WriterExcludesAll
  BY <1>1, <1>2 DEF WriterBitSet, WriterSeesExact, WriterExcludesAll, Holds
<1> QED BY <1>2, <1>3, <1>4, <1>7, <1>8 DEF LockInv

(* Every step keeps the invariant. *)
LEMMA NextLock == LockInv /\ [Next]_vars => LockInv'
<1> SUFFICES ASSUME LockInv, [Next]_vars PROVE LockInv'
  OBVIOUS
<1>1. CASE UNCHANGED vars
  <2>1. Leaked' = Leaked /\ Stray' = Stray
    BY <1>1 DEF vars, Leaked, Stray, LiveGuards, GuardsAt
  <2>2. \A g \in Handles : Holds(g, "write")' <=> Holds(g, "write")
    BY <1>1 DEF vars, Holds, TopGuard
  <2>3. TypeOK' /\ guards' \in [Handles -> Stacks] /\ CallsHold'
    BY <1>1 DEF vars, LockInv, TypeOK, CallsHold
  <2>4. NeverUndercounted'
    BY <2>1 DEF LockInv, NeverUndercounted
  <2>5. WriterBitSet' /\ WriterSeesExact' /\ WriterExcludesAll'
    BY <1>1, <2>1, <2>2
       DEF vars, LockInv, WriterBitSet, WriterSeesExact, WriterExcludesAll
  <2> QED BY <2>3, <2>4, <2>5 DEF LockInv
<1>2. CASE Next
  <2> PICK h \in Handles :
        \/ Attempt(h) \/ Release(h) \/ Internal(h)
        \/ \E l \in Waiting : StartWait(h, l)
        \/ StartUpgrade(h) \/ Cancelled(h) \/ TryUpgradeOwned(h)
        \/ WriteToRead(h) \/ WriteToUpgradable(h) \/ UpgradableToRead(h)
    BY <1>2 DEF Next
  <2>1. CASE Attempt(h)
    <3>1. CASE TryUpgradeBorrowed(h)
      BY <3>1, TryUpgradeStep DEF TryUpgradeBorrowed
    <3> QED BY <2>1, <3>1, TryReadStep, TryWriteStep, TryUpgradableReadStep
            DEF Attempt
  <2>2. CASE Release(h)
    <3>1. CASE DropUpgradable(h)
      BY <3>1, DropUpgradableStep DEF DropUpgradable
    <3> QED BY <2>2, <3>1, DropReaderStep, DropWriterStep DEF Release
  <2>3. CASE Internal(h)
    BY <2>3, QuietSteps, SettleStep DEF Internal
  <2>4. CASE TryUpgradeOwned(h)
    BY <2>4, TryUpgradeStep DEF TryUpgradeOwned
  <2>5. CASE (\E l \in Waiting : StartWait(h, l)) \/ StartUpgrade(h) \/ Cancelled(h)
    BY <2>5, QuietSteps
  <2>6. CASE WriteToRead(h) \/ WriteToUpgradable(h) \/ UpgradableToRead(h)
    BY <2>6, WriteToReadStep, WriteToUpgradableStep, UpgradableToReadStep
  <2> QED BY <2>1, <2>2, <2>3, <2>4, <2>5, <2>6
<1> QED BY <1>1, <1>2

(* The inductive invariant of the lock holds for every number of handles. *)
THEOREM LockInvariance == Spec => []LockInv
BY InitLock, NextLock, PTL DEF Spec

(* deref_mut is exclusive: while a handle has a writer guard, got by try_write
   or by an upgrade, no other handle has any guard. *)
THEOREM WriterAlone == Spec => []WriterExcludesAll
<1>1. LockInv => WriterExcludesAll
  BY DEF LockInv
<1> QED BY <1>1, LockInvariance, PTL

(* The word never falls short of the live guards, and over-counts one at
   most. *)
THEOREM CountsCoverGuards == Spec => []NeverUndercounted
<1>1. LockInv => NeverUndercounted
  BY DEF LockInv
<1> QED BY <1>1, LockInvariance, PTL

(* The writer bit is set under every writer guard: the unreachable!()s of the
   writer's downgrades are never reached. *)
THEOREM DowngradesAreSafe == Spec => []WriterBitSet
<1>1. LockInv => WriterBitSet
  BY DEF LockInv
<1> QED BY <1>1, LockInvariance, PTL

-----------------------------------------------------------------------------
(* The mutex: the signal in the cell.                                      *)

(* Reducing a number below twice the modulus. *)
LEMMA BelowModulus ==
    ASSUME NEW m \in Nat \ {0}, NEW b \in Nat, b < m
    PROVE  b % m = b /\ (b + m) % m = b
BY Z3

(* make_acquired sets the signal, and make_released undoes it. *)
LEMMA SignalRoundTrip ==
    ASSUME signal \in {"msb", "ptr"}, NEW b \in Nat, Released(b)
    PROVE  /\ MakeAcquired(b) \in Nat /\ IsAcquired(MakeAcquired(b))
           /\ MakeReleased(MakeAcquired(b)) = b
<1>1. Msb \in Nat \ {0}
  BY MutexAssumption
<1>2. CASE signal = "msb"
  <2>1. b < Msb
    BY <1>1, <1>2 DEF Released, IsAcquired
  <2>2. b % Msb = b /\ (b + Msb) % Msb = b
    BY <1>1, <2>1, BelowModulus
  <2> QED BY <1>1, <1>2, <2>2 DEF MakeAcquired, MakeReleased, IsAcquired
<1>3. CASE signal = "ptr"
  <2>1. b % 2 # 1
    BY <1>3 DEF Released, IsAcquired
  <2>2. (b + 1) % 2 = 1
    BY <2>1
  <2> QED BY <1>3, <2>2 DEF MakeAcquired, MakeReleased, IsAcquired
<1> QED BY <1>2, <1>3

MxStates == {"idle", "once", "check", "exchange", "held", "wrote", "drop", "release"}

(* Types, and the other bits never spell the signal. *)
MxTypeOK == /\ signal \in {"msb", "ptr"}
            /\ cell \in Nat /\ bits \in Nat /\ Released(bits)
            /\ mpc \in [Lockers -> MxStates] /\ cur \in [Lockers -> Nat]
            /\ token \in [Lockers -> BOOLEAN] /\ born \in [Lockers -> BOOLEAN]
            /\ seen \in [Lockers -> Nat] /\ data \in Nat /\ done \in Nat

(* At most one guard is alive. *)
OneGuard == \A s, t \in Guards : s = t

(* The cell is the other bits, and the signal while a guard is alive. *)
CellInv == cell = IF Guards # {} THEN MakeAcquired(bits) ELSE bits

(* What the owner of the guard has read of the value is current. *)
DataInv == data = done /\ \A t \in Lockers : mpc[t] = "wrote" => seen[t] = data

(* A call whose token had fired before it began gets no further than the
   check of the token. *)
BornInv == \A t \in Lockers : /\ born[t] => token[t]
                              /\ mpc[t] \in {"once", "exchange"} => ~born[t]
                              /\ t \in Guards => ~born[t]

(* A guard being dropped has loaded a cell that holds the signal, so that the
   release it tries never finds the signal gone. *)
ReleaseInv == \A t \in Lockers : mpc[t] = "release" => IsAcquired(cur[t])

MxInv == MxTypeOK /\ OneGuard /\ CellInv /\ DataInv /\ BornInv /\ ReleaseInv

(* The mutex begins in the invariant. *)
LEMMA MxInitInv == MxInit => MxInv
<1> SUFFICES ASSUME MxInit PROVE MxInv
  OBVIOUS
<1>1. MxTypeOK
  BY MutexAssumption DEF MxInit, MxTypeOK, MxStates, Cells
<1>2. Guards = {}
  BY DEF MxInit, Guards
<1>3. OneGuard /\ CellInv /\ DataInv /\ BornInv /\ ReleaseInv
  BY <1>2 DEF MxInit, OneGuard, CellInv, DataInv, BornInv, ReleaseInv
<1> QED BY <1>1, <1>3 DEF MxInv

(* A thread that is let in finds no guard alive, and is then the only one. *)
LEMMA Enters ==
    ASSUME MxInv, NEW t \in Lockers, mpc[t] \in {"once", "exchange"}, Released(cur[t]),
           Succ(t, MakeAcquired(cur[t])), Jump(t, "held"),
           UNCHANGED <<Outside, born, locksAsked, cur>>
    PROVE  MxInv'
<1> USE DEF Outside
<1>1. MxTypeOK /\ CellInv
  BY DEF MxInv
<1>2. Guards = {} /\ cell = bits
  <2>1. signal \in {"msb", "ptr"} /\ bits \in Nat /\ Released(bits) /\ Released(cell)
    BY <1>1 DEF MxTypeOK, Succ
  <2>2. IsAcquired(MakeAcquired(bits))
    BY <2>1, SignalRoundTrip
  <2> QED BY <1>1, <2>1, <2>2 DEF CellInv, Released
<1>3. Guards' = {t}
  BY <1>1, <1>2 DEF Guards, Jump, MxTypeOK
<1>4. cell' = MakeAcquired(bits) /\ MakeAcquired(bits)' = MakeAcquired(bits)
      /\ Released(bits)' = Released(bits)
  BY <1>2 DEF Succ, MakeAcquired, Released, IsAcquired
<1>5. MxTypeOK'
  <2>1. MakeAcquired(bits) \in Nat
    BY <1>1, SignalRoundTrip DEF MxTypeOK
  <2> QED BY <1>1, <1>4, <2>1 DEF MxTypeOK, Jump, MxStates
<1>6. OneGuard' /\ CellInv'
  BY <1>3, <1>4 DEF OneGuard, CellInv
<1>7. DataInv' /\ BornInv' /\ ReleaseInv'
  BY <1>1, <1>3 DEF MxInv, MxTypeOK, DataInv, BornInv, ReleaseInv, IsAcquired, Jump
<1> QED BY <1>5, <1>6, <1>7 DEF MxInv

(* A guard that is released was the only one, and gives back the other bits. *)
LEMMA Leaves ==
    ASSUME MxInv, NEW t \in Lockers, ReleaseSucceeds(t)
    PROVE  MxInv'
<1> USE DEF Outside, ReleaseSucceeds
<1>1. MxTypeOK /\ CellInv /\ OneGuard
  BY DEF MxInv
<1>2. Guards = {t} /\ cell = MakeAcquired(bits)
  BY <1>1 DEF OneGuard, CellInv, Guards
<1>3. Guards' = {}
  BY <1>1, <1>2 DEF Guards, Jump, MxTypeOK
<1>4. cell' = bits /\ bits' = bits /\ Released(bits)' = Released(bits)
  BY <1>1, <1>2, SignalRoundTrip DEF Succ, MxTypeOK, Released, IsAcquired
<1>5. MxTypeOK'
  BY <1>1, <1>4 DEF MxTypeOK, Jump, MxStates
<1>6. OneGuard' /\ CellInv'
  BY <1>3, <1>4 DEF OneGuard, CellInv
<1>7. DataInv' /\ BornInv' /\ ReleaseInv'
  BY <1>1, <1>3 DEF MxInv, MxTypeOK, DataInv, BornInv, ReleaseInv, IsAcquired, Jump
<1> QED BY <1>5, <1>6, <1>7 DEF MxInv

(* A step that neither enters nor leaves: the cell and the set of guards stay. *)
LEMMA Stays ==
    ASSUME MxInv, MxTypeOK', DataInv', BornInv', ReleaseInv', Guards' = Guards,
           UNCHANGED <<signal, cell, bits>>
    PROVE  MxInv'
BY DEF MxInv, OneGuard, CellInv, MakeAcquired

(* Every step of a thread, of a token or of the bits' owner keeps it. *)
LEMMA MxStep == MxInv /\ [MxNext]_mxVars => MxInv'
<1> SUFFICES ASSUME MxInv, [MxNext]_mxVars PROVE MxInv'
  OBVIOUS
<1> USE DEF Outside, Jump, Load, Fail
<1>1. MxTypeOK /\ OneGuard /\ CellInv /\ DataInv /\ BornInv /\ ReleaseInv
  BY DEF MxInv
<1> DEFINE Idle == /\ MxTypeOK' /\ DataInv' /\ BornInv' /\ ReleaseInv' /\ Guards' = Guards
                    /\ UNCHANGED <<signal, cell, bits>>
<1>2. ASSUME NEW t \in Lockers, NEW l \in {"once", "check"}, AskLock(t, l) PROVE Idle
  BY <1>1, <1>2 DEF AskLock, MxTypeOK, MxStates, DataInv, BornInv, ReleaseInv,
                    Guards, Released, IsAcquired
<1>3. ASSUME NEW t \in Lockers, TryOnce(t) PROVE MxInv'
  <2>1. CASE Released(cur[t]) /\ Succ(t, MakeAcquired(cur[t])) /\ Jump(t, "held") /\ UNCHANGED cur
    BY <2>1, <1>3, Enters DEF TryOnce
  <2>2. CASE UNCHANGED <<cell, cur>> /\ Jump(t, "idle")
    <3>1. Idle
      BY <1>1, <1>3, <2>2 DEF TryOnce, MxTypeOK, MxStates, DataInv, BornInv, ReleaseInv,
                    Guards, Released, IsAcquired
    <3> QED BY <3>1, Stays
  <2> QED BY <1>3, <2>1, <2>2 DEF TryOnce
<1>4. ASSUME NEW t \in Lockers, CheckToken(t) PROVE Idle
  BY <1>1, <1>4 DEF CheckToken, MxTypeOK, MxStates, DataInv, BornInv, ReleaseInv,
                    Guards, Released, IsAcquired
<1>5. ASSUME NEW t \in Lockers, ExchangeFails(t) PROVE Idle
  BY <1>1, <1>5 DEF ExchangeFails, MxTypeOK, MxStates, DataInv, BornInv, ReleaseInv,
                    Guards, Released, IsAcquired
<1>6. ASSUME NEW t \in Lockers, ExchangeSucceeds(t) PROVE MxInv'
  BY <1>6, Enters DEF ExchangeSucceeds
<1>7. ASSUME NEW t \in Lockers, ReadData(t) PROVE Idle
  BY <1>1, <1>7 DEF ReadData, MxTypeOK, MxStates, DataInv, BornInv, ReleaseInv,
                    Guards, Released, IsAcquired
<1>8. ASSUME NEW t \in Lockers, WriteData(t) PROVE Idle
  <2>1. \A s \in Lockers : s \in Guards => s = t
    BY <1>1, <1>8 DEF WriteData, OneGuard, Guards
  <2>2. MxTypeOK' /\ BornInv' /\ ReleaseInv' /\ Guards' = Guards /\ UNCHANGED <<signal, cell, bits>>
    BY <1>1, <1>8 DEF WriteData, MxTypeOK, MxStates, DataInv, BornInv, ReleaseInv,
                    Guards, Released, IsAcquired
  <2>3. DataInv'
    BY <1>1, <1>8, <2>1 DEF WriteData, MxTypeOK, DataInv, Guards
  <2> QED BY <2>2, <2>3
<1>9. ASSUME NEW t \in Guards PROVE IsAcquired(cell)
  BY <1>1, SignalRoundTrip DEF MxTypeOK, CellInv
<1>10. ASSUME NEW t \in Lockers, DropGuard(t) PROVE Idle
  <2>1. IsAcquired(cell)
    BY <1>9, <1>10 DEF DropGuard, Guards
  <2>2. ReleaseInv'
    BY <1>1, <1>10, <2>1 DEF DropGuard, MxTypeOK, ReleaseInv, IsAcquired
  <2>3. MxTypeOK' /\ DataInv' /\ BornInv' /\ Guards' = Guards /\ UNCHANGED <<signal, cell, bits>>
    BY <1>1, <1>10 DEF DropGuard, MxTypeOK, MxStates, DataInv, BornInv, Guards, Released, IsAcquired
  <2> QED BY <2>2, <2>3
<1>11. ASSUME NEW t \in Lockers, ReleaseFails(t) PROVE Idle
  <2>1. IsAcquired(cell) /\ IsAcquired(cur[t])
    BY <1>1, <1>9, <1>11 DEF ReleaseFails, Guards, ReleaseInv
  <2>2. Fail(t) /\ UNCHANGED mpc
    BY <1>11, <2>1 DEF ReleaseFails, Released
  <2>3. ReleaseInv'
    BY <1>1, <1>11, <2>1, <2>2 DEF ReleaseFails, MxTypeOK, ReleaseInv, IsAcquired
  <2>4. MxTypeOK' /\ DataInv' /\ BornInv' /\ Guards' = Guards /\ UNCHANGED <<signal, cell, bits>>
    BY <1>1, <1>11, <2>2 DEF ReleaseFails, MxTypeOK, DataInv, BornInv, Guards, Released, IsAcquired
  <2> QED BY <2>3, <2>4
<1>12. ASSUME NEW t \in Lockers, Fire(t) PROVE Idle
  BY <1>1, <1>12 DEF Fire, MxTypeOK, MxStates, DataInv, BornInv, ReleaseInv,
                     Guards, Released, IsAcquired
<1>13. ASSUME NEW v \in {c \in Cells : Released(c)}, SetBits(v) PROVE MxInv'
  <2>1. v \in Nat /\ Released(v)
    BY MutexAssumption DEF Cells
  <2>2. /\ Released(bits)' = Released(v) /\ MakeAcquired(bits)' = MakeAcquired(v)
        /\ Guards' = Guards
    BY <1>13 DEF SetBits, Released, IsAcquired, MakeAcquired, Guards
  <2>3. MakeAcquired(v) \in Nat
    BY <1>1, <2>1, SignalRoundTrip DEF MxTypeOK
  <2>4. cell' = IF Guards # {} THEN MakeAcquired(v) ELSE v
    <3>1. CASE Guards # {}
      BY <1>9, <1>13, <3>1 DEF SetBits
    <3>2. CASE Guards = {}
      BY <1>1, <1>13, <3>2 DEF SetBits, CellInv, MxTypeOK, Released
    <3> QED BY <3>1, <3>2
  <2>5. MxTypeOK'
    BY <1>1, <1>13, <2>1, <2>2, <2>3, <2>4 DEF SetBits, MxTypeOK
  <2>6. OneGuard' /\ CellInv'
    BY <1>1, <1>13, <2>2, <2>4 DEF SetBits, OneGuard, CellInv
  <2>7. DataInv' /\ BornInv' /\ ReleaseInv'
    BY <1>1, <1>13, <2>2 DEF SetBits, DataInv, BornInv, ReleaseInv, IsAcquired
  <2> QED BY <2>5, <2>6, <2>7 DEF MxInv
<1>14. ASSUME UNCHANGED mxVars PROVE Idle
  BY <1>1, <1>14 DEF mxVars, MxTypeOK, DataInv, BornInv, ReleaseInv, Guards, Released, IsAcquired
<1>15. Idle => MxInv'
  BY Stays
<1> QED BY <1>2, <1>3, <1>4, <1>5, <1>6, <1>7, <1>8, <1>10, <1>11, <1>12, <1>13, <1>14, <1>15, Leaves
        DEF MxNext, Work

(* The invariant of the mutex holds throughout. *)
THEOREM MxInvariance == MxSpec => []MxInv
BY MxInitInv, MxStep, PTL DEF MxSpec

(* No update of the guarded value, and none of the bits that share the cell
   with the signal, is lost; the signal says whether a guard is alive; and a
   call begun with a fired token holds no guard. *)
THEOREM NeverLosesUpdates == MxSpec => []NoLostUpdate
<1>1. MxInv => NoLostUpdate
  BY DEF MxInv, NoLostUpdate, CellInv, DataInv, BornInv, Guards
<1> QED BY <1>1, MxInvariance, PTL

=============================================================================
