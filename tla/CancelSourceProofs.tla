------------------------- MODULE CancelSourceProofs -------------------------
(***************************************************************************)
(* Cancellation: callbacks run or are withdrawn once, futures agree with   *)
(* the flag and children follow their parents, for every number of         *)
(* threads, nodes, callbacks and futures.                                  *)
(***************************************************************************)
EXTENDS CancelSource, FiniteSetTheorems, SequenceTheorems, TLAPS

-----------------------------------------------------------------------------
(* Calls in progress.                                                      *)

FrameSet == [op : {"cancel", "register", "unregister", "future", "callback"},
             node : Nodes \cup {None}, arg : Callback \cup Futs \cup {None},
             pc : {"lock", "body", "run", "entered", "leaving"}, todo : Seq(Callback)]

(* Some call in progress is in S; at most one is. *)
Some(S) == \E t \in Threads : \E d \in 1..Len(stack[t]) : stack[t][d] \in S
One(S) == \A t, u \in Threads : \A d \in 1..Len(stack[t]), e \in 1..Len(stack[u]) :
              stack[t][d] \in S /\ stack[u][e] \in S => t = u /\ d = e

(* The calls on a node; those that have b to run, register b, are still to
   put it on the list, withdraw it, are still to mark the node c, or are still
   to make the future f. *)
OnNode(n) == {f \in FrameSet : f.node = n}
Owing(b) == {f \in FrameSet : \E j \in DOMAIN f.todo : f.todo[j] = b}
Registering(b) == {f \in FrameSet : f.op = "register" /\ f.arg = b}
Pending(b) == {f \in FrameSet : f.op = "register" /\ f.arg = b /\ f.pc \in {"lock", "body"}}
Marking(c) == {f \in FrameSet : f.op = "cancel" /\ f.node = c /\ f.pc \in {"lock", "body"}}
Asking(x) == {f \in FrameSet : f.op = "future" /\ f.arg = x /\ f.pc \in {"lock", "body"}}

-----------------------------------------------------------------------------
(* The invariant.                                                          *)

Entry == [id : Nat, cb : Callback]
Regs == [st : {"new", "registering", "held", "disposing", "removed", "disposed"},
         node : Nodes \cup {None}, id : Nat \cup {NoId}]

Types ==
    /\ cancelled \in [Nodes -> BOOLEAN]
    /\ nextId \in [Nodes -> Nat]
    /\ callbacks \in [Nodes -> Seq(Entry)]
    /\ senders \in [Nodes -> SUBSET Futs]
    /\ handle \in [Nodes -> {"none", "building", "held", "gone"}]
    /\ parent \in [Children -> Nodes \cup {None}]
    /\ reg \in [Cbs -> Regs]
    /\ fut \in [Futs -> Nodes \cup {None}]
    /\ ran \in [Cbs -> Nat]
    /\ stack \in [Threads -> Seq(FrameSet)]

(* A node that some token or call has ever stood for. *)
Known(n) == n \in Nodes => handle[n] # "none"

(* What a call in progress is about. *)
GoodFrame(f) ==
    /\ f.op = "callback" \/ f.pc \in {"lock", "body"} => f.todo = << >>
    /\ f.op # "callback" => f.node \in Nodes
    /\ Known(f.node)
    /\ f.op = "register" => /\ f.arg \in Callback
                            /\ f.arg \in Children => /\ handle[f.arg] = "building"
                                                     /\ parent[f.arg] = f.node
                            /\ f.arg \in Cbs => /\ reg[f.arg].st = "registering"
                                                /\ reg[f.arg].node = f.node
    /\ f.op = "unregister" => /\ f.arg \in Cbs
                              /\ reg[f.arg].st \in {"disposing", "removed", "disposed"}
                              /\ reg[f.arg].node = f.node
    /\ f.op = "future" => /\ f.arg \in Futs
                          /\ f.pc \in {"lock", "body"} => fut[f.arg] = None
    /\ \A j, k \in DOMAIN f.todo : f.todo[j] = f.todo[k] /\ f.todo[j] \in Cbs => j = k

FramesGood == \A f \in FrameSet : Some({f}) => GoodFrame(f)

(* Entries and registrations agree on their ids, and no id is used twice. *)
ListInv(n) ==
    /\ \A i \in DOMAIN callbacks[n] : callbacks[n][i].id < nextId[n]
    /\ \A i, j \in DOMAIN callbacks[n] : callbacks[n][i].id = callbacks[n][j].id => i = j
    /\ \A i \in DOMAIN callbacks[n] : \A b \in Cbs :
          callbacks[n][i].cb = b <=> reg[b].node = n /\ reg[b].id = callbacks[n][i].id

InList(b, n) == \E i \in DOMAIN callbacks[n] : callbacks[n][i].cb = b
Listed(b) == \E n \in Nodes : InList(b, n)
Nowhere(b) == ran[b] = 0 /\ ~Some(Owing(b)) /\ ~Listed(b)
Somewhere(b) == ran[b] = 1 \/ Some(Owing(b)) \/ Listed(b)

(* Where a callback may be, at every stage of its registration. *)
CbInv(b) ==
    /\ ran[b] \in {0, 1}
    /\ One(Owing(b)) /\ One(Registering(b))
    /\ Some(Owing(b)) => ran[b] = 0
    /\ Listed(b) => ran[b] = 0 /\ ~Some(Owing(b))
    /\ reg[b].st \in {"new", "removed"} \/ Some(Pending(b)) => Nowhere(b)
    /\ reg[b].st = "new" \/ Some(Pending(b)) => reg[b].id = NoId
    /\ reg[b].st # "new" => reg[b].node \in Nodes
    /\ Known(reg[b].node)
    /\ reg[b].id # NoId => reg[b].node \in Nodes /\ reg[b].id < nextId[reg[b].node]
    /\ \A n \in Nodes : /\ reg[b].node = n /\ Live(n) /\ ~Some(Pending(b))
                         /\ reg[b].st \in {"registering", "held"}
                         => Somewhere(b)

(* A future is made once, and is pending exactly while its node may still be
   cancelled. *)
FutInv(x) ==
    /\ One(Asking(x))
    /\ Known(fut[x])
    /\ \A n \in Nodes : /\ x \in senders[n] => fut[x] = n /\ Live(n) /\ ~cancelled[n]
                        /\ fut[x] = n /\ Live(n) /\ ~cancelled[n] => x \in senders[n]

(* A child is spawned once, and what stands between it and its parent. *)
OnItsWay(c) == Some(Owing(c)) \/ Some(Marking(c)) \/ Some(Pending(c))

ChildInv(c) ==
    /\ One(Registering(c))
    /\ Known(parent[c])
    /\ \A n \in Nodes : parent[c] = n /\ Live(c) /\ ~cancelled[c] /\ ~OnItsWay(c)
                          => ~cancelled[n] /\ (Live(n) => InList(c, n))

CancelInv ==
    /\ Types /\ FramesGood
    /\ \A n \in Nodes : ListInv(n)
    /\ \A b \in Cbs : CbInv(b)
    /\ \A x \in Futs : FutInv(x)
    /\ \A c \in Children : ChildInv(c)

-----------------------------------------------------------------------------
(* Steps of the stacks.                                                    *)

(* Thread t keeps its k outermost calls, and the other threads all of theirs. *)
Change(t, k) ==
    /\ k <= Len(stack[t]) /\ k <= Len(stack'[t])
    /\ \A u \in Threads : u # t => stack'[u] = stack[u]
    /\ \A d \in 1..k : stack'[t][d] = stack[t][d]

(* The calls a step ends or changes, and what it puts in their place. *)
Old(t, k) == {stack[t][d] : d \in (k + 1)..Len(stack[t])}
New(t, k) == {stack'[t][d] : d \in (k + 1)..Len(stack'[t])}

StacksOK == stack \in [Threads -> Seq(FrameSet)]

(* How a step changes whether there is a call of a kind. *)
LEMMA SomeStep ==
    ASSUME NEW t \in Threads, NEW k \in Nat, StacksOK, StacksOK', Change(t, k), NEW S
    PROVE  /\ Some(S)' => Some(S) \/ \E f \in New(t, k) : f \in S
           /\ Some(S) => Some(S)' \/ \E f \in Old(t, k) : f \in S
           /\ (\E f \in New(t, k) : f \in S) => Some(S)'
           /\ (\E f \in Old(t, k) : f \in S) => Some(S)
           /\ One(S) /\ (\E f \in Old(t, k) : f \in S) /\ (\A f \in New(t, k) : f \notin S)
                 => ~Some(S)'
<1>0. \A u \in Threads : Len(stack[u]) \in Nat /\ Len(stack'[u]) \in Nat
  BY DEF StacksOK
<1>1. Some(S)' => Some(S) \/ \E f \in New(t, k) : f \in S
  <2> SUFFICES ASSUME NEW u \in Threads, NEW d \in 1..Len(stack'[u]), stack'[u][d] \in S
               PROVE  Some(S) \/ \E f \in New(t, k) : f \in S
    BY DEF Some
  <2>1. CASE u # t \/ d <= k
    <3>1. d \in 1..Len(stack[u]) /\ stack[u][d] \in S
      BY <1>0, <2>1 DEF Change
    <3> QED BY <3>1 DEF Some
  <2>2. CASE u = t /\ d > k
    BY <1>0, <2>2 DEF New
  <2> QED BY <1>0, <2>1, <2>2
<1>2. Some(S) => Some(S)' \/ \E f \in Old(t, k) : f \in S
  <2> SUFFICES ASSUME NEW u \in Threads, NEW d \in 1..Len(stack[u]), stack[u][d] \in S
               PROVE  Some(S)' \/ \E f \in Old(t, k) : f \in S
    BY DEF Some
  <2>1. CASE u # t \/ d <= k
    <3>1. d \in 1..Len(stack'[u]) /\ stack'[u][d] \in S
      BY <1>0, <2>1 DEF Change
    <3> QED BY <3>1 DEF Some
  <2>2. CASE u = t /\ d > k
    BY <1>0, <2>2 DEF Old
  <2> QED BY <1>0, <2>1, <2>2
<1>3. (\E f \in New(t, k) : f \in S) => Some(S)'
  <2> SUFFICES ASSUME NEW d \in (k + 1)..Len(stack'[t]), stack'[t][d] \in S PROVE Some(S)'
    BY DEF New
  <2>1. d \in 1..Len(stack'[t])
    BY <1>0
  <2> QED BY <2>1 DEF Some
<1>4. (\E f \in Old(t, k) : f \in S) => Some(S)
  <2> SUFFICES ASSUME NEW d \in (k + 1)..Len(stack[t]), stack[t][d] \in S PROVE Some(S)
    BY DEF Old
  <2>1. d \in 1..Len(stack[t])
    BY <1>0
  <2> QED BY <2>1 DEF Some
<1>5. ASSUME One(S), \E f \in Old(t, k) : f \in S, \A f \in New(t, k) : f \notin S
      PROVE  ~Some(S)'
  <2> SUFFICES ASSUME NEW u \in Threads, NEW d \in 1..Len(stack'[u]), stack'[u][d] \in S
               PROVE  FALSE
    BY DEF Some
  <2>1. PICK e \in (k + 1)..Len(stack[t]) : stack[t][e] \in S
    BY <1>5 DEF Old
  <2>2. u # t \/ d <= k
    BY <1>0, <1>5 DEF New
  <2>3. d \in 1..Len(stack[u]) /\ stack[u][d] \in S /\ e \in 1..Len(stack[t])
    BY <1>0, <2>1, <2>2 DEF Change
  <2>4. u = t /\ d = e
    BY <1>5, <2>1, <2>3 DEF One
  <2> QED BY <2>1, <2>2, <2>4
<1> QED BY <1>1, <1>2, <1>3, <1>4, <1>5

(* A step that adds a call of a kind only where there was none, or in the
   place of one. *)
LEMMA OneStep ==
    ASSUME NEW t \in Threads, NEW k \in Nat, StacksOK, StacksOK', Change(t, k), NEW S, One(S),
           (\E f \in New(t, k) : f \in S) => ~Some(S) \/ \E f \in Old(t, k) : f \in S,
           \A d, e \in (k + 1)..Len(stack'[t]) : stack'[t][d] \in S /\ stack'[t][e] \in S => d = e
    PROVE  One(S)'
<1>0. \A u \in Threads : Len(stack[u]) \in Nat /\ Len(stack'[u]) \in Nat
  BY DEF StacksOK
<1>1. ASSUME NEW u \in Threads, NEW d \in 1..Len(stack'[u]), stack'[u][d] \in S, u # t \/ d <= k
      PROVE  d \in 1..Len(stack[u]) /\ stack[u][d] \in S
  BY <1>0, <1>1 DEF Change
<1>2. ASSUME NEW u \in Threads, NEW d \in 1..Len(stack'[u]), stack'[u][d] \in S, u # t \/ d <= k,
             NEW e \in (k + 1)..Len(stack'[t]), stack'[t][e] \in S
      PROVE  FALSE
  <2>1. d \in 1..Len(stack[u]) /\ stack[u][d] \in S
    BY <1>1, <1>2
  <2>2. PICK i \in (k + 1)..Len(stack[t]) : stack[t][i] \in S
    BY <1>2, <2>1 DEF New, Old, Some
  <2>3. i \in 1..Len(stack[t])
    BY <1>0
  <2> QED BY <1>2, <2>1, <2>2, <2>3 DEF One
<1> SUFFICES ASSUME NEW u \in Threads, NEW v \in Threads,
                    NEW d \in 1..Len(stack'[u]), NEW e \in 1..Len(stack'[v]),
                    stack'[u][d] \in S, stack'[v][e] \in S
             PROVE  u = v /\ d = e
  BY DEF One
<1>3. (u # t \/ d <= k) \/ (u = t /\ d \in (k + 1)..Len(stack'[t]))
  BY <1>0
<1>4. (v # t \/ e <= k) \/ (v = t /\ e \in (k + 1)..Len(stack'[t]))
  BY <1>0
<1>5. CASE (u # t \/ d <= k) /\ (v # t \/ e <= k)
  BY <1>1, <1>5 DEF One
<1>6. CASE (u # t \/ d <= k) /\ (v = t /\ e \in (k + 1)..Len(stack'[t]))
  BY <1>2, <1>6
<1>7. CASE (u = t /\ d \in (k + 1)..Len(stack'[t])) /\ (v # t \/ e <= k)
  BY <1>2, <1>7
<1>8. CASE u = t /\ d \in (k + 1)..Len(stack'[t]) /\ v = t /\ e \in (k + 1)..Len(stack'[t])
  BY <1>8
<1> QED BY <1>3, <1>4, <1>5, <1>6, <1>7, <1>8

(* The calls of the others and the outer calls of t stay good, and so are the
   new ones.  S is a kind of call of which there was none, or which is ended. *)
LEMMA GoodStep ==
    ASSUME NEW t \in Threads, NEW k \in Nat, StacksOK, StacksOK', Change(t, k), NEW S,
           \/ ~Some(S)
           \/ One(S) /\ (\E f \in Old(t, k) : f \in S) /\ (\A f \in New(t, k) : f \notin S),
           FramesGood, \A f \in FrameSet : f \notin S /\ GoodFrame(f) => GoodFrame(f)',
           \A f \in FrameSet : f \in New(t, k) => GoodFrame(f)'
    PROVE  FramesGood'
<1> SUFFICES ASSUME NEW f \in FrameSet, Some({f})', f \notin New(t, k) PROVE GoodFrame(f)'
  BY DEF FramesGood
<1>1. Some({f})
  BY SomeStep
<1>2. f \notin S
  <2>1. CASE ~Some(S)
    BY <1>1, <2>1 DEF Some
  <2>2. CASE One(S) /\ (\E g \in Old(t, k) : g \in S) /\ (\A g \in New(t, k) : g \notin S)
    <3>1. ~Some(S)'
      BY <2>2, SomeStep
    <3> QED BY <3>1 DEF Some
  <2> QED BY <2>1, <2>2
<1> QED BY <1>1, <1>2 DEF FramesGood

(* The four shapes of a step. *)
Swaps(t, g) == stack[t] # << >> /\ stack' = WithTop(t, g)
Nests(t, g, f) == stack[t] # << >> /\ stack' = [stack EXCEPT ![t] = Append(NewTop(@, g), f)]
Begins(t, f) == stack[t] = << >> /\ stack' = [stack EXCEPT ![t] = Append(@, f)]
Ends(t) == stack[t] # << >> /\ stack' = [stack EXCEPT ![t] = Front(@)]

(* The innermost call is changed. *)
LEMMA SwapShape ==
    ASSUME StacksOK, NEW t \in Threads, NEW g \in FrameSet, Swaps(t, g)
    PROVE  /\ StacksOK' /\ Top(t) \in FrameSet
           /\ \E k \in Nat : /\ Change(t, k) /\ Old(t, k) = {Top(t)} /\ New(t, k) = {g}
                             /\ Len(stack'[t]) = k + 1 /\ stack'[t][k + 1] = g
<1>1. stack[t] \in Seq(FrameSet) /\ Len(stack[t]) \in Nat /\ Len(stack[t]) >= 1
  BY DEF StacksOK, Swaps
<1>2. stack' = [stack EXCEPT ![t] = [stack[t] EXCEPT ![Len(stack[t])] = g]]
  BY DEF Swaps, WithTop, NewTop
<1>3. /\ stack'[t] = [stack[t] EXCEPT ![Len(stack[t])] = g] /\ stack'[t] \in Seq(FrameSet)
      /\ Len(stack'[t]) = Len(stack[t])
      /\ \A u \in Threads : u # t => stack'[u] = stack[u]
  BY <1>1, <1>2 DEF StacksOK
<1>4. StacksOK'
  BY <1>1, <1>2, <1>3 DEF StacksOK
<1>5. PICK k \in Nat : k + 1 = Len(stack[t])
  BY <1>1
<1>6. (k + 1)..Len(stack[t]) = {k + 1} /\ (k + 1)..Len(stack'[t]) = {k + 1}
  BY <1>3, <1>5
<1>7. Top(t) = stack[t][k + 1] /\ Top(t) \in FrameSet /\ stack'[t][k + 1] = g
  BY <1>1, <1>3, <1>5 DEF Top, Last
<1>8. Old(t, k) = {Top(t)} /\ New(t, k) = {g}
  BY <1>6, <1>7 DEF Old, New
<1>9. Change(t, k)
  BY <1>1, <1>3, <1>5 DEF Change
<1> QED BY <1>3, <1>4, <1>5, <1>7, <1>8, <1>9

(* In a stack of k + 1 calls the innermost is changed, and calls f. *)
NestsAt(t, g, f, k) ==
    /\ Change(t, k) /\ Old(t, k) = {Top(t)} /\ New(t, k) = {g, f}
    /\ Len(stack'[t]) = k + 2
    /\ stack'[t][k + 1] = g /\ stack'[t][k + 2] = f

(* The innermost call is changed, and calls f. *)
LEMMA NestShape ==
    ASSUME StacksOK, NEW t \in Threads, NEW g \in FrameSet, NEW f \in FrameSet, Nests(t, g, f)
    PROVE  /\ StacksOK' /\ Top(t) \in FrameSet
           /\ \E k \in Nat : NestsAt(t, g, f, k)
<1>1. stack[t] \in Seq(FrameSet) /\ Len(stack[t]) \in Nat /\ Len(stack[t]) >= 1
  BY DEF StacksOK, Nests
<1>2. PICK s : s = [stack[t] EXCEPT ![Len(stack[t])] = g]
  OBVIOUS
<1>3. /\ s \in Seq(FrameSet) /\ Len(s) = Len(stack[t]) /\ s[Len(stack[t])] = g
      /\ \A d \in 1..(Len(stack[t]) - 1) : s[d] = stack[t][d]
  BY <1>1, <1>2
<1>4. stack' = [stack EXCEPT ![t] = Append(s, f)]
  BY <1>2 DEF Nests, NewTop
<1>5. /\ stack'[t] = Append(s, f) /\ stack'[t] \in Seq(FrameSet)
      /\ \A u \in Threads : u # t => stack'[u] = stack[u]
  BY <1>3, <1>4 DEF StacksOK
<1>6. StacksOK'
  BY <1>3, <1>4 DEF StacksOK
<1>7. PICK k \in Nat : k + 1 = Len(stack[t])
  BY <1>1, SMTT(60)
<1>8. /\ Len(stack'[t]) = k + 2 /\ stack'[t][k + 1] = g /\ stack'[t][k + 2] = f
      /\ \A d \in 1..k : stack'[t][d] = stack[t][d]
  <2>1. Len(s) = k + 1 /\ Len(Append(s, f)) = k + 2
    BY <1>3, <1>7
  <2>2. Append(s, f)[k + 2] = f /\ \A d \in 1..(k + 1) : Append(s, f)[d] = s[d]
    BY <1>3, <2>1
  <2>3. s[k + 1] = g /\ \A d \in 1..k : s[d] = stack[t][d]
    BY <1>3, <1>7
  <2> QED BY <1>5, <2>1, <2>2, <2>3
<1>9. (k + 1)..Len(stack[t]) = {k + 1} /\ (k + 1)..Len(stack'[t]) = {k + 1, k + 2}
  BY <1>7, <1>8
<1>10. Top(t) = stack[t][k + 1] /\ Top(t) \in FrameSet
  BY <1>1, <1>7 DEF Top, Last
<1>11. Old(t, k) = {Top(t)} /\ New(t, k) = {g, f}
  BY <1>8, <1>9, <1>10 DEF Old, New
<1>12. Change(t, k)
  BY <1>5, <1>7, <1>8 DEF Change
<1> QED BY <1>6, <1>8, <1>10, <1>11, <1>12 DEF NestsAt

(* A thread outside every call makes one. *)
LEMMA BeginShape ==
    ASSUME StacksOK, NEW t \in Threads, NEW f \in FrameSet, Begins(t, f)
    PROVE  /\ StacksOK' /\ Change(t, 0) /\ Old(t, 0) = {} /\ New(t, 0) = {f}
           /\ Len(stack'[t]) = 1
<1>1. stack'[t] = <<f>> /\ stack' = [stack EXCEPT ![t] = <<f>>] /\ Len(stack[t]) = 0
  BY DEF StacksOK, Begins
<1>2. StacksOK' /\ Len(stack'[t]) = 1 /\ stack'[t][1] = f
  BY <1>1 DEF StacksOK
<1>3. Change(t, 0)
  BY <1>1, <1>2 DEF Change, StacksOK
<1>4. (0 + 1)..Len(stack[t]) = {} /\ (0 + 1)..Len(stack'[t]) = {1}
  BY <1>1, <1>2
<1> QED BY <1>2, <1>3, <1>4 DEF Old, New

(* The innermost call returns. *)
LEMMA EndShape ==
    ASSUME StacksOK, NEW t \in Threads, Ends(t)
    PROVE  /\ StacksOK' /\ Top(t) \in FrameSet
           /\ \E k \in Nat : Change(t, k) /\ Old(t, k) = {Top(t)} /\ New(t, k) = {}
                             /\ Len(stack'[t]) = k
<1>1. stack[t] \in Seq(FrameSet) /\ Len(stack[t]) \in Nat /\ Len(stack[t]) >= 1
  BY DEF StacksOK, Ends
<1>2. PICK k \in Nat : k + 1 = Len(stack[t])
  <2>1. Len(stack[t]) - 1 \in Nat /\ (Len(stack[t]) - 1) + 1 = Len(stack[t])
    BY <1>1
  <2> QED BY <2>1
<1>3. PICK s : s = SubSeq(stack[t], 1, Len(stack[t]) - 1)
  OBVIOUS
<1>4. s \in Seq(FrameSet) /\ Len(s) = k /\ \A d \in 1..k : s[d] = stack[t][d]
  BY <1>1, <1>2, <1>3
<1>5. stack' = [stack EXCEPT ![t] = s]
  BY <1>3 DEF Ends, Front
<1>6. StacksOK' /\ stack'[t] = s /\ \A u \in Threads : u # t => stack'[u] = stack[u]
  BY <1>4, <1>5 DEF StacksOK
<1>7. Top(t) = stack[t][k + 1] /\ Top(t) \in FrameSet
  BY <1>1, <1>2 DEF Top, Last
<1>8. (k + 1)..Len(stack[t]) = {k + 1} /\ (k + 1)..Len(stack'[t]) = {}
  BY <1>2, <1>4, <1>6
<1>9. Old(t, k) = {Top(t)} /\ New(t, k) = {}
  BY <1>7, <1>8 DEF Old, New
<1>10. Change(t, k)
  BY <1>2, <1>4, <1>6 DEF Change
<1> QED BY <1>4, <1>6, <1>7, <1>9, <1>10

(* What a step does to the calls of kind S: `was' says that it changes or ends
   one, `is' that it puts one there, `two' that it puts two there. *)
Effect(S, was, is, two) ==
    /\ was => Some(S)
    /\ is => Some(S)'
    /\ Some(S)' => Some(S) \/ is
    /\ Some(S) => Some(S)' \/ was
    /\ One(S) /\ was /\ ~is => ~Some(S)'
    /\ One(S) /\ ~two /\ (is => was \/ ~Some(S)) => One(S)'

(* The effect of changing the innermost call. *)
LEMMA SwapEffect ==
    ASSUME StacksOK, NEW t \in Threads, NEW h \in FrameSet, NEW g \in FrameSet,
           h = Top(t), Swaps(t, g)
    PROVE  StacksOK' /\ \A S : Effect(S, h \in S, g \in S, FALSE)
<1>1. StacksOK' /\ \E k \in Nat : /\ Change(t, k) /\ Old(t, k) = {Top(t)} /\ New(t, k) = {g}
                                  /\ Len(stack'[t]) = k + 1 /\ stack'[t][k + 1] = g
  BY SwapShape
<1>2. PICK k \in Nat : /\ Change(t, k) /\ Old(t, k) = {h} /\ New(t, k) = {g}
                       /\ Len(stack'[t]) = k + 1
  BY <1>1
<1> SUFFICES ASSUME NEW S PROVE Effect(S, h \in S, g \in S, FALSE)
  BY <1>1
<1>3. \A d, e \in (k + 1)..Len(stack'[t]) : d = e
  BY <1>2
<1>4. One(S) /\ (g \in S => h \in S \/ ~Some(S)) => One(S)'
  BY <1>1, <1>2, <1>3, OneStep
<1>5. /\ h \in S => Some(S)
      /\ g \in S => Some(S)'
      /\ Some(S)' => Some(S) \/ g \in S
      /\ Some(S) => Some(S)' \/ h \in S
      /\ One(S) /\ h \in S /\ ~(g \in S) => ~Some(S)'
  BY <1>1, <1>2, SomeStep
<1> QED BY <1>4, <1>5 DEF Effect

(* The effect of changing the innermost call, which calls f. *)
LEMMA NestEffect ==
    ASSUME StacksOK, NEW t \in Threads, NEW h \in FrameSet, NEW g \in FrameSet, NEW f \in FrameSet,
           h = Top(t), Nests(t, g, f)
    PROVE  StacksOK' /\ \A S : Effect(S, h \in S, g \in S \/ f \in S, g \in S /\ f \in S)
<1>1. /\ StacksOK' /\ Top(t) \in FrameSet
      /\ \E k \in Nat : NestsAt(t, g, f, k)
  BY NestShape
<1>2. PICK k \in Nat : /\ Change(t, k) /\ Old(t, k) = {h} /\ New(t, k) = {g, f}
                       /\ Len(stack'[t]) = k + 2
                       /\ stack'[t][k + 1] = g /\ stack'[t][k + 2] = f
  BY <1>1 DEF NestsAt
<1> SUFFICES ASSUME NEW S PROVE Effect(S, h \in S, g \in S \/ f \in S, g \in S /\ f \in S)
  BY <1>1
<1>3. \A d \in (k + 1)..Len(stack'[t]) : d = k + 1 \/ d = k + 2
  BY <1>2
<1>4. ASSUME ~(g \in S /\ f \in S),
             NEW d \in (k + 1)..Len(stack'[t]), NEW e \in (k + 1)..Len(stack'[t]),
             stack'[t][d] \in S, stack'[t][e] \in S
      PROVE  d = e
  BY <1>2, <1>3, <1>4
<1>5. One(S) /\ ~(g \in S /\ f \in S) /\ (g \in S \/ f \in S => h \in S \/ ~Some(S)) => One(S)'
  BY <1>1, <1>2, <1>4, OneStep
<1>6. /\ h \in S => Some(S)
      /\ g \in S \/ f \in S => Some(S)'
      /\ Some(S)' => Some(S) \/ g \in S \/ f \in S
      /\ Some(S) => Some(S)' \/ h \in S
      /\ One(S) /\ h \in S /\ ~(g \in S \/ f \in S) => ~Some(S)'
  BY <1>1, <1>2, SomeStep
<1> QED BY <1>5, <1>6 DEF Effect

(* The effect of a call from outside every call. *)
LEMMA BeginEffect ==
    ASSUME StacksOK, NEW t \in Threads, NEW f \in FrameSet, Begins(t, f)
    PROVE  StacksOK' /\ \A S : Effect(S, FALSE, f \in S, FALSE)
<1>1. StacksOK' /\ Change(t, 0) /\ Old(t, 0) = {} /\ New(t, 0) = {f} /\ Len(stack'[t]) = 1
  BY BeginShape
<1>2. PICK k \in Nat : k = 0
  OBVIOUS
<1> SUFFICES ASSUME NEW S PROVE Effect(S, FALSE, f \in S, FALSE)
  BY <1>1
<1>3. \A d, e \in (k + 1)..Len(stack'[t]) : d = e
  BY <1>1, <1>2
<1>4. One(S) /\ (f \in S => ~Some(S)) => One(S)'
  BY <1>1, <1>2, <1>3, OneStep
<1>5. /\ f \in S => Some(S)'
      /\ Some(S)' => Some(S) \/ f \in S
      /\ Some(S) => Some(S)'
  BY <1>1, <1>2, SomeStep
<1> QED BY <1>4, <1>5 DEF Effect

(* The effect of a return. *)
LEMMA EndEffect ==
    ASSUME StacksOK, NEW t \in Threads, NEW h \in FrameSet, h = Top(t), Ends(t)
    PROVE  StacksOK' /\ \A S : Effect(S, h \in S, FALSE, FALSE)
<1>1. StacksOK' /\ \E k \in Nat : /\ Change(t, k) /\ Old(t, k) = {Top(t)} /\ New(t, k) = {}
                                  /\ Len(stack'[t]) = k
  BY EndShape
<1>2. PICK k \in Nat : /\ Change(t, k) /\ Old(t, k) = {h} /\ New(t, k) = {} /\ Len(stack'[t]) = k
  BY <1>1
<1> SUFFICES ASSUME NEW S PROVE Effect(S, h \in S, FALSE, FALSE)
  BY <1>1
<1>3. \A d, e \in (k + 1)..Len(stack'[t]) : d = e
  BY <1>2
<1>4. One(S) => One(S)'
  BY <1>1, <1>2, <1>3, OneStep
<1>5. /\ h \in S => Some(S)
      /\ Some(S)' => Some(S)
      /\ Some(S) => Some(S)' \/ h \in S
      /\ One(S) /\ h \in S => ~Some(S)'
  BY <1>1, <1>2, SomeStep
<1> QED BY <1>4, <1>5 DEF Effect


(* The calls that a step leaves alone stay good, and the new ones are.  S is a
   kind of call that a step may make bad: there is none, or it is ended. *)
LEMMA SwapGood ==
    ASSUME StacksOK, NEW t \in Threads, NEW h \in FrameSet, NEW g \in FrameSet,
           h = Top(t), Swaps(t, g), NEW S, ~Some(S) \/ (One(S) /\ h \in S /\ g \notin S),
           FramesGood, \A f \in FrameSet : f \notin S /\ GoodFrame(f) => GoodFrame(f)',
           GoodFrame(g)'
    PROVE  FramesGood'
<1>1. StacksOK' /\ \E k \in Nat : /\ Change(t, k) /\ Old(t, k) = {Top(t)} /\ New(t, k) = {g}
                                  /\ Len(stack'[t]) = k + 1 /\ stack'[t][k + 1] = g
  BY SwapShape
<1>2. PICK k \in Nat : Change(t, k) /\ Old(t, k) = {h} /\ New(t, k) = {g}
  BY <1>1
<1>3. \A f \in FrameSet : f \in New(t, k) => GoodFrame(f)'
  BY <1>2
<1>4. \/ ~Some(S)
      \/ One(S) /\ (\E f \in Old(t, k) : f \in S) /\ (\A f \in New(t, k) : f \notin S)
  BY <1>2
<1> QED BY <1>1, <1>2, <1>3, <1>4, GoodStep

(* The same for a step that changes the innermost call, which calls f. *)
LEMMA NestGood ==
    ASSUME StacksOK, NEW t \in Threads, NEW g \in FrameSet, NEW f \in FrameSet,
           Nests(t, g, f), FramesGood, \A e \in FrameSet : GoodFrame(e) => GoodFrame(e)',
           GoodFrame(g)', GoodFrame(f)'
    PROVE  FramesGood'
<1>1. StacksOK' /\ \E k \in Nat : NestsAt(t, g, f, k)
  BY NestShape
<1>2. PICK k \in Nat : Change(t, k) /\ New(t, k) = {g, f}
  BY <1>1 DEF NestsAt
<1>3. \A e \in FrameSet : e \in New(t, k) => GoodFrame(e)'
  BY <1>2
<1>4. ~Some({})
  BY DEF Some
<1> QED BY <1>1, <1>2, <1>3, <1>4, GoodStep

(* The same for a return. *)
LEMMA EndGood ==
    ASSUME StacksOK, NEW t \in Threads, NEW h \in FrameSet, h = Top(t), Ends(t),
           NEW S, ~Some(S) \/ (One(S) /\ h \in S),
           FramesGood, \A f \in FrameSet : f \notin S /\ GoodFrame(f) => GoodFrame(f)'
    PROVE  FramesGood'
<1>1. StacksOK' /\ \E k \in Nat : /\ Change(t, k) /\ Old(t, k) = {Top(t)} /\ New(t, k) = {}
                                  /\ Len(stack'[t]) = k
  BY EndShape
<1>2. PICK k \in Nat : Change(t, k) /\ Old(t, k) = {h} /\ New(t, k) = {}
  BY <1>1
<1>3. \A f \in FrameSet : f \in New(t, k) => GoodFrame(f)'
  BY <1>2
<1>4. \/ ~Some(S)
      \/ One(S) /\ (\E f \in Old(t, k) : f \in S) /\ (\A f \in New(t, k) : f \notin S)
  BY <1>2
<1> QED BY <1>1, <1>2, <1>3, <1>4, GoodStep

(* The same for a step that leaves the stacks alone. *)
LEMMA StillGood ==
    ASSUME stack' = stack, FramesGood, \A f \in FrameSet : GoodFrame(f) => GoodFrame(f)'
    PROVE  FramesGood'
<1>1. \A f \in FrameSet : Some({f})' <=> Some({f})
  BY DEF Some
<1> QED BY <1>1 DEF FramesGood

(* A call in progress of any kind is good. *)
LEMMA KindGood ==
    ASSUME StacksOK, FramesGood, NEW S, Some(S)
    PROVE  \E f \in FrameSet : f \in S /\ GoodFrame(f)
<1>0. PICK t \in Threads : \E d \in 1..Len(stack[t]) : stack[t][d] \in S
  BY DEF Some
<1>1. PICK d \in 1..Len(stack[t]) : stack[t][d] \in S
  BY <1>0
<1>2. PICK f \in FrameSet : f = stack[t][d]
  BY DEF StacksOK
<1>3. Some({f})
  BY <1>2 DEF Some
<1> QED BY <1>1, <1>2, <1>3 DEF FramesGood

(* The innermost call is good. *)
LEMMA TopGood ==
    ASSUME StacksOK, FramesGood, NEW t \in Threads, stack[t] # << >>
    PROVE  \E h \in FrameSet : h = Top(t) /\ GoodFrame(h) /\ Some({h})
<1>1. Len(stack[t]) \in 1..Len(stack[t])
  BY DEF StacksOK
<1>2. PICK h \in FrameSet : h = stack[t][Len(stack[t])]
  BY <1>1 DEF StacksOK
<1>3. Some({h})
  BY <1>1, <1>2 DEF Some
<1> QED BY <1>2, <1>3 DEF FramesGood, Top, Last


-----------------------------------------------------------------------------
(* Kinds of calls.                                                         *)

(* A call that goes on, with what it still has to run. *)
Goes(h, pc, todo) == [op |-> h.op, node |-> h.node, arg |-> h.arg, pc |-> pc, todo |-> todo]

(* A call that goes on is a call, and changes in nothing else. *)
LEMMA GoesOn ==
    ASSUME NEW h \in FrameSet, NEW pc \in {"lock", "body", "run", "entered", "leaving"},
           NEW todo \in Seq(Callback)
    PROVE  /\ Goes(h, pc, todo) \in FrameSet
           /\ [h EXCEPT !.pc = pc, !.todo = todo] = Goes(h, pc, todo)
           /\ [h EXCEPT !.pc = pc] = Goes(h, pc, h.todo)
           /\ [h EXCEPT !.todo = todo] = Goes(h, h.pc, todo)
           /\ h.todo \in Seq(Callback)
<1>1. h = [op |-> h.op, node |-> h.node, arg |-> h.arg, pc |-> h.pc, todo |-> h.todo]
  BY DEF FrameSet
<1>2. Goes(h, pc, todo) \in FrameSet /\ h.todo \in Seq(Callback)
  BY DEF FrameSet, Goes
<1>3. PICK o, n, a, p, d : h = [op |-> o, node |-> n, arg |-> a, pc |-> p, todo |-> d]
  BY <1>1
<1>4. h.op = o /\ h.node = n /\ h.arg = a /\ h.pc = p /\ h.todo = d
  BY <1>3
<1>5. [h EXCEPT !.pc = pc] = Goes(h, pc, h.todo)
  BY ONLY <1>3, <1>4 DEF Goes
<1>6. [h EXCEPT !.todo = todo] = Goes(h, h.pc, todo)
  BY ONLY <1>3, <1>4 DEF Goes
<1>7. [h EXCEPT !.pc = pc, !.todo = todo] = Goes(h, pc, todo)
  <2>1. PICK g : g = [op |-> o, node |-> n, arg |-> a, pc |-> pc, todo |-> d]
    OBVIOUS
  <2>2. [h EXCEPT !.pc = pc] = g
    BY ONLY <1>3, <2>1
  <2>3. [g EXCEPT !.todo = todo] = [op |-> o, node |-> n, arg |-> a, pc |-> pc, todo |-> todo]
    BY ONLY <2>1
  <2> QED BY ONLY <1>4, <2>2, <2>3 DEF Goes
<1> QED BY <1>2, <1>5, <1>6, <1>7

(* A new call is a call. *)
LEMMA FrameIs ==
    ASSUME NEW op \in {"cancel", "register", "unregister", "future", "callback"},
           NEW n \in Nodes \cup {None}, NEW a \in Callback \cup Futs \cup {None}
    PROVE  /\ Frame(op, n, a) \in FrameSet
           /\ Frame(op, n, a).op = op /\ Frame(op, n, a).node = n /\ Frame(op, n, a).arg = a
           /\ Frame(op, n, a).pc = "lock" /\ Frame(op, n, a).todo = << >>
BY DEF Frame, FrameSet

(* Kinds that a callback does not join or leave by calling. *)
Calm(S) == \A h \in FrameSet : h.op = "callback" => (h \in S <=> Goes(h, "leaving", h.todo) \in S)

(* All the kinds of the invariant are. *)
LEMMA CalmKinds ==
    ASSUME NEW x
    PROVE  /\ Calm(OnNode(x)) /\ Calm(Owing(x)) /\ Calm(Registering(x))
           /\ Calm(Pending(x)) /\ Calm(Marking(x)) /\ Calm(Asking(x))
<1> SUFFICES ASSUME NEW h \in FrameSet, h.op = "callback", NEW g, g = Goes(h, "leaving", h.todo)
             PROVE  /\ h \in OnNode(x) <=> g \in OnNode(x)
                    /\ h \in Owing(x) <=> g \in Owing(x)
                    /\ h \in Registering(x) <=> g \in Registering(x)
                    /\ h \in Pending(x) <=> g \in Pending(x)
                    /\ h \in Marking(x) <=> g \in Marking(x)
                    /\ h \in Asking(x) <=> g \in Asking(x)
  BY DEF Calm
<1>1. /\ g \in FrameSet /\ g.op = h.op /\ g.node = h.node /\ g.arg = h.arg /\ g.todo = h.todo
  BY DEF Goes, FrameSet
<1> QED BY ONLY h \in FrameSet, h.op = "callback", <1>1
        DEF OnNode, Owing, Registering, Pending, Marking, Asking

(* A step that only adds the call f. *)
Adds(S, f) == /\ Some(S)' <=> Some(S) \/ f \in S
              /\ One(S) /\ (f \in S => ~Some(S)) => One(S)'

(* A step that changes nothing for a kind. *)
Same(S) == /\ Some(S)' <=> Some(S)
           /\ One(S) => One(S)'

(* The two shapes of a call. *)
LEMMA EnterShape ==
    ASSUME StacksOK, NEW t \in Threads, NEW f \in FrameSet, Enter(t, f)
    PROVE  \/ Begins(t, f)
           \/ \E h, g \in FrameSet : /\ stack[t] # << >> /\ h = Top(t) /\ h.op = "callback"
                                     /\ g = Goes(h, "leaving", h.todo) /\ Nests(t, g, f)
<1>1. CASE stack[t] = << >>
  BY <1>1 DEF Enter, Begins
<1>2. CASE stack[t] # << >>
  <2>1. PICK h \in FrameSet : h = Top(t)
    <3>1. stack[t][Len(stack[t])] \in FrameSet
      BY <1>2 DEF StacksOK
    <3> QED BY <3>1 DEF Top, Last
  <2>2. h.op = "callback" /\ stack' = [stack EXCEPT ![t] = Append(NewTop(@, [h EXCEPT !.pc = "leaving"]), f)]
    BY <1>2, <2>1 DEF Enter, MayCall, Top
  <2>3. PICK g \in FrameSet : g = Goes(h, "leaving", h.todo) /\ g = [h EXCEPT !.pc = "leaving"]
    <3>1. h.todo \in Seq(Callback)
      BY DEF FrameSet
    <3>2. Goes(h, "leaving", h.todo) \in FrameSet
      BY <3>1, GoesOn
    <3>3. [h EXCEPT !.pc = "leaving"] = Goes(h, "leaving", h.todo)
      BY <3>1, GoesOn
    <3> QED BY <3>2, <3>3
  <2> QED BY <1>2, <2>1, <2>2, <2>3 DEF Nests
<1> QED BY <1>1, <1>2

(* A call adds itself, to all the kinds of the invariant. *)
LEMMA EnterEffect ==
    ASSUME StacksOK, NEW t \in Threads, NEW f \in FrameSet, Enter(t, f)
    PROVE  /\ StacksOK'
           /\ \A x : /\ Adds(OnNode(x), f) /\ Adds(Owing(x), f) /\ Adds(Registering(x), f)
                     /\ Adds(Pending(x), f) /\ Adds(Marking(x), f) /\ Adds(Asking(x), f)
<1>1. CASE Begins(t, f)
  <2>1. StacksOK' /\ \A S : Effect(S, FALSE, f \in S, FALSE)
    BY <1>1, BeginEffect
  <2>2. \A S : Adds(S, f)
    BY <2>1 DEF Effect, Adds
  <2> QED BY <2>1, <2>2
<1>2. ASSUME NEW h \in FrameSet, NEW g \in FrameSet, stack[t] # << >>, h = Top(t), h.op = "callback",
             g = Goes(h, "leaving", h.todo), Nests(t, g, f)
      PROVE  /\ StacksOK'
             /\ \A x : /\ Adds(OnNode(x), f) /\ Adds(Owing(x), f) /\ Adds(Registering(x), f)
                       /\ Adds(Pending(x), f) /\ Adds(Marking(x), f) /\ Adds(Asking(x), f)
  <2>1. StacksOK' /\ \A S : Effect(S, h \in S, g \in S \/ f \in S, g \in S /\ f \in S)
    BY <1>2, NestEffect
  <2>2. \A S : Calm(S) => Adds(S, f)
    BY <1>2, <2>1 DEF Effect, Adds, Calm
  <2> QED BY <2>1, <2>2, CalmKinds
<1> QED BY <1>1, <1>2, EnterShape

(* A call leaves the calls in progress good, when it is good itself. *)
LEMMA EnterGood ==
    ASSUME StacksOK, NEW t \in Threads, NEW f \in FrameSet, Enter(t, f), FramesGood,
           \A e \in FrameSet : GoodFrame(e) => GoodFrame(e)', GoodFrame(f)'
    PROVE  FramesGood'
<1>1. CASE Begins(t, f)
  <2>1. StacksOK' /\ Change(t, 0) /\ Old(t, 0) = {} /\ New(t, 0) = {f}
    BY <1>1, BeginShape
  <2>2. PICK k \in Nat : k = 0
    OBVIOUS
  <2>3. ~Some({}) /\ \A e \in FrameSet : e \in New(t, k) => GoodFrame(e)'
    BY <2>1, <2>2 DEF Some
  <2> QED BY <2>1, <2>2, <2>3, GoodStep
<1>2. ASSUME NEW h \in FrameSet, NEW g \in FrameSet, stack[t] # << >>, h = Top(t), h.op = "callback",
             g = Goes(h, "leaving", h.todo), Nests(t, g, f)
      PROVE  FramesGood'
  <2>1. GoodFrame(h)
    BY <1>2, TopGood
  <2>2. /\ g.op = h.op /\ g.node = h.node /\ g.arg = h.arg /\ g.pc = "leaving" /\ g.todo = h.todo
    BY <1>2 DEF Goes
  <2>3. GoodFrame(g)
    BY <1>2, <2>1, <2>2 DEF GoodFrame
  <2> QED BY <1>2, <2>3, NestGood
<1> QED BY <1>1, <1>2, EnterShape

(* A node lives by a handle or by a call on it. *)
LEMMA LiveIs ==
    /\ StacksOK => \A n \in Nodes : Live(n) <=> handle[n] \in {"building", "held"} \/ Some(OnNode(n))
    /\ StacksOK' => \A n \in Nodes : Live(n)' <=> handle'[n] \in {"building", "held"} \/ Some(OnNode(n))'
<1>1. ASSUME StacksOK, NEW n \in Nodes
      PROVE  Live(n) <=> handle[n] \in {"building", "held"} \/ Some(OnNode(n))
  <2>1. \A t \in Threads : /\ DOMAIN stack[t] = 1..Len(stack[t])
                           /\ \A i \in 1..Len(stack[t]) : stack[t][i] \in FrameSet
    BY <1>1 DEF StacksOK
  <2> QED BY <2>1 DEF Live, Alive, Some, OnNode
<1>2. ASSUME StacksOK', NEW n \in Nodes
      PROVE  Live(n)' <=> handle'[n] \in {"building", "held"} \/ Some(OnNode(n))'
  <2>1. \A t \in Threads : /\ DOMAIN stack'[t] = 1..Len(stack'[t])
                           /\ \A i \in 1..Len(stack'[t]) : stack'[t][i] \in FrameSet
    BY <1>2 DEF StacksOK
  <2> QED BY <2>1 DEF Live, Alive, Some, OnNode
<1> QED BY <1>1, <1>2


-----------------------------------------------------------------------------
(* What a step must leave alone for a part of the invariant to stay.       *)

(* No node comes back to life. *)
Lasts == \A n \in Nodes : handle[n] # "none" => handle'[n] # "none" /\ (Live(n)' => Live(n))

(* A list that stays or is dropped, with registrations that keep their ids. *)
LEMMA ListKeep ==
    ASSUME Types, NEW n \in Nodes, ListInv(n),
           callbacks'[n] = callbacks[n] \/ callbacks'[n] = << >>, nextId'[n] = nextId[n],
           \A b \in Cbs : /\ reg'[b].id = reg[b].id
                          /\ reg'[b].node = reg[b].node \/ reg[b].id = NoId
    PROVE  ListInv(n)'
<1>1. callbacks[n] \in Seq(Entry)
  BY DEF Types
<1>2. \A i \in DOMAIN callbacks[n] : callbacks[n][i].id \in Nat
  <2>1. \A i \in DOMAIN callbacks[n] : callbacks[n][i] \in Entry
    BY <1>1
  <2> QED BY <2>1 DEF Entry
<1>3. CASE callbacks'[n] = << >>
  BY <1>3 DEF ListInv
<1>4. CASE callbacks'[n] = callbacks[n]
  BY <1>2, <1>4 DEF ListInv, NoId
<1> QED BY <1>3, <1>4

(* A callback that stays where it is, unless its node dies. *)
LEMMA CbKeep ==
    ASSUME Types, NEW b \in Cbs, CbInv(b), Lasts,
           reg'[b] = reg[b], ran'[b] = ran[b],
           \A n \in Nodes : nextId'[n] = nextId[n] \/ nextId'[n] = nextId[n] + 1,
           Same(Owing(b)), Same(Pending(b)), One(Registering(b))',
           Listed(b)' => Listed(b),
           \A n \in Nodes : reg[b].node = n /\ Live(n)' /\ Listed(b) => Listed(b)'
    PROVE  CbInv(b)'
<1>1. /\ Some(Owing(b))' <=> Some(Owing(b))
      /\ Some(Pending(b))' <=> Some(Pending(b))
      /\ One(Owing(b))'
  BY DEF Same, CbInv
<1>2. Nowhere(b) => Nowhere(b)'
  BY <1>1 DEF Nowhere
<1>3. Known(reg[b].node) => (reg[b].node \in Nodes => handle'[reg[b].node] # "none")
  BY DEF Known, Lasts
<1>4. ASSUME NEW n \in Nodes, reg[b].node = n, Live(n)', ~Some(Pending(b)),
             reg[b].st \in {"registering", "held"}
      PROVE  Somewhere(b)'
  <2>1. Live(n)
    BY <1>4 DEF Lasts, CbInv, Known
  <2>2. Somewhere(b)
    BY <1>4, <2>1 DEF CbInv
  <2> QED BY <1>1, <1>4, <2>2 DEF Somewhere
<1>5. reg[b].id # NoId => reg[b].node \in Nodes /\ reg[b].id < nextId'[reg[b].node]
  <2> SUFFICES ASSUME reg[b].id # NoId
               PROVE  reg[b].node \in Nodes /\ reg[b].id < nextId'[reg[b].node]
    OBVIOUS
  <2>1. reg[b].node \in Nodes /\ reg[b].id < nextId[reg[b].node]
    BY DEF CbInv
  <2>2. reg[b].id \in Nat /\ nextId[reg[b].node] \in Nat
    BY <2>1 DEF Types, Regs
  <2> QED BY <2>1, <2>2
<1>6. Known(reg[b].node)'
  BY <1>3 DEF CbInv, Known
<1> QED BY <1>1, <1>2, <1>4, <1>5, <1>6 DEF CbInv

(* A future whose sender stays, unless its node dies. *)
LEMMA FutKeep ==
    ASSUME Types, NEW x \in Futs, FutInv(x), Lasts, fut'[x] = fut[x], cancelled' = cancelled,
           One(Asking(x))',
           \A n \in Nodes : x \in senders'[n] <=> x \in senders[n] /\ Live(n)'
    PROVE  FutInv(x)'
<1>1. Known(fut[x])'
  BY DEF FutInv, Known, Lasts
<1>2. ASSUME NEW n \in Nodes
      PROVE  /\ x \in senders'[n] => fut[x] = n /\ Live(n)' /\ ~cancelled[n]
             /\ fut[x] = n /\ Live(n)' /\ ~cancelled[n] => x \in senders'[n]
  BY DEF FutInv, Known, Lasts
<1> QED BY <1>1, <1>2 DEF FutInv

(* A child whose callback stays on its way or on its parent's list, unless one
   of the two dies. *)
LEMMA ChildKeep ==
    ASSUME Types, NEW c \in Children, ChildInv(c), Lasts, parent'[c] = parent[c],
           cancelled' = cancelled, One(Registering(c))', Live(c)' => Live(c),
           OnItsWay(c) => OnItsWay(c)' \/ ~Live(c)' \/ cancelled[c],
           \A n \in Nodes : InList(c, n) /\ Live(n)' => InList(c, n)'
    PROVE  ChildInv(c)'
<1>1. Known(parent[c])'
  BY DEF ChildInv, Known, Lasts
<1>2. ASSUME NEW n \in Nodes, parent[c] = n, Live(c)', ~cancelled[c], ~OnItsWay(c)'
      PROVE  ~cancelled[n] /\ (Live(n)' => InList(c, n)')
  <2>1. ~cancelled[n] /\ (Live(n) => InList(c, n))
    BY <1>2 DEF ChildInv
  <2>2. Live(n)' => Live(n)
    BY <1>2 DEF ChildInv, Known, Lasts
  <2> QED BY <2>1, <2>2
<1> QED BY <1>1, <1>2 DEF ChildInv

(* One of a kind, one of each of its parts. *)
LEMMA OnePart == ASSUME NEW S, NEW T, T \subseteq S, One(S) PROVE One(T)
BY DEF One

(* Steps that change neither lists, flags, tokens nor registrations. *)
LEMMA CallsOnly ==
    ASSUME CancelInv, StacksOK', FramesGood',
           UNCHANGED <<cancelled, nextId, callbacks, senders, handle, parent, reg, fut, ran>>,
           \A n \in Nodes : Live(n)' <=> Live(n),
           \A b \in Cbs : Same(Owing(b)) /\ Same(Pending(b)) /\ One(Registering(b))',
           \A x \in Futs : One(Asking(x))',
           \A c \in Children : /\ One(Registering(c))'
                               /\ OnItsWay(c) => OnItsWay(c)' \/ ~Live(c)' \/ cancelled[c]
    PROVE  CancelInv'
<1>1. Types'
  BY DEF CancelInv, Types, StacksOK
<1>2. Lasts
  BY DEF Lasts
<1>3. \A x : Listed(x)' <=> Listed(x)
  BY DEF Listed, InList
<1>4. \A n \in Nodes : ListInv(n)'
  BY ListKeep DEF CancelInv
<1>5. \A b \in Cbs : CbInv(b)'
  BY <1>2, <1>3, CbKeep DEF CancelInv
<1>6. \A x \in Futs : FutInv(x)'
  <2> SUFFICES ASSUME NEW x \in Futs PROVE FutInv(x)'
    OBVIOUS
  <2>1. FutInv(x) /\ Types
    BY DEF CancelInv
  <2>2. \A n \in Nodes : x \in senders'[n] <=> x \in senders[n] /\ Live(n)'
    BY <2>1 DEF FutInv
  <2> QED BY <1>2, <2>1, <2>2, FutKeep
<1>7. \A c \in Children : ChildInv(c)'
  <2> SUFFICES ASSUME NEW c \in Children PROVE ChildInv(c)'
    OBVIOUS
  <2>1. ChildInv(c) /\ Types /\ c \in Nodes
    BY DEF CancelInv, Nodes
  <2>2. \A n \in Nodes : InList(c, n)' <=> InList(c, n)
    BY DEF InList
  <2> QED BY <1>2, <2>1, <2>2, ChildKeep
<1> QED BY <1>1, <1>4, <1>5, <1>6, <1>7 DEF CancelInv


-----------------------------------------------------------------------------
(* One lemma per action.                                                   *)

(* CancellationTokenSource::cancel is called. *)
LEMMA CallCancelInv ==
    ASSUME CancelInv, NEW t \in Threads, CallCancel(t)
    PROVE  CancelInv'
<1>0. StacksOK /\ FramesGood /\ Root \in Nodes /\ Root \notin Children
  BY CancelAssumption DEF CancelInv, Types, StacksOK, Nodes
<1>1. PICK f \in FrameSet : /\ f = Frame("cancel", Root, None)
                            /\ f.op = "cancel" /\ f.node = Root /\ f.pc = "lock" /\ f.todo = << >>
  BY <1>0, FrameIs
<1>2. Enter(t, f) /\ handle[Root] = "held"
  BY <1>1 DEF CallCancel
<1>3. /\ StacksOK'
      /\ \A x : /\ Adds(OnNode(x), f) /\ Adds(Owing(x), f) /\ Adds(Registering(x), f)
                /\ Adds(Pending(x), f) /\ Adds(Marking(x), f) /\ Adds(Asking(x), f)
  BY <1>0, <1>2, EnterEffect
<1>4. \A x : /\ f \notin Owing(x) /\ f \notin Registering(x) /\ f \notin Pending(x)
             /\ f \notin Asking(x)
             /\ x # Root => f \notin OnNode(x) /\ f \notin Marking(x)
  BY <1>1 DEF OnNode, Owing, Registering, Pending, Marking, Asking
<1>5. UNCHANGED <<cancelled, nextId, callbacks, senders, handle, parent, reg, fut, ran>>
  BY DEF CallCancel
<1>6. FramesGood'
  <2>1. \A e \in FrameSet : GoodFrame(e) => GoodFrame(e)'
    BY <1>5 DEF GoodFrame, Known
  <2>2. GoodFrame(f)'
    BY <1>0, <1>1, <1>2, <1>5 DEF GoodFrame, Known
  <2> QED BY <1>0, <1>2, <2>1, <2>2, EnterGood
<1>7. \A n \in Nodes : Live(n)' <=> Live(n)
  BY <1>0, <1>2, <1>3, <1>4, <1>5, LiveIs DEF Adds
<1>8. \A b \in Cbs : Same(Owing(b)) /\ Same(Pending(b)) /\ One(Registering(b))'
  BY <1>3, <1>4 DEF Adds, Same, CancelInv, CbInv
<1>9. \A x \in Futs : One(Asking(x))'
  BY <1>3, <1>4 DEF Adds, CancelInv, FutInv
<1>10. \A c \in Children : One(Registering(c))' /\ (OnItsWay(c) => OnItsWay(c)')
  BY <1>0, <1>3, <1>4 DEF Adds, CancelInv, ChildInv, OnItsWay
<1> QED BY <1>3, <1>5, <1>6, <1>7, <1>8, <1>9, <1>10, CallsOnly

(* CancellationToken::cancellation is called. *)
LEMMA CallFutureInv ==
    ASSUME CancelInv, NEW t \in Threads, NEW n \in Nodes, NEW x \in Futs, CallFuture(t, n, x)
    PROVE  CancelInv'
<1>0. StacksOK /\ FramesGood
  BY DEF CancelInv, Types, StacksOK
<1>1. PICK f \in FrameSet : /\ f = Frame("future", n, x)
                            /\ f.op = "future" /\ f.node = n /\ f.arg = x
                            /\ f.pc = "lock" /\ f.todo = << >>
  BY <1>0, FrameIs
<1>2. Enter(t, f) /\ handle[n] = "held" /\ fut[x] = None /\ ~InProgress(x)
  BY <1>1 DEF CallFuture
<1>3. /\ StacksOK'
      /\ \A y : /\ Adds(OnNode(y), f) /\ Adds(Owing(y), f) /\ Adds(Registering(y), f)
                /\ Adds(Pending(y), f) /\ Adds(Marking(y), f) /\ Adds(Asking(y), f)
  BY <1>0, <1>2, EnterEffect
<1>4. \A y : /\ f \notin Owing(y) /\ f \notin Registering(y) /\ f \notin Pending(y)
             /\ f \notin Marking(y)
             /\ y # x => f \notin Asking(y)
             /\ y # n => f \notin OnNode(y)
  BY <1>1 DEF OnNode, Owing, Registering, Pending, Marking, Asking
<1>5. UNCHANGED <<cancelled, nextId, callbacks, senders, handle, parent, reg, fut, ran>>
  BY DEF CallFuture
<1>6. FramesGood'
  <2>1. \A e \in FrameSet : GoodFrame(e) => GoodFrame(e)'
    BY <1>5 DEF GoodFrame, Known
  <2>2. GoodFrame(f)'
    BY <1>0, <1>1, <1>2, <1>5 DEF GoodFrame, Known
  <2> QED BY <1>0, <1>2, <2>1, <2>2, EnterGood
<1>7. \A m \in Nodes : Live(m)' <=> Live(m)
  BY <1>0, <1>2, <1>3, <1>4, <1>5, LiveIs DEF Adds
<1>8. \A b \in Cbs : Same(Owing(b)) /\ Same(Pending(b)) /\ One(Registering(b))'
  BY <1>3, <1>4 DEF Adds, Same, CancelInv, CbInv
<1>9. \A y \in Futs : One(Asking(y))'
  <2>1. ~Some(Asking(x))
    <3>1. \A u \in Threads : DOMAIN stack[u] = 1..Len(stack[u])
      BY <1>0 DEF StacksOK
    <3> QED BY <1>2, <3>1 DEF Some, Asking, InProgress
  <2> QED BY <1>3, <1>4, <2>1 DEF Adds, CancelInv, FutInv
<1>10. \A c \in Children : One(Registering(c))' /\ (OnItsWay(c) => OnItsWay(c)')
  BY <1>0, <1>3, <1>4 DEF Adds, CancelInv, ChildInv, OnItsWay
<1> QED BY <1>3, <1>5, <1>6, <1>7, <1>8, <1>9, <1>10, CallsOnly

(* SpinMutex::lock succeeds. *)
LEMMA LockInv ==
    ASSUME CancelInv, NEW t \in Threads, Lock(t)
    PROVE  CancelInv'
<1>0. StacksOK /\ FramesGood
  BY DEF CancelInv, Types, StacksOK
<1>1. PICK h \in FrameSet : h = Top(t) /\ GoodFrame(h) /\ stack[t] # << >> /\ h.pc = "lock"
  BY <1>0, TopGood DEF Lock, At
<1>2. h.todo \in Seq(Callback)
  BY DEF FrameSet
<1>3. PICK g \in FrameSet : g = Goes(h, "body", h.todo) /\ g = [h EXCEPT !.pc = "body"]
  <2>1. Goes(h, "body", h.todo) \in FrameSet
    BY <1>2, GoesOn
  <2>2. [h EXCEPT !.pc = "body"] = Goes(h, "body", h.todo)
    BY <1>2, GoesOn
  <2> QED BY <2>1, <2>2
<1>4. Swaps(t, g)
  BY <1>1, <1>3 DEF Lock, Swaps
<1>5. g.op = h.op /\ g.node = h.node /\ g.arg = h.arg /\ g.pc = "body" /\ g.todo = h.todo
  BY <1>3 DEF Goes
<1>6. StacksOK' /\ \A S : Effect(S, h \in S, g \in S, FALSE)
  BY <1>0, <1>1, <1>4, SwapEffect
<1>7. \A x : /\ h \in OnNode(x) <=> g \in OnNode(x)
             /\ h \in Owing(x) <=> g \in Owing(x)
             /\ h \in Registering(x) <=> g \in Registering(x)
             /\ h \in Pending(x) <=> g \in Pending(x)
             /\ h \in Marking(x) <=> g \in Marking(x)
             /\ h \in Asking(x) <=> g \in Asking(x)
  BY <1>1, <1>5 DEF OnNode, Owing, Registering, Pending, Marking, Asking
<1>8. \A x : /\ Same(OnNode(x)) /\ Same(Owing(x)) /\ Same(Registering(x))
             /\ Same(Pending(x)) /\ Same(Marking(x)) /\ Same(Asking(x))
  <2>1. \A S : (h \in S <=> g \in S) => Same(S)
    BY <1>6 DEF Effect, Same
  <2> QED BY <1>7, <2>1
<1>9. UNCHANGED <<cancelled, nextId, callbacks, senders, handle, parent, reg, fut, ran>>
  BY DEF Lock
<1>10. FramesGood'
  <2>1. \A e \in FrameSet : GoodFrame(e) => GoodFrame(e)'
    BY <1>9 DEF GoodFrame, Known
  <2>2. GoodFrame(g)
    BY <1>1, <1>5 DEF GoodFrame
  <2>3. ~Some({})
    BY DEF Some
  <2> QED BY <1>0, <1>1, <1>4, <2>1, <2>2, <2>3, SwapGood
<1>11. \A n \in Nodes : Live(n)' <=> Live(n)
  BY <1>0, <1>6, <1>8, <1>9, LiveIs DEF Same
<1>12. \A b \in Cbs : One(Registering(b))'
  BY <1>8 DEF Same, CancelInv, CbInv
<1>13. \A x \in Futs : One(Asking(x))'
  BY <1>8 DEF Same, CancelInv, FutInv
<1>14. \A c \in Children : One(Registering(c))' /\ (OnItsWay(c) => OnItsWay(c)')
  BY <1>8 DEF Same, CancelInv, ChildInv, OnItsWay
<1> QED BY <1>6, <1>8, <1>9, <1>10, <1>11, <1>12, <1>13, <1>14, CallsOnly


(* CancellationToken::register is called. *)
LEMMA CallRegisterInv ==
    ASSUME CancelInv, NEW t \in Threads, NEW n \in Nodes, NEW b \in Cbs, CallRegister(t, n, b)
    PROVE  CancelInv'
<1>0. StacksOK /\ FramesGood /\ Types /\ b \notin Children /\ b \in Callback
  BY CancelAssumption DEF CancelInv, Types, StacksOK, Callback
<1>1. PICK f \in FrameSet : /\ f = Frame("register", n, b)
                            /\ f.op = "register" /\ f.node = n /\ f.arg = b
                            /\ f.pc = "lock" /\ f.todo = << >>
  BY <1>0, FrameIs
<1>2. Enter(t, f) /\ handle[n] = "held" /\ reg[b].st = "new"
  BY <1>1 DEF CallRegister
<1>3. /\ StacksOK'
      /\ \A y : /\ Adds(OnNode(y), f) /\ Adds(Owing(y), f) /\ Adds(Registering(y), f)
                /\ Adds(Pending(y), f) /\ Adds(Marking(y), f) /\ Adds(Asking(y), f)
  BY <1>0, <1>2, EnterEffect
<1>4. /\ f \in Pending(b)
      /\ \A y : /\ f \notin Owing(y) /\ f \notin Marking(y) /\ f \notin Asking(y)
                /\ y # b => f \notin Registering(y) /\ f \notin Pending(y)
                /\ y # n => f \notin OnNode(y)
  BY <1>1 DEF OnNode, Owing, Registering, Pending, Marking, Asking
<1>5. UNCHANGED <<cancelled, nextId, callbacks, senders, handle, parent, fut, ran>>
  BY DEF CallRegister
<1>6. /\ reg' \in [Cbs -> Regs] /\ \A d \in Cbs : d # b => reg'[d] = reg[d]
      /\ reg'[b].st = "registering" /\ reg'[b].node = n /\ reg'[b].id = reg[b].id
  BY <1>0 DEF CallRegister, Types, Regs
<1>7. Types'
  BY <1>0, <1>3, <1>5, <1>6 DEF Types, StacksOK
<1>8. FramesGood'
  <2>1. \A e \in FrameSet : GoodFrame(e) => GoodFrame(e)'
    BY <1>2, <1>5, <1>6 DEF GoodFrame, Known
  <2>2. GoodFrame(f)'
    BY <1>0, <1>1, <1>2, <1>5, <1>6 DEF GoodFrame, Known
  <2> QED BY <1>0, <1>2, <2>1, <2>2, EnterGood
<1>9. \A m \in Nodes : Live(m)' <=> Live(m)
  BY <1>0, <1>2, <1>3, <1>4, <1>5, LiveIs DEF Adds
<1>10. Lasts
  BY <1>5, <1>9 DEF Lasts
<1>11. reg[b].id = NoId /\ Nowhere(b)
  BY <1>2 DEF CancelInv, CbInv
<1>12. \A m \in Nodes : ListInv(m)'
  <2> SUFFICES ASSUME NEW m \in Nodes PROVE ListInv(m)'
    OBVIOUS
  <2> QED BY <1>5, <1>6, <1>11, ListKeep DEF CancelInv
<1>13. \A y : Listed(y)' <=> Listed(y)
  BY <1>5 DEF Listed, InList
<1>14. \A d \in Cbs : d # b => CbInv(d)'
  <2> SUFFICES ASSUME NEW d \in Cbs, d # b PROVE CbInv(d)'
    OBVIOUS
  <2>1. CbInv(d)
    BY DEF CancelInv
  <2>2. Same(Owing(d)) /\ Same(Pending(d)) /\ One(Registering(d))'
    BY <1>3, <1>4, <2>1 DEF Adds, Same, CbInv
  <2> QED BY <1>0, <1>5, <1>6, <1>10, <1>13, <2>1, <2>2, CbKeep
<1>15. CbInv(b)'
  <2>1. CbInv(b)
    BY DEF CancelInv
  <2>2. ~Some(Registering(b))
    BY <1>0, <1>2, KindGood DEF Registering, GoodFrame
  <2>3. One(Registering(b))' /\ One(Owing(b))' /\ (Some(Owing(b))' <=> Some(Owing(b))) /\ Some(Pending(b))'
    BY <1>3, <1>4, <2>1, <2>2 DEF Adds, CbInv
  <2>4. Nowhere(b)'
    BY <1>5, <1>11, <1>13, <2>3 DEF Nowhere
  <2>5. Known(reg[b].node)'
    BY <1>2, <1>5, <1>6 DEF Known
  <2> QED BY <1>6, <1>11, <2>3, <2>4, <2>5 DEF CbInv, Nowhere
<1>16. \A x \in Futs : FutInv(x)'
  <2> SUFFICES ASSUME NEW x \in Futs PROVE FutInv(x)'
    OBVIOUS
  <2>1. FutInv(x)
    BY DEF CancelInv
  <2>2. \A m \in Nodes : x \in senders'[m] <=> x \in senders[m] /\ Live(m)'
    BY <1>5, <1>9, <2>1 DEF FutInv
  <2>3. One(Asking(x))'
    BY <1>3, <1>4, <2>1 DEF Adds, FutInv
  <2> QED BY <1>0, <1>5, <1>10, <2>1, <2>2, <2>3, FutKeep
<1>17. \A c \in Children : ChildInv(c)'
  <2> SUFFICES ASSUME NEW c \in Children PROVE ChildInv(c)'
    OBVIOUS
  <2>1. ChildInv(c) /\ c \in Nodes /\ c # b
    BY <1>0 DEF CancelInv, Nodes
  <2>2. \A m \in Nodes : InList(c, m)' <=> InList(c, m)
    BY <1>5 DEF InList
  <2>3. One(Registering(c))' /\ (OnItsWay(c) => OnItsWay(c)')
    BY <1>3, <1>4, <2>1 DEF Adds, ChildInv, OnItsWay
  <2> QED BY <1>0, <1>5, <1>9, <1>10, <2>1, <2>2, <2>3, ChildKeep
<1> QED BY <1>7, <1>8, <1>12, <1>14, <1>15, <1>16, <1>17 DEF CancelInv

(* CancellationToken::spawn_child_token is called. *)
LEMMA CallSpawnInv ==
    ASSUME CancelInv, NEW t \in Threads, NEW n \in Nodes, NEW c \in Children, CallSpawn(t, n, c)
    PROVE  CancelInv'
<1>0. StacksOK /\ FramesGood /\ Types /\ c \notin Cbs /\ c \in Callback /\ c \in Nodes
  BY CancelAssumption DEF CancelInv, Types, StacksOK, Callback, Nodes
<1>1. PICK f \in FrameSet : /\ f = Frame("register", n, c)
                            /\ f.op = "register" /\ f.node = n /\ f.arg = c
                            /\ f.pc = "lock" /\ f.todo = << >>
  BY <1>0, FrameIs
<1>2. Enter(t, f) /\ handle[n] = "held" /\ handle[c] = "none" /\ c # n
  BY <1>1 DEF CallSpawn
<1>3. /\ StacksOK'
      /\ \A y : /\ Adds(OnNode(y), f) /\ Adds(Owing(y), f) /\ Adds(Registering(y), f)
                /\ Adds(Pending(y), f) /\ Adds(Marking(y), f) /\ Adds(Asking(y), f)
  BY <1>0, <1>2, EnterEffect
<1>4. /\ f \in Pending(c)
      /\ \A y : /\ f \notin Owing(y) /\ f \notin Marking(y) /\ f \notin Asking(y)
                /\ y # c => f \notin Registering(y) /\ f \notin Pending(y)
                /\ y # n => f \notin OnNode(y)
  BY <1>1 DEF OnNode, Owing, Registering, Pending, Marking, Asking
<1>5. UNCHANGED <<cancelled, nextId, callbacks, senders, reg, fut, ran>>
  BY DEF CallSpawn
<1>6. /\ handle' \in [Nodes -> {"none", "building", "held", "gone"}]
      /\ parent' \in [Children -> Nodes \cup {None}]
      /\ handle'[c] = "building" /\ parent'[c] = n
      /\ \A m \in Nodes : m # c => handle'[m] = handle[m]
      /\ \A d \in Children : d # c => parent'[d] = parent[d]
  BY <1>0 DEF CallSpawn, Types
<1>7. Types'
  BY <1>0, <1>3, <1>5, <1>6 DEF Types, StacksOK
<1>8. FramesGood'
  <2>1. ASSUME NEW e \in FrameSet, GoodFrame(e) PROVE GoodFrame(e)'
    <3>1. Known(e.node)'
      BY <1>2, <1>6, <2>1 DEF GoodFrame, Known
    <3> QED BY <1>2, <1>5, <1>6, <2>1, <3>1 DEF GoodFrame, Nodes
  <2>2. GoodFrame(f)'
    BY <1>0, <1>1, <1>2, <1>5, <1>6 DEF GoodFrame, Known
  <2> QED BY <1>0, <1>2, <2>1, <2>2, EnterGood
<1>9. \A m \in Nodes : m # c => (Live(m)' <=> Live(m))
  BY <1>0, <1>2, <1>3, <1>4, <1>6, LiveIs DEF Adds
<1>10. Lasts
  BY <1>2, <1>6, <1>9 DEF Lasts
<1>12. \A m \in Nodes : ListInv(m)'
  <2> SUFFICES ASSUME NEW m \in Nodes PROVE ListInv(m)'
    OBVIOUS
  <2> QED BY <1>0, <1>5, ListKeep DEF CancelInv
<1>13. \A y : Listed(y)' <=> Listed(y)
  BY <1>5 DEF Listed, InList
<1>14. \A d \in Cbs : CbInv(d)'
  <2> SUFFICES ASSUME NEW d \in Cbs PROVE CbInv(d)'
    OBVIOUS
  <2>1. CbInv(d) /\ d # c
    BY <1>0 DEF CancelInv
  <2>2. Same(Owing(d)) /\ Same(Pending(d)) /\ One(Registering(d))'
    BY <1>3, <1>4, <2>1 DEF Adds, Same, CbInv
  <2> QED BY <1>0, <1>5, <1>10, <1>13, <2>1, <2>2, CbKeep
<1>16. \A x \in Futs : FutInv(x)'
  <2> SUFFICES ASSUME NEW x \in Futs PROVE FutInv(x)'
    OBVIOUS
  <2>1. FutInv(x) /\ (fut[x] # c)
    BY <1>0, <1>2 DEF CancelInv, FutInv, Known
  <2>2. \A m \in Nodes : x \in senders'[m] <=> x \in senders[m] /\ Live(m)'
    BY <1>5, <1>9, <2>1 DEF FutInv
  <2>3. One(Asking(x))'
    BY <1>3, <1>4, <2>1 DEF Adds, FutInv
  <2> QED BY <1>0, <1>5, <1>10, <2>1, <2>2, <2>3, FutKeep
<1>17. \A d \in Children : d # c => ChildInv(d)'
  <2> SUFFICES ASSUME NEW d \in Children, d # c PROVE ChildInv(d)'
    OBVIOUS
  <2>1. ChildInv(d) /\ d \in Nodes
    BY <1>0 DEF CancelInv, Nodes
  <2>2. \A m \in Nodes : InList(d, m)' <=> InList(d, m)
    BY <1>5 DEF InList
  <2>3. One(Registering(d))' /\ (OnItsWay(d) => OnItsWay(d)')
    BY <1>3, <1>4, <2>1 DEF Adds, ChildInv, OnItsWay
  <2> QED BY <1>0, <1>5, <1>6, <1>9, <1>10, <2>1, <2>2, <2>3, ChildKeep
<1>18. ChildInv(c)'
  <2>1. ~Some(Registering(c))
    BY <1>0, <1>2, KindGood DEF Registering, GoodFrame
  <2>2. One(Registering(c))' /\ OnItsWay(c)'
    BY <1>3, <1>4, <2>1 DEF Adds, CancelInv, ChildInv, OnItsWay
  <2>3. Known(parent[c])'
    BY <1>2, <1>6 DEF Known
  <2> QED BY <2>2, <2>3 DEF ChildInv
<1> QED BY <1>7, <1>8, <1>12, <1>14, <1>16, <1>17, <1>18 DEF CancelInv


(* A registration leaves the caller's hands, and no list, token or future
   changes. *)
LEMMA DisposeInv ==
    ASSUME CancelInv, NEW b \in Cbs, reg[b].st = "held", NEW st \in {"disposing", "disposed"},
           reg' = [reg EXCEPT ![b].st = st],
           UNCHANGED <<cancelled, nextId, callbacks, senders, handle, parent, fut, ran>>,
           StacksOK', FramesGood', \A n \in Nodes : Live(n)' <=> Live(n),
           \A x : /\ Same(Owing(x)) /\ Same(Registering(x)) /\ Same(Pending(x))
                  /\ Same(Marking(x)) /\ Same(Asking(x))
    PROVE  CancelInv'
<1>0. StacksOK /\ FramesGood /\ Types
  BY DEF CancelInv, Types, StacksOK
<1>1. /\ reg' \in [Cbs -> Regs] /\ \A d \in Cbs : d # b => reg'[d] = reg[d]
      /\ reg'[b].st = st /\ reg'[b].node = reg[b].node /\ reg'[b].id = reg[b].id
  BY <1>0 DEF Types, Regs
<1>2. Types'
  BY <1>0, <1>1 DEF Types, StacksOK
<1>3. Lasts
  BY DEF Lasts
<1>4. \A n \in Nodes : ListInv(n)'
  BY <1>1, ListKeep DEF CancelInv
<1>5. \A x : Listed(x)' <=> Listed(x)
  BY DEF Listed, InList
<1>6. \A d \in Cbs : d # b => CbInv(d)'
  <2> SUFFICES ASSUME NEW d \in Cbs, d # b PROVE CbInv(d)'
    OBVIOUS
  <2>1. CbInv(d)
    BY DEF CancelInv
  <2>2. One(Registering(d))'
    BY <2>1 DEF Same, CbInv
  <2> QED BY <1>0, <1>1, <1>3, <1>5, <2>1, <2>2, CbKeep
<1>7. CbInv(b)'
  <2>1. CbInv(b)
    BY DEF CancelInv
  <2>2. ~Some(Pending(b)) /\ ~Some(Pending(b))'
    <3>1. ~Some(Pending(b))
      BY <1>0, KindGood DEF Pending, GoodFrame
    <3> QED BY <3>1 DEF Same
  <2>3. Known(reg[b].node)'
    BY <1>1, <2>1 DEF CbInv, Known
  <2>4. /\ Some(Owing(b))' <=> Some(Owing(b))
        /\ One(Owing(b))' /\ One(Registering(b))'
    BY <2>1 DEF CbInv, Same
  <2> QED BY <1>1, <1>5, <2>1, <2>2, <2>3, <2>4 DEF CbInv
<1>8. \A x \in Futs : FutInv(x)'
  <2> SUFFICES ASSUME NEW x \in Futs PROVE FutInv(x)'
    OBVIOUS
  <2>1. FutInv(x)
    BY DEF CancelInv
  <2>2. One(Asking(x))' /\ \A n \in Nodes : x \in senders'[n] <=> x \in senders[n] /\ Live(n)'
    BY <2>1 DEF FutInv, Same
  <2> QED BY <1>0, <1>3, <2>1, <2>2, FutKeep
<1>9. \A c \in Children : ChildInv(c)'
  <2> SUFFICES ASSUME NEW c \in Children PROVE ChildInv(c)'
    OBVIOUS
  <2>1. ChildInv(c) /\ c \in Nodes
    BY DEF CancelInv, Nodes
  <2>2. \A n \in Nodes : InList(c, n)' <=> InList(c, n)
    BY DEF InList
  <2>3. One(Registering(c))' /\ (OnItsWay(c) => OnItsWay(c)')
    BY <2>1 DEF ChildInv, OnItsWay, Same
  <2> QED BY <1>0, <1>3, <2>1, <2>2, <2>3, ChildKeep
<1> QED BY <1>2, <1>4, <1>6, <1>7, <1>8, <1>9 DEF CancelInv

(* A registration is dropped or disposed of. *)
LEMMA CallDisposeInv ==
    ASSUME CancelInv, NEW t \in Threads, NEW b \in Cbs, CallDispose(t, b)
    PROVE  CancelInv'
<1>0. StacksOK /\ FramesGood /\ Types /\ b \in Callback
  BY DEF CancelInv, Types, StacksOK, Callback
<1>1. reg[b].st = "held"
  BY DEF CallDispose
<1>2. UNCHANGED <<cancelled, nextId, callbacks, senders, handle, parent, fut, ran>>
  BY DEF CallDispose
<1>3. PICK n \in Nodes : n = reg[b].node /\ handle[n] # "none"
  BY <1>1 DEF CancelInv, CbInv, Known
<1>4. ASSUME NEW st \in {"disposing", "disposed"}, reg' = [reg EXCEPT ![b].st = st],
             NEW e \in FrameSet, GoodFrame(e)
      PROVE  GoodFrame(e)'
  <2>1. /\ \A d \in Cbs : d # b => reg'[d] = reg[d]
        /\ reg'[b].st = st /\ reg'[b].node = reg[b].node /\ reg'[b].id = reg[b].id
    BY <1>0, <1>4 DEF Types, Regs
  <2> QED BY <1>1, <1>2, <1>4, <2>1 DEF GoodFrame, Known
<1>5. CASE reg[b].id # NoId /\ Alive(handle, stack, reg[b].node)
  <2>1. PICK f \in FrameSet : /\ f = Frame("unregister", n, b)
                              /\ f.op = "unregister" /\ f.node = n /\ f.arg = b
                              /\ f.pc = "lock" /\ f.todo = << >>
    BY <1>0, FrameIs
  <2>2. Enter(t, f) /\ reg' = [reg EXCEPT ![b].st = "disposing"] /\ Live(n)
    BY <1>3, <1>5, <2>1 DEF CallDispose, Live
  <2>3. /\ StacksOK'
        /\ \A y : /\ Adds(OnNode(y), f) /\ Adds(Owing(y), f) /\ Adds(Registering(y), f)
                  /\ Adds(Pending(y), f) /\ Adds(Marking(y), f) /\ Adds(Asking(y), f)
    BY <1>0, <2>2, EnterEffect
  <2>4. \A y : /\ f \notin Owing(y) /\ f \notin Marking(y) /\ f \notin Asking(y)
               /\ f \notin Registering(y) /\ f \notin Pending(y)
               /\ y # n => f \notin OnNode(y)
    BY <2>1 DEF OnNode, Owing, Registering, Pending, Marking, Asking
  <2>5. FramesGood'
    <3>1. reg'[b].st = "disposing" /\ reg'[b].node = reg[b].node
      BY <1>0, <2>2 DEF Types, Regs
    <3>2. GoodFrame(f)'
      BY <1>2, <1>3, <2>1, <3>1 DEF GoodFrame, Known
    <3>3. \A e \in FrameSet : GoodFrame(e) => GoodFrame(e)'
      BY <1>4, <2>2
    <3> QED BY <1>0, <2>2, <3>2, <3>3, EnterGood
  <2>6. \A m \in Nodes : Live(m)' <=> Live(m)
    BY <1>0, <1>2, <2>2, <2>3, <2>4, LiveIs DEF Adds
  <2>7. \A x : /\ Same(Owing(x)) /\ Same(Registering(x)) /\ Same(Pending(x))
               /\ Same(Marking(x)) /\ Same(Asking(x))
    BY <2>3, <2>4 DEF Adds, Same
  <2> QED BY <1>1, <1>2, <2>2, <2>3, <2>5, <2>6, <2>7, DisposeInv
<1>6. CASE ~(reg[b].id # NoId /\ Alive(handle, stack, reg[b].node))
  <2>1. reg' = [reg EXCEPT ![b].st = "disposed"] /\ stack' = stack
    BY <1>6 DEF CallDispose
  <2>2. StacksOK' /\ \A S : Same(S)
    BY <1>0, <2>1 DEF StacksOK, Same, Some, One
  <2>3. FramesGood'
    BY <1>0, <1>4, <2>1, StillGood
  <2>4. \A m \in Nodes : Live(m)' <=> Live(m)
    BY <1>0, <1>2, <2>2, LiveIs DEF Same
  <2> QED BY <1>1, <1>2, <2>1, <2>2, <2>3, <2>4, DisposeInv
<1> QED BY <1>5, <1>6

(* What becomes of the lists when nodes die. *)
Collects == /\ callbacks' = [n \in Nodes |-> IF Live(n)' THEN callbacks[n] ELSE << >>]
            /\ senders' = [n \in Nodes |-> IF Live(n)' THEN senders[n] ELSE {}]

(* Nothing is added, and a live node keeps what it has. *)
LEMMA Collected ==
    ASSUME CancelInv, Collects
    PROVE  /\ callbacks' \in [Nodes -> Seq(Entry)] /\ senders' \in [Nodes -> SUBSET Futs]
           /\ \A n \in Nodes : callbacks'[n] = callbacks[n] \/ callbacks'[n] = << >>
           /\ \A x : Listed(x)' => Listed(x)
           /\ \A x : \A n \in Nodes : InList(x, n) /\ Live(n)' => InList(x, n)'
           /\ \A b \in Cbs : \A n \in Nodes : reg[b].node = n /\ Live(n)' /\ Listed(b) => Listed(b)'
           /\ \A x : \A n \in Nodes : x \in senders'[n] <=> x \in senders[n] /\ Live(n)'
<1>1. /\ callbacks' \in [Nodes -> Seq(Entry)] /\ senders' \in [Nodes -> SUBSET Futs]
      /\ \A n \in Nodes : callbacks'[n] = IF Live(n)' THEN callbacks[n] ELSE << >>
      /\ \A n \in Nodes : senders'[n] = IF Live(n)' THEN senders[n] ELSE {}
  <2>1. /\ \A n \in Nodes : callbacks[n] \in Seq(Entry) /\ senders[n] \in SUBSET Futs
        /\ << >> \in Seq(Entry)
    BY DEF CancelInv, Types
  <2> QED BY <2>1 DEF Collects
<1>2. \A x : \A n \in Nodes : InList(x, n)' => InList(x, n)
  BY <1>1 DEF InList
<1>3. \A x : \A n \in Nodes : InList(x, n) /\ Live(n)' => InList(x, n)'
  BY <1>1 DEF InList
<1>4. \A b \in Cbs : \A n \in Nodes : InList(b, n) => reg[b].node = n
  BY DEF CancelInv, ListInv, InList
<1> QED BY <1>1, <1>2, <1>3, <1>4 DEF Listed


(* The last token of a node goes. *)
LEMMA DropHandlesInv ==
    ASSUME CancelInv, NEW n \in Nodes, DropHandles(n)
    PROVE  CancelInv'
<1>0. StacksOK /\ FramesGood /\ Types
  BY DEF CancelInv, Types, StacksOK
<1>1. UNCHANGED <<cancelled, nextId, parent, reg, fut, ran, stack>> /\ handle[n] = "held"
  BY DEF DropHandles
<1>2. /\ handle' \in [Nodes -> {"none", "building", "held", "gone"}]
      /\ handle'[n] = "gone"
      /\ \A m \in Nodes : m # n => handle'[m] = handle[m]
  BY <1>0 DEF DropHandles, Types
<1>3. Collects
  BY <1>1 DEF DropHandles, Collect, Collects, Live
<1>4. StacksOK' /\ \A S : Same(S)
  BY <1>0, <1>1 DEF StacksOK, Same, Some, One
<1>5. /\ callbacks' \in [Nodes -> Seq(Entry)] /\ senders' \in [Nodes -> SUBSET Futs]
      /\ \A m \in Nodes : callbacks'[m] = callbacks[m] \/ callbacks'[m] = << >>
      /\ \A x : Listed(x)' => Listed(x)
      /\ \A x : \A m \in Nodes : InList(x, m) /\ Live(m)' => InList(x, m)'
      /\ \A b \in Cbs : \A m \in Nodes : reg[b].node = m /\ Live(m)' /\ Listed(b) => Listed(b)'
      /\ \A x : \A m \in Nodes : x \in senders'[m] <=> x \in senders[m] /\ Live(m)'
  BY <1>3, Collected
<1>6. Types'
  BY <1>0, <1>1, <1>2, <1>4, <1>5 DEF Types, StacksOK
<1>7. FramesGood'
  <2>1. \A e \in FrameSet : GoodFrame(e) => GoodFrame(e)'
    BY <1>1, <1>2 DEF GoodFrame, Known, Nodes
  <2> QED BY <1>0, <1>1, <2>1, StillGood
<1>8. \A m \in Nodes : Live(m)' => Live(m)
  BY <1>0, <1>1, <1>2, <1>4, LiveIs DEF Same
<1>9. Lasts
  BY <1>2, <1>8 DEF Lasts
<1>10. \A m \in Nodes : ListInv(m)'
  BY <1>0, <1>1, <1>5, ListKeep DEF CancelInv
<1>11. \A b \in Cbs : CbInv(b)'
  <2> SUFFICES ASSUME NEW b \in Cbs PROVE CbInv(b)'
    OBVIOUS
  <2>1. CbInv(b) /\ One(Registering(b))'
    BY <1>4 DEF CancelInv, CbInv, Same
  <2> QED BY <1>0, <1>1, <1>4, <1>5, <1>9, <2>1, CbKeep
<1>12. \A x \in Futs : FutInv(x)'
  <2> SUFFICES ASSUME NEW x \in Futs PROVE FutInv(x)'
    OBVIOUS
  <2>1. FutInv(x) /\ One(Asking(x))'
    BY <1>4 DEF CancelInv, FutInv, Same
  <2> QED BY <1>0, <1>1, <1>5, <1>9, <2>1, FutKeep
<1>13. \A c \in Children : ChildInv(c)'
  <2> SUFFICES ASSUME NEW c \in Children PROVE ChildInv(c)'
    OBVIOUS
  <2>1. ChildInv(c) /\ c \in Nodes
    BY DEF CancelInv, Nodes
  <2>2. One(Registering(c))' /\ (OnItsWay(c) => OnItsWay(c)')
    BY <1>4, <2>1 DEF ChildInv, OnItsWay, Same
  <2> QED BY <1>0, <1>1, <1>5, <1>8, <1>9, <2>1, <2>2, ChildKeep
<1> QED BY <1>6, <1>7, <1>10, <1>11, <1>12, <1>13 DEF CancelInv

(* The innermost call h of t leaves its critical section as g, with what it has
   to run. *)
Leaves(t, op, todo, h, g) ==
    /\ h = Top(t) /\ GoodFrame(h) /\ Some({h})
    /\ h.op = op /\ h.pc = "body" /\ h.todo = << >>
    /\ g.op = op /\ g.node = h.node /\ g.arg = h.arg /\ g.pc = "run" /\ g.todo = todo
    /\ Swaps(t, g)

(* Every critical section ends in this way. *)
LEMMA BodyStep ==
    ASSUME StacksOK, FramesGood, NEW t \in Threads, NEW op, Critical(t, op),
           NEW todo \in Seq(Callback), Continue(t, "run", todo)
    PROVE  \E h, g \in FrameSet : Leaves(t, op, todo, h, g)
<1>1. PICK h \in FrameSet : h = Top(t) /\ GoodFrame(h) /\ Some({h}) /\ stack[t] # << >>
  BY TopGood DEF Critical, At
<1>2. h.op = op /\ h.pc = "body" /\ h.todo = << >>
  BY <1>1 DEF Critical, At, GoodFrame
<1>3. PICK g \in FrameSet : g = Goes(h, "run", todo) /\ g = [h EXCEPT !.pc = "run", !.todo = todo]
  <2>1. Goes(h, "run", todo) \in FrameSet
    BY GoesOn
  <2>2. [h EXCEPT !.pc = "run", !.todo = todo] = Goes(h, "run", todo)
    BY GoesOn
  <2> QED BY <2>1, <2>2
<1>4. g.op = op /\ g.node = h.node /\ g.arg = h.arg /\ g.pc = "run" /\ g.todo = todo
  BY <1>2, <1>3 DEF Goes
<1>5. Swaps(t, g)
  BY <1>1, <1>3 DEF Continue, Swaps
<1> QED BY <1>1, <1>2, <1>4, <1>5 DEF Leaves


(* Inner::cancel under the lock. *)
LEMMA CancelBodyInv ==
    ASSUME CancelInv, NEW t \in Threads, CancelBody(t)
    PROVE  CancelInv'
<1>0. StacksOK /\ FramesGood /\ Types /\ Critical(t, "cancel") /\ MarkCancelled(t)
  BY DEF CancelInv, Types, StacksOK, CancelBody
<1>1. UNCHANGED <<nextId, handle, parent, reg, fut, ran>>
  BY DEF CancelBody
<1>2. PICK todo \in Seq(Callback) :
         /\ Continue(t, "run", todo)
         /\ cancelled[Top(t).node] => todo = << >>
         /\ ~cancelled[Top(t).node] =>
               todo = [i \in DOMAIN callbacks[Top(t).node] |-> callbacks[Top(t).node][i].cb]
  <2>1. PICK h \in FrameSet : h = Top(t) /\ GoodFrame(h) /\ h.op = "cancel"
    BY <1>0, TopGood DEF Critical, At
  <2>2. callbacks[h.node] \in Seq(Entry)
    BY <1>0, <2>1 DEF GoodFrame, Types
  <2>3. PICK s \in Seq(Entry) : s = callbacks[h.node]
    BY <2>2
  <2>4. \A i \in DOMAIN s : s[i].cb \in Callback
    <3>1. \A i \in DOMAIN s : s[i] \in Entry
      OBVIOUS
    <3> QED BY <3>1 DEF Entry
  <2>5. [i \in DOMAIN s |-> s[i].cb] \in Seq(Callback)
    <3>1. DOMAIN s = 1..Len(s) /\ Len(s) \in Nat
      OBVIOUS
    <3>2. [i \in 1..Len(s) |-> s[i].cb] \in [1..Len(s) -> Callback]
      BY <2>4, <3>1
    <3> QED BY <3>1, <3>2
  <2>6. CASE cancelled[Top(t).node]
    <3>1. << >> \in Seq(Callback) /\ Continue(t, "run", << >>)
      BY <1>0, <2>6 DEF MarkCancelled
    <3> QED BY <2>6, <3>1
  <2>7. CASE ~cancelled[Top(t).node]
    <3>1. Continue(t, "run", [i \in DOMAIN s |-> s[i].cb])
      BY <1>0, <2>1, <2>3, <2>7 DEF MarkCancelled
    <3> QED BY <2>1, <2>3, <2>5, <2>7, <3>1
  <2> QED BY <2>6, <2>7
<1>3. \E h, g \in FrameSet : Leaves(t, "cancel", todo, h, g)
  BY <1>0, <1>2, BodyStep
<1>4. PICK h \in FrameSet, g \in FrameSet :
         /\ h = Top(t) /\ GoodFrame(h) /\ Some({h})
         /\ h.op = "cancel" /\ h.pc = "body" /\ h.todo = << >>
         /\ g.op = "cancel" /\ g.node = h.node /\ g.arg = h.arg /\ g.pc = "run" /\ g.todo = todo
         /\ Swaps(t, g)
  BY <1>3 DEF Leaves
<1>5. PICK n \in Nodes : n = h.node /\ handle[n] # "none"
  BY <1>4 DEF GoodFrame, Known
<1>6. StacksOK' /\ \A S : Effect(S, h \in S, g \in S, FALSE)
  BY <1>0, <1>4, SwapEffect
<1>7. \A x : /\ h \in OnNode(x) <=> g \in OnNode(x)
             /\ h \notin Registering(x) /\ g \notin Registering(x)
             /\ h \notin Pending(x) /\ g \notin Pending(x)
             /\ h \notin Asking(x) /\ g \notin Asking(x)
             /\ h \notin Owing(x) /\ g \notin Marking(x)
             /\ x # n => h \notin Marking(x)
             /\ g \in Owing(x) <=> \E j \in DOMAIN todo : todo[j] = x
  BY <1>4, <1>5 DEF OnNode, Owing, Registering, Pending, Marking, Asking
<1>8. \A x : /\ Same(OnNode(x)) /\ Same(Registering(x)) /\ Same(Pending(x)) /\ Same(Asking(x))
             /\ x # n => Same(Marking(x))
             /\ g \notin Owing(x) => Same(Owing(x))
             /\ g \in Owing(x) => Some(Owing(x))'
             /\ g \in Owing(x) /\ One(Owing(x)) /\ ~Some(Owing(x)) => One(Owing(x))'
             /\ Some(Owing(x)) => Some(Owing(x))'
  <2>1. \A S : (h \in S <=> g \in S) => Same(S)
    BY <1>6 DEF Effect, Same
  <2>2. \A x : /\ g \in Owing(x) => Some(Owing(x))'
               /\ g \in Owing(x) /\ One(Owing(x)) /\ ~Some(Owing(x)) => One(Owing(x))'
               /\ Some(Owing(x)) => Some(Owing(x))'
    BY <1>6, <1>7 DEF Effect
  <2> QED BY <1>7, <2>1, <2>2
<1>9. \A m \in Nodes : Live(m)' <=> Live(m)
  BY <1>0, <1>1, <1>6, <1>8, LiveIs DEF Same
<1>10. Live(n)
  <2>1. h \in OnNode(n)
    BY <1>5 DEF OnNode
  <2>2. Some(OnNode(n))
    BY <1>6, <2>1 DEF Effect
  <2> QED BY <1>0, <2>2, LiveIs
<1>11. \A b \in Cbs \cup Children : One(Registering(b))'
  BY <1>8 DEF Same, CancelInv, CbInv, ChildInv
<1>12. \A x \in Futs : One(Asking(x))'
  BY <1>8 DEF Same, CancelInv, FutInv
<1>13. CASE cancelled[n]
  <2>1. todo = << >> /\ UNCHANGED <<cancelled, senders, callbacks>>
    BY <1>0, <1>2, <1>4, <1>5, <1>13 DEF MarkCancelled
  <2>2. \A x : g \notin Owing(x)
    BY <1>7, <2>1
  <2>3. FramesGood'
    <3>1. \A e \in FrameSet : GoodFrame(e) => GoodFrame(e)'
      BY <1>1 DEF GoodFrame, Known
    <3>2. GoodFrame(g)
      BY <1>4, <2>1 DEF GoodFrame
    <3>3. ~Some({})
      BY DEF Some
    <3> QED BY <1>0, <1>4, <3>1, <3>2, <3>3, SwapGood
  <2>4. \A b \in Cbs : Same(Owing(b)) /\ Same(Pending(b)) /\ One(Registering(b))'
    BY <1>8, <1>11, <2>2
  <2>5. \A c \in Children : /\ One(Registering(c))'
                            /\ OnItsWay(c) => OnItsWay(c)' \/ cancelled[c]
    BY <1>8, <1>11, <1>13, <2>2 DEF OnItsWay, Same
  <2> QED BY <1>1, <1>6, <1>9, <1>12, <2>1, <2>3, <2>4, <2>5, CallsOnly
<1>14. CASE ~cancelled[n]
  <2>1. /\ cancelled' = [cancelled EXCEPT ![n] = TRUE]
        /\ senders' = [senders EXCEPT ![n] = {}]
        /\ callbacks' = [callbacks EXCEPT ![n] = << >>]
    BY <1>0, <1>4, <1>5, <1>14 DEF MarkCancelled
  <2>2. todo = [i \in DOMAIN callbacks[n] |-> callbacks[n][i].cb]
    BY <1>2, <1>4, <1>5, <1>14
  <2>3. \A x : g \in Owing(x) <=> InList(x, n)
    BY <1>7, <2>2 DEF InList
  <2>4. /\ Types' /\ cancelled'[n] /\ callbacks'[n] = << >> /\ senders'[n] = {}
        /\ \A m \in Nodes : m # n => /\ callbacks'[m] = callbacks[m] /\ senders'[m] = senders[m]
                                     /\ cancelled'[m] = cancelled[m]
    <3>1. << >> \in Seq(Entry)
      OBVIOUS
    <3> QED BY <1>0, <1>1, <1>6, <2>1, <3>1 DEF Types, StacksOK
  <2>5. FramesGood'
    <3>1. \A e \in FrameSet : GoodFrame(e) => GoodFrame(e)'
      BY <1>1 DEF GoodFrame, Known
    <3>2. ListInv(n)
      BY DEF CancelInv
    <3>3. \A j, k \in DOMAIN todo : todo[j] = todo[k] /\ todo[j] \in Cbs => j = k
      BY <2>2, <3>2 DEF ListInv
    <3>4. GoodFrame(g)
      BY <1>4, <3>3 DEF GoodFrame
    <3>5. ~Some({})
      BY DEF Some
    <3> QED BY <1>0, <1>4, <3>1, <3>4, <3>5, SwapGood
  <2>6. Lasts
    BY <1>1, <1>9 DEF Lasts
  <2>7. \A m \in Nodes : ListInv(m)'
    BY <1>0, <1>1, <2>4, ListKeep DEF CancelInv
  <2>8. \A x : \A m \in Nodes : InList(x, m)' <=> InList(x, m) /\ m # n
    BY <2>4 DEF InList
  <2>9. ASSUME NEW b \in Cbs PROVE CbInv(b)'
    <3>1. CbInv(b)
      BY DEF CancelInv
    <3>2. CASE InList(b, n)
      <4>1. Listed(b) /\ ran[b] = 0 /\ ~Some(Owing(b))
        BY <3>1, <3>2 DEF Listed, CbInv
      <4>2. Some(Owing(b))' /\ One(Owing(b))' /\ One(Registering(b))'
        BY <1>8, <1>11, <2>3, <3>1, <3>2, <4>1 DEF CbInv
      <4>3. ~Listed(b)'
        <5>1. \A m \in Nodes : InList(b, m) => reg[b].node = m
          BY DEF CancelInv, ListInv, InList
        <5> QED BY <2>8, <3>2, <5>1 DEF Listed
      <4>4. ~Nowhere(b)
        BY <4>1 DEF Nowhere
      <4>5. reg[b].st \notin {"new", "removed"} /\ ~Some(Pending(b)) /\ ~Some(Pending(b))'
        BY <1>8, <3>1, <4>4 DEF CbInv, Same
      <4>6. Known(reg[b].node)'
        BY <1>1, <3>1 DEF CbInv, Known
      <4>7. Somewhere(b)'
        BY <4>2 DEF Somewhere
      <4> QED BY <1>1, <3>1, <4>1, <4>2, <4>3, <4>5, <4>6, <4>7 DEF CbInv
    <3>3. CASE ~InList(b, n)
      <4>1. Listed(b)' <=> Listed(b)
        BY <2>8, <3>3 DEF Listed
      <4>2. Same(Owing(b))
        BY <1>8, <2>3, <3>3
      <4> QED BY <1>0, <1>1, <1>8, <1>11, <2>6, <3>1, <4>1, <4>2, CbKeep
    <3> QED BY <3>2, <3>3
  <2>10. ASSUME NEW x \in Futs PROVE FutInv(x)'
    <3>1. FutInv(x)
      BY DEF CancelInv
    <3>2. Known(fut[x])'
      BY <1>1, <3>1 DEF FutInv, Known
    <3>3. ASSUME NEW m \in Nodes
          PROVE  /\ x \in senders'[m] => fut[x] = m /\ Live(m)' /\ ~cancelled'[m]
                 /\ fut[x] = m /\ Live(m)' /\ ~cancelled'[m] => x \in senders'[m]
      BY <1>9, <2>4, <3>1 DEF FutInv
    <3> QED BY <1>1, <1>12, <3>2, <3>3 DEF FutInv
  <2>11. ASSUME NEW c \in Children PROVE ChildInv(c)'
    <3>1. ChildInv(c) /\ c \in Nodes
      BY DEF CancelInv, Nodes
    <3>2. Known(parent[c])'
      BY <1>1, <3>1 DEF ChildInv, Known
    <3>3. ASSUME NEW m \in Nodes, parent[c] = m, Live(c)', ~cancelled'[c], ~OnItsWay(c)'
          PROVE  ~cancelled'[m] /\ (Live(m)' => InList(c, m)')
      <4>1. c # n /\ ~OnItsWay(c) /\ ~Some(Owing(c))'
        BY <1>8, <2>4, <3>3 DEF OnItsWay, Same
      <4>2. ~cancelled[m] /\ (Live(m) => InList(c, m))
        BY <1>9, <2>4, <3>1, <3>3, <4>1 DEF ChildInv
      <4>3. ~InList(c, n)
        BY <1>8, <2>3, <4>1
      <4>4. m # n
        BY <1>10, <4>2, <4>3
      <4> QED BY <1>9, <2>4, <2>8, <4>2, <4>4
    <3> QED BY <1>1, <1>11, <3>2, <3>3 DEF ChildInv
  <2> QED BY <2>4, <2>5, <2>7, <2>9, <2>10, <2>11 DEF CancelInv
<1> QED BY <1>13, <1>14


(* Inner::register under the lock. *)
LEMMA RegisterBodyInv ==
    ASSUME CancelInv, NEW t \in Threads, RegisterBody(t)
    PROVE  CancelInv'
<1>0. StacksOK /\ FramesGood /\ Types /\ Critical(t, "register")
  BY DEF CancelInv, Types, StacksOK, RegisterBody
<1>1. UNCHANGED <<cancelled, senders, handle, parent, fut, ran>>
  BY DEF RegisterBody
<1>2. PICK f \in FrameSet : f = Top(t) /\ GoodFrame(f) /\ f.op = "register"
  BY <1>0, TopGood DEF Critical, At
<1>3. PICK n \in Nodes, b \in Callback : n = Top(t).node /\ b = Top(t).arg
  BY <1>2 DEF GoodFrame
<1>4. PICK todo \in Seq(Callback) : /\ Continue(t, "run", todo)
                                    /\ todo = IF cancelled[n] THEN <<b>> ELSE << >>
  <2>1. <<b>> \in Seq(Callback) /\ << >> \in Seq(Callback)
    OBVIOUS
  <2>2. CASE cancelled[n]
    <3>1. Continue(t, "run", <<b>>)
      BY <1>3, <2>2 DEF RegisterBody
    <3> QED BY <2>1, <2>2, <3>1
  <2>3. CASE ~cancelled[n]
    <3>1. Continue(t, "run", << >>)
      BY <1>3, <2>3 DEF RegisterBody
    <3> QED BY <2>1, <2>3, <3>1
  <2> QED BY <2>2, <2>3
<1>5. \E h, g \in FrameSet : Leaves(t, "register", todo, h, g)
  BY <1>0, <1>4, BodyStep
<1>6. PICK h \in FrameSet, g \in FrameSet :
         /\ h = Top(t) /\ GoodFrame(h)
         /\ h.op = "register" /\ h.pc = "body" /\ h.todo = << >> /\ h.node = n /\ h.arg = b
         /\ g.op = "register" /\ g.node = n /\ g.arg = b /\ g.pc = "run" /\ g.todo = todo
         /\ Swaps(t, g)
  BY <1>3, <1>5 DEF Leaves
<1>7. StacksOK' /\ \A S : Effect(S, h \in S, g \in S, FALSE)
  BY <1>0, <1>6, SwapEffect
<1>8. \A x : /\ h \in OnNode(x) <=> g \in OnNode(x)
             /\ h \in Registering(x) <=> g \in Registering(x)
             /\ h \in Pending(x) <=> x = b
             /\ g \notin Pending(x)
             /\ h \notin Asking(x) /\ g \notin Asking(x)
             /\ h \notin Marking(x) /\ g \notin Marking(x)
             /\ h \notin Owing(x)
             /\ g \in Owing(x) <=> cancelled[n] /\ x = b
  <2>1. \A x : (\E j \in DOMAIN todo : todo[j] = x) <=> cancelled[n] /\ x = b
    BY <1>4
  <2>2. \A x : h \notin Owing(x) /\ (g \in Owing(x) <=> \E j \in DOMAIN todo : todo[j] = x)
    BY <1>6 DEF Owing
  <2>3. \A x : /\ h \in OnNode(x) <=> g \in OnNode(x)
               /\ h \in Registering(x) <=> g \in Registering(x)
               /\ h \in Pending(x) <=> x = b
               /\ g \notin Pending(x)
               /\ h \notin Asking(x) /\ g \notin Asking(x)
               /\ h \notin Marking(x) /\ g \notin Marking(x)
    BY <1>6 DEF OnNode, Registering, Pending, Marking, Asking
  <2> QED BY <2>1, <2>2, <2>3
<1>9. One(Registering(b))
  BY DEF CancelInv, CbInv, ChildInv, Callback
<1>10. \A x : /\ Same(OnNode(x)) /\ Same(Registering(x)) /\ Same(Marking(x)) /\ Same(Asking(x))
              /\ x # b => Same(Pending(x)) /\ Same(Owing(x))
  <2>1. \A S : (h \in S <=> g \in S) => Same(S)
    BY <1>7 DEF Effect, Same
  <2> QED BY <1>8, <2>1
<1>11. /\ Some(Pending(b)) /\ ~Some(Pending(b))'
       /\ cancelled[n] => Some(Owing(b))' /\ (One(Owing(b)) /\ ~Some(Owing(b)) => One(Owing(b))')
       /\ ~cancelled[n] => Same(Owing(b))
  <2>1. One(Pending(b))
    <3>1. Pending(b) \subseteq Registering(b)
      BY DEF Pending, Registering
    <3> QED BY <1>9, <3>1, OnePart
  <2>2. Some(Pending(b)) /\ ~Some(Pending(b))'
    BY <1>7, <1>8, <2>1 DEF Effect
  <2>3. \A S : (h \in S <=> g \in S) => Same(S)
    BY <1>7 DEF Effect, Same
  <2> QED BY <1>7, <1>8, <2>2, <2>3 DEF Effect
<1>12. \A m \in Nodes : Live(m)' <=> Live(m)
  BY <1>0, <1>1, <1>7, <1>10, LiveIs DEF Same
<1>13. \A x \in Cbs \cup Children : One(Registering(x))'
  BY <1>10 DEF Same, CancelInv, CbInv, ChildInv
<1>14. Lasts
  BY <1>1, <1>12 DEF Lasts
<1>15. ASSUME NEW x \in Futs PROVE FutInv(x)'
  <2>1. FutInv(x) /\ One(Asking(x))'
    BY <1>10 DEF CancelInv, FutInv, Same
  <2>2. \A m \in Nodes : x \in senders'[m] <=> x \in senders[m] /\ Live(m)'
    BY <1>1, <1>12, <2>1 DEF FutInv
  <2> QED BY <1>0, <1>1, <1>14, <2>1, <2>2, FutKeep
<1>16. b \in Cbs => /\ CbInv(b) /\ Nowhere(b) /\ reg[b].id = NoId
                    /\ reg[b].st = "registering" /\ reg[b].node = n
  BY <1>6, <1>11 DEF CancelInv, CbInv, GoodFrame
<1>17. b \in Children => parent[b] = n /\ b \in Nodes
  BY <1>6 DEF GoodFrame, Nodes
<1>18. handle[n] # "none"
  BY <1>6 DEF GoodFrame, Known
<1>19. CASE cancelled[n]
  <2>1. UNCHANGED <<nextId, callbacks, reg>> /\ todo = <<b>>
    BY <1>3, <1>4, <1>19 DEF RegisterBody
  <2>2. Types'
    BY <1>0, <1>1, <1>7, <2>1 DEF Types, StacksOK
  <2>3. FramesGood'
    <3>1. \A e \in FrameSet : GoodFrame(e) => GoodFrame(e)'
      BY <1>1, <2>1 DEF GoodFrame, Known
    <3>2. GoodFrame(g)
      BY <1>6, <2>1 DEF GoodFrame
    <3>3. ~Some({})
      BY DEF Some
    <3> QED BY <1>0, <1>6, <3>1, <3>2, <3>3, SwapGood
  <2>4. \A m \in Nodes : ListInv(m)'
    BY <1>0, <2>1, ListKeep DEF CancelInv
  <2>5. \A x : /\ Listed(x)' <=> Listed(x)
               /\ \A m \in Nodes : InList(x, m)' <=> InList(x, m)
    BY <2>1 DEF Listed, InList
  <2>6. ASSUME NEW d \in Cbs PROVE CbInv(d)'
    <3>1. CbInv(d)
      BY DEF CancelInv
    <3>2. CASE d # b
      BY <1>0, <1>1, <1>10, <1>13, <1>14, <2>1, <2>5, <3>1, <3>2, CbKeep
    <3>3. CASE d = b
      <4>1. ran[b] = 0 /\ ~Some(Owing(b)) /\ ~Listed(b)'
        BY <1>16, <2>5, <3>3 DEF Nowhere
      <4>2. Some(Owing(b))' /\ One(Owing(b))' /\ One(Registering(b))'
        BY <1>11, <1>13, <1>16, <1>19, <3>3, <4>1 DEF CbInv
      <4>3. Known(reg[b].node)'
        BY <1>1, <2>1, <3>1, <3>3 DEF CbInv, Known
      <4>4. Somewhere(b)'
        BY <4>2 DEF Somewhere
      <4> QED BY <1>1, <1>11, <1>16, <2>1, <3>1, <3>3, <4>1, <4>2, <4>3, <4>4 DEF CbInv
    <3> QED BY <3>2, <3>3
  <2>7. ASSUME NEW c \in Children PROVE ChildInv(c)'
    <3>1. ChildInv(c) /\ c \in Nodes
      BY DEF CancelInv, Nodes
    <3>2. OnItsWay(c) => OnItsWay(c)'
      BY <1>10, <1>11, <1>19 DEF OnItsWay, Same
    <3> QED BY <1>0, <1>1, <1>12, <1>13, <1>14, <2>5, <3>1, <3>2, ChildKeep
  <2> QED BY <1>15, <2>2, <2>3, <2>4, <2>6, <2>7 DEF CancelInv
<1>20. CASE ~cancelled[n]
  <2>1. /\ callbacks' = [callbacks EXCEPT ![n] = Append(@, [id |-> nextId[n], cb |-> b])]
        /\ nextId' = [nextId EXCEPT ![n] = @ + 1]
        /\ reg' = IF b \in Cbs THEN [reg EXCEPT ![b].id = nextId[n]] ELSE reg
        /\ todo = << >>
    BY <1>3, <1>4, <1>20 DEF RegisterBody, FreshId
  <2>2. PICK k \in Nat : k = nextId[n]
    BY <1>0 DEF Types
  <2>3. PICK s \in Seq(Entry) : s = callbacks[n]
    BY <1>0 DEF Types
  <2>4. PICK e \in Entry : e = [id |-> k, cb |-> b] /\ e.id = k /\ e.cb = b
    <3>1. [id |-> k, cb |-> b] \in Entry
      BY DEF Entry
    <3> QED BY <3>1
  <2>5. PICK s2 \in Seq(Entry) : /\ s2 = Append(s, e) /\ DOMAIN s2 = DOMAIN s \cup {Len(s) + 1}
                                 /\ s2[Len(s) + 1] = e /\ \A i \in DOMAIN s : s2[i] = s[i]
    <3>1. Append(s, e) \in Seq(Entry) /\ DOMAIN Append(s, e) = DOMAIN s \cup {Len(s) + 1}
      OBVIOUS
    <3>2. Append(s, e)[Len(s) + 1] = e /\ \A i \in DOMAIN s : Append(s, e)[i] = s[i]
      OBVIOUS
    <3> QED BY <3>1, <3>2
  <2>6. /\ callbacks'[n] = s2 /\ nextId'[n] = k + 1
        /\ \A m \in Nodes : m # n => callbacks'[m] = callbacks[m] /\ nextId'[m] = nextId[m]
    BY <1>0, <2>1, <2>2, <2>3, <2>4, <2>5 DEF Types
  <2>7. /\ reg' \in [Cbs -> Regs] /\ \A d \in Cbs : d # b => reg'[d] = reg[d]
        /\ b \in Cbs => reg'[b].st = reg[b].st /\ reg'[b].node = reg[b].node /\ reg'[b].id = k
    <3>1. CASE b \in Cbs
      BY <1>0, <2>1, <2>2, <3>1 DEF Types, Regs
    <3>2. CASE b \notin Cbs
      BY <1>0, <2>1, <3>2 DEF Types
    <3> QED BY <3>1, <3>2
  <2>8. Types'
    <3>1. callbacks' \in [Nodes -> Seq(Entry)] /\ nextId' \in [Nodes -> Nat]
      BY <1>0, <2>1, <2>2, <2>3, <2>4, <2>5 DEF Types
    <3> QED BY <1>0, <1>1, <1>7, <2>7, <3>1 DEF Types, StacksOK
  <2>9. FramesGood'
    <3>1. \A d \in Cbs : reg'[d].st = reg[d].st /\ reg'[d].node = reg[d].node
      BY <2>7
    <3>2. \A f2 \in FrameSet : GoodFrame(f2) => GoodFrame(f2)'
      BY <1>1, <3>1 DEF GoodFrame, Known
    <3>3. GoodFrame(g)
      BY <1>6, <2>1 DEF GoodFrame
    <3>4. ~Some({})
      BY DEF Some
    <3> QED BY <1>0, <1>6, <3>2, <3>3, <3>4, SwapGood
  <2>10. \A x : /\ \A m \in Nodes : m # n => (InList(x, m)' <=> InList(x, m))
                /\ InList(x, n)' <=> InList(x, n) \/ x = b
    BY <2>3, <2>4, <2>5, <2>6 DEF InList
  <2>11. \A x : x # b => (Listed(x)' <=> Listed(x))
    BY <2>10 DEF Listed
  <2>12. \A i \in DOMAIN s : s[i] \in Entry /\ s[i].id \in Nat
    <3>1. \A i \in DOMAIN s : s[i] \in Entry
      OBVIOUS
    <3> QED BY <3>1 DEF Entry
  <2>13. \A d \in Cbs : reg[d].node = n => reg[d].id = NoId \/ (reg[d].id \in Nat /\ reg[d].id < k)
    <3> SUFFICES ASSUME NEW d \in Cbs, reg[d].node = n, reg[d].id # NoId
                 PROVE  reg[d].id \in Nat /\ reg[d].id < k
      OBVIOUS
    <3>1. CbInv(d) /\ reg[d] \in Regs
      BY <1>0 DEF CancelInv, Types
    <3> QED BY <2>2, <3>1 DEF CbInv, Regs
  <2>14. ListInv(n)'
    <3>1. /\ \A i \in DOMAIN s : s[i].id < k
          /\ \A i, j \in DOMAIN s : s[i].id = s[j].id => i = j
          /\ \A i \in DOMAIN s : \A d \in Cbs : s[i].cb = d <=> reg[d].node = n /\ reg[d].id = s[i].id
      BY <2>2, <2>3 DEF CancelInv, ListInv
    <3>2. \A i \in DOMAIN s2 : s2[i].id < nextId'[n]
      BY <2>4, <2>5, <2>6, <2>12, <3>1
    <3>3. \A i, j \in DOMAIN s2 : s2[i].id = s2[j].id => i = j
      BY <2>4, <2>5, <2>12, <3>1
    <3>4. b \in Cbs => \A i \in DOMAIN s : s[i].cb # b
      BY <1>16, <2>3 DEF Nowhere, Listed, InList
    <3>5. ASSUME NEW i \in DOMAIN s2, NEW d \in Cbs
          PROVE  s2[i].cb = d <=> reg'[d].node = n /\ reg'[d].id = s2[i].id
      <4>1. CASE i \in DOMAIN s /\ d # b
        BY <2>5, <2>7, <3>1, <4>1
      <4>2. CASE i \in DOMAIN s /\ d = b
        BY <2>5, <2>7, <2>12, <3>1, <3>4, <4>2
      <4>3. CASE i = Len(s) + 1 /\ d # b
        BY <2>4, <2>5, <2>7, <2>13, <4>3 DEF NoId
      <4>4. CASE i = Len(s) + 1 /\ d = b
        BY <1>16, <2>4, <2>5, <2>7, <4>4
      <4> QED BY <2>5, <4>1, <4>2, <4>3, <4>4
    <3> QED BY <2>6, <3>2, <3>3, <3>5 DEF ListInv
  <2>15. ASSUME NEW m \in Nodes, m # n PROVE ListInv(m)'
    <3>1. PICK r \in Seq(Entry) : r = callbacks[m] /\ r = callbacks'[m]
      BY <1>0, <2>6, <2>15 DEF Types
    <3>2. /\ \A i \in DOMAIN r : r[i].id < nextId'[m]
          /\ \A i, j \in DOMAIN r : r[i].id = r[j].id => i = j
          /\ \A i \in DOMAIN r : \A d \in Cbs : r[i].cb = d <=> reg[d].node = m /\ reg[d].id = r[i].id
      BY <2>6, <2>15, <3>1 DEF CancelInv, ListInv
    <3>3. b \in Cbs => \A i \in DOMAIN r : r[i].cb # b
      BY <1>16, <3>1 DEF Nowhere, Listed, InList
    <3>4. \A i \in DOMAIN r : \A d \in Cbs : r[i].cb = d <=> reg'[d].node = m /\ reg'[d].id = r[i].id
      BY <1>16, <2>7, <2>15, <3>2, <3>3
    <3> QED BY <3>1, <3>2, <3>4 DEF ListInv
  <2>16. ASSUME NEW d \in Cbs PROVE CbInv(d)'
    <3>1. CbInv(d)
      BY DEF CancelInv
    <3>2. CASE d # b
      <4>1. \A m \in Nodes : nextId'[m] = nextId[m] \/ nextId'[m] = nextId[m] + 1
        BY <2>2, <2>6
      <4> QED BY <1>0, <1>1, <1>10, <1>13, <1>14, <2>7, <2>11, <3>1, <3>2, <4>1, CbKeep
    <3>3. CASE d = b
      <4>1. ran[b] = 0 /\ ~Some(Owing(b))
        BY <1>16, <3>3 DEF Nowhere
      <4>2. Listed(b)' /\ Somewhere(b)'
        BY <2>10 DEF Listed, Somewhere
      <4>3. ~Some(Owing(b))' /\ One(Owing(b))' /\ One(Registering(b))'
        BY <1>11, <1>13, <1>16, <1>20, <3>3, <4>1 DEF CbInv, Same
      <4>4. Known(reg[b].node)'
        BY <1>1, <1>16, <1>18, <2>7, <3>3 DEF Known
      <4>5. reg'[b].id < nextId'[n]
        BY <2>6, <2>7, <3>3
      <4> QED BY <1>1, <1>11, <1>16, <2>7, <3>3, <4>1, <4>2, <4>3, <4>4, <4>5 DEF CbInv
    <3> QED BY <3>2, <3>3
  <2>17. ASSUME NEW c \in Children PROVE ChildInv(c)'
    <3>1. ChildInv(c) /\ c \in Nodes
      BY DEF CancelInv, Nodes
    <3>2. CASE c # b
      <4>1. OnItsWay(c) => OnItsWay(c)'
        BY <1>10, <3>2 DEF OnItsWay, Same
      <4>2. \A m \in Nodes : InList(c, m) => InList(c, m)'
        BY <2>10
      <4> QED BY <1>0, <1>1, <1>12, <1>13, <1>14, <3>1, <4>1, <4>2, ChildKeep
    <3>3. CASE c = b
      <4>1. parent'[c] = n /\ ~cancelled'[n] /\ InList(c, n)'
        BY <1>1, <1>17, <1>20, <2>10, <3>3
      <4>2. Known(parent[c])'
        BY <1>1, <1>18, <4>1 DEF Known
      <4> QED BY <1>13, <4>1, <4>2 DEF ChildInv
    <3> QED BY <3>2, <3>3
  <2> QED BY <1>15, <2>8, <2>9, <2>14, <2>15, <2>16, <2>17 DEF CancelInv
<1> QED BY <1>19, <1>20


(* What `retain' leaves of a list: all entries but the one with the id. *)
LEMMA WithoutIs ==
    ASSUME NEW s \in Seq(Entry), NEW id
    PROVE  /\ Without(s, id) \in Seq(Entry)
           /\ \A j \in DOMAIN Without(s, id) : \E i \in DOMAIN s : Without(s, id)[j] = s[i]
           /\ \A i \in DOMAIN s : s[i].id # id => \E j \in DOMAIN Without(s, id) : Without(s, id)[j] = s[i]
           /\ (\A i, j \in DOMAIN s : s[i].id = s[j].id => i = j) =>
                 /\ \A i, j \in DOMAIN Without(s, id) : Without(s, id)[i].id = Without(s, id)[j].id => i = j
                 /\ \A j \in DOMAIN Without(s, id) : Without(s, id)[j].id # id
<1>1. CASE ~\E i \in DOMAIN s : s[i].id = id
  <2>1. Without(s, id) = s
    BY <1>1 DEF Without
  <2> QED BY <1>1, <2>1
<1>2. CASE \E i \in DOMAIN s : s[i].id = id
  <2>1. PICK k \in DOMAIN s : k = (CHOOSE i \in DOMAIN s : s[i].id = id) /\ s[k].id = id
    BY <1>2
  <2>2. Len(s) \in Nat /\ k \in 1..Len(s) /\ DOMAIN s = 1..Len(s)
    OBVIOUS
  <2>3. PICK a, z : a = SubSeq(s, 1, k - 1) /\ z = SubSeq(s, k + 1, Len(s))
    OBVIOUS
  <2>4. /\ a \in Seq(Entry) /\ Len(a) = k - 1 /\ \A j \in 1..(k - 1) : a[j] = s[j]
        /\ z \in Seq(Entry) /\ Len(z) = Len(s) - k /\ \A j \in 1..(Len(s) - k) : z[j] = s[k + j]
    <3>1. PICK p \in Int, q \in Int, m \in Nat : p = k - 1 /\ q = k + 1 /\ m = Len(s)
      <4>1. k - 1 \in Int /\ k + 1 \in Int
        BY <2>2
      <4> QED BY <2>2, <4>1
    <3>2. (\A i \in 1..p : s[i] \in Entry) /\ (\A i \in q..m : s[i] \in Entry)
      BY <2>2, <3>1
    <3>3. /\ SubSeq(s, 1, p) \in Seq(Entry) /\ Len(SubSeq(s, 1, p)) = IF 1 <= p THEN p - 1 + 1 ELSE 0
          /\ \A i \in 1..(p - 1 + 1) : SubSeq(s, 1, p)[i] = s[1 + i - 1]
      BY <3>2, SubSeqProperties
    <3>4. /\ SubSeq(s, q, m) \in Seq(Entry) /\ Len(SubSeq(s, q, m)) = IF q <= m THEN m - q + 1 ELSE 0
          /\ \A i \in 1..(m - q + 1) : SubSeq(s, q, m)[i] = s[q + i - 1]
      BY <3>2, SubSeqProperties
    <3>5. a \in Seq(Entry) /\ Len(a) = k - 1 /\ \A j \in 1..(k - 1) : a[j] = s[j]
      BY <2>2, <2>3, <3>1, <3>3
    <3>6. z \in Seq(Entry) /\ Len(z) = Len(s) - k
      BY <2>2, <2>3, <3>1, <3>4
    <3>7. ASSUME NEW j \in 1..(Len(s) - k) PROVE z[j] = s[k + j]
      <4>1. j \in 1..(m - q + 1) /\ q + j - 1 = k + j
        BY <2>2, <3>1
      <4> QED BY <2>3, <3>1, <3>4, <4>1
    <3> QED BY <3>5, <3>6, <3>7
  <2>5. PICK r : r = a \o z /\ r = Without(s, id)
    BY <1>2, <2>1, <2>3 DEF Without, RemoveAt
  <2>11. /\ r \in Seq(Entry) /\ Len(r) = Len(a) + Len(z)
        /\ \A i \in 1..(Len(a) + Len(z)) : r[i] = IF i <= Len(a) THEN a[i] ELSE z[i - Len(a)]
    <3>1. a \in Seq(Entry) /\ z \in Seq(Entry)
      BY <2>4
    <3>2. /\ a \o z \in Seq(Entry) /\ Len(a \o z) = Len(a) + Len(z)
          /\ \A i \in 1..Len(a) + Len(z) : (a \o z)[i] = IF i <= Len(a) THEN a[i] ELSE z[i - Len(a)]
      BY ONLY <3>1, ConcatProperties
    <3> QED BY <2>5, <3>2
  <2>6. r \in Seq(Entry) /\ Len(r) = Len(s) - 1 /\ DOMAIN r = 1..(Len(s) - 1)
    BY <2>2, <2>4, <2>11
  <2>7. /\ \A j \in 1..(k - 1) : r[j] = s[j]
        /\ \A j \in k..(Len(s) - 1) : r[j] = s[j + 1]
    <3>1. ASSUME NEW j \in 1..(k - 1) PROVE r[j] = s[j]
      <4>1. j \in 1..(Len(a) + Len(z)) /\ j <= Len(a)
        BY <2>2, <2>4
      <4> QED BY <2>4, <2>11, <4>1
    <3>2. ASSUME NEW j \in k..(Len(s) - 1) PROVE r[j] = s[j + 1]
      <4>1. j \in 1..(Len(a) + Len(z)) /\ ~(j <= Len(a)) /\ j - Len(a) = j - (k - 1)
        BY <2>2, <2>4
      <4>2. PICK i \in 1..(Len(s) - k) : i = j - (k - 1) /\ k + i = j + 1
        <5>1. j - (k - 1) \in 1..(Len(s) - k) /\ k + (j - (k - 1)) = j + 1
          BY <2>2
        <5> QED BY <5>1
      <4>3. r[j] = z[i] /\ z[i] = s[k + i]
        BY <2>4, <2>11, <4>1, <4>2
      <4> QED BY <4>2, <4>3
    <3> QED BY <3>1, <3>2
  <2>8. \A j \in DOMAIN r : \E i \in DOMAIN s : r[j] = s[i] /\ i # k /\ i = IF j < k THEN j ELSE j + 1
    BY <2>2, <2>6, <2>7
  <2>9. \A i \in DOMAIN s : i # k => \E j \in DOMAIN r : r[j] = s[i]
    <3> SUFFICES ASSUME NEW i \in DOMAIN s, i # k PROVE \E j \in DOMAIN r : r[j] = s[i]
      OBVIOUS
    <3>1. CASE i < k
      BY <2>2, <2>6, <2>7, <3>1
    <3>2. CASE i > k
      <4>1. i - 1 \in k..(Len(s) - 1) /\ (i - 1) + 1 = i /\ i - 1 \in DOMAIN r
        BY <2>2, <2>6, <3>2
      <4>2. r[i - 1] = s[i]
        BY <2>7, <4>1
      <4> QED BY <4>1, <4>2
    <3> QED BY <2>2, <3>1, <3>2
  <2>10. ASSUME \A i, j \in DOMAIN s : s[i].id = s[j].id => i = j
         PROVE  /\ \A i, j \in DOMAIN r : r[i].id = r[j].id => i = j
                /\ \A j \in DOMAIN r : r[j].id # id
    <3>1. ASSUME NEW i \in DOMAIN r, NEW j \in DOMAIN r, r[i].id = r[j].id PROVE i = j
      <4>1. PICK p \in DOMAIN s : r[i] = s[p] /\ p = IF i < k THEN i ELSE i + 1
        BY <2>8
      <4>2. PICK q \in DOMAIN s : r[j] = s[q] /\ q = IF j < k THEN j ELSE j + 1
        BY <2>8
      <4>3. p = q
        BY <2>10, <3>1, <4>1, <4>2
      <4> QED BY <2>2, <2>6, <4>1, <4>2, <4>3
    <3>2. \A j \in DOMAIN r : r[j].id # id
      BY <2>1, <2>8, <2>10
    <3> QED BY <3>1, <3>2
  <2> QED BY <2>1, <2>5, <2>6, <2>8, <2>9, <2>10, SMTT(60)
<1> QED BY <1>1, <1>2

(* Inner::unregister. *)
LEMMA UnregisterBodyInv ==
    ASSUME CancelInv, NEW t \in Threads, UnregisterBody(t)
    PROVE  CancelInv'
<1>0. StacksOK /\ FramesGood /\ Types /\ Critical(t, "unregister")
  BY DEF CancelInv, Types, StacksOK, UnregisterBody
<1>1. UNCHANGED <<cancelled, nextId, senders, handle, parent, fut, ran>>
  BY DEF UnregisterBody
<1>2. << >> \in Seq(Callback) /\ Continue(t, "run", << >>)
  BY DEF UnregisterBody
<1>3. \E h, g \in FrameSet : Leaves(t, "unregister", << >>, h, g)
  BY <1>0, <1>2, BodyStep
<1>4. PICK h \in FrameSet, g \in FrameSet :
         /\ h = Top(t) /\ GoodFrame(h)
         /\ h.op = "unregister" /\ h.pc = "body" /\ h.todo = << >>
         /\ g.op = "unregister" /\ g.node = h.node /\ g.arg = h.arg /\ g.pc = "run" /\ g.todo = << >>
         /\ Swaps(t, g)
  BY <1>3 DEF Leaves
<1>5. PICK n \in Nodes, b \in Cbs : /\ n = h.node /\ b = h.arg /\ reg[b].node = n
                                    /\ reg[b].st \in {"disposing", "removed", "disposed"}
  BY <1>4 DEF GoodFrame
<1>6. StacksOK' /\ \A S : Effect(S, h \in S, g \in S, FALSE)
  BY <1>0, <1>4, SwapEffect
<1>7. \A x : /\ h \in OnNode(x) <=> g \in OnNode(x)
             /\ h \notin Registering(x) /\ g \notin Registering(x)
             /\ h \notin Pending(x) /\ g \notin Pending(x)
             /\ h \notin Asking(x) /\ g \notin Asking(x)
             /\ h \notin Marking(x) /\ g \notin Marking(x)
             /\ h \notin Owing(x) /\ g \notin Owing(x)
  BY <1>4 DEF OnNode, Owing, Registering, Pending, Marking, Asking
<1>8. \A x : /\ Same(OnNode(x)) /\ Same(Registering(x)) /\ Same(Marking(x)) /\ Same(Asking(x))
             /\ Same(Pending(x)) /\ Same(Owing(x))
  <2>1. \A S : (h \in S <=> g \in S) => Same(S)
    BY <1>6 DEF Effect, Same
  <2> QED BY <1>7, <2>1
<1>9. \A m \in Nodes : Live(m)' <=> Live(m)
  BY <1>0, <1>1, <1>6, <1>8, LiveIs DEF Same
<1>10. Lasts
  BY <1>1, <1>9 DEF Lasts
<1>11. PICK st \in {"removed", "disposed"} : /\ reg' = [reg EXCEPT ![b].st = st]
                                             /\ st = "removed" => InList(b, n)
  BY <1>4, <1>5 DEF UnregisterBody, InList
<1>12. /\ reg' \in [Cbs -> Regs] /\ \A d \in Cbs : d # b => reg'[d] = reg[d]
       /\ reg'[b].st = st /\ reg'[b].node = n /\ reg'[b].id = reg[b].id
  BY <1>0, <1>5, <1>11, ZenonT(60) DEF Types, Regs
<1>13. PICK s \in Seq(Entry), s2 \in Seq(Entry) :
          /\ s = callbacks[n] /\ s2 = Without(s, reg[b].id)
          /\ callbacks' = [callbacks EXCEPT ![n] = s2]
  <2>1. callbacks[n] \in Seq(Entry)
    BY <1>0 DEF Types
  <2>2. Without(callbacks[n], reg[b].id) \in Seq(Entry)
    BY <2>1, WithoutIs
  <2> QED BY <1>4, <1>5, <2>1, <2>2 DEF UnregisterBody
<1>14. /\ callbacks'[n] = s2 /\ callbacks' \in [Nodes -> Seq(Entry)]
       /\ \A m \in Nodes : m # n => callbacks'[m] = callbacks[m]
  BY <1>0, <1>13 DEF Types
<1>15. Types'
  BY <1>0, <1>1, <1>6, <1>12, <1>14 DEF Types, StacksOK
<1>16. FramesGood'
  <2>1. ASSUME NEW e \in FrameSet, GoodFrame(e) PROVE GoodFrame(e)'
    <3>1. /\ \A d \in Cbs : reg'[d].node = reg[d].node
          /\ \A d \in Cbs : reg[d].st = "registering" => reg'[d].st = reg[d].st
          /\ \A d \in Cbs : reg[d].st \in {"disposing", "removed", "disposed"}
                              => reg'[d].st \in {"disposing", "removed", "disposed"}
      BY <1>5, <1>12
    <3> QED BY <1>1, <2>1, <3>1 DEF GoodFrame, Known
  <2>2. GoodFrame(g)
    BY <1>4 DEF GoodFrame
  <2>3. ~Some({})
    BY DEF Some
  <2> QED BY <1>0, <1>4, <2>1, <2>2, <2>3, SwapGood
<1>17. /\ \A i, j \in DOMAIN s : s[i].id = s[j].id => i = j
       /\ \A i \in DOMAIN s : s[i].id < nextId[n]
       /\ \A i \in DOMAIN s : \A d \in Cbs : s[i].cb = d <=> reg[d].node = n /\ reg[d].id = s[i].id
  BY <1>13 DEF CancelInv, ListInv
<1>18. /\ \A j \in DOMAIN s2 : \E i \in DOMAIN s : s2[j] = s[i]
       /\ \A i \in DOMAIN s : s[i].id # reg[b].id => \E j \in DOMAIN s2 : s2[j] = s[i]
       /\ \A i, j \in DOMAIN s2 : s2[i].id = s2[j].id => i = j
       /\ \A j \in DOMAIN s2 : s2[j].id # reg[b].id
  <2>1. PICK id : id = reg[b].id
    OBVIOUS
  <2>2. s2 = Without(s, id)
    BY <1>13, <2>1
  <2>3. /\ \A j \in DOMAIN Without(s, id) : \E i \in DOMAIN s : Without(s, id)[j] = s[i]
        /\ \A i \in DOMAIN s : s[i].id # id => \E j \in DOMAIN Without(s, id) : Without(s, id)[j] = s[i]
    BY WithoutIs
  <2>4. /\ \A i, j \in DOMAIN Without(s, id) : Without(s, id)[i].id = Without(s, id)[j].id => i = j
        /\ \A j \in DOMAIN Without(s, id) : Without(s, id)[j].id # id
    BY <1>17, WithoutIs
  <2> QED BY <2>1, <2>2, <2>3, <2>4
<1>19. ListInv(n)'
  <2>1. /\ \A i \in DOMAIN s2 : s2[i].id < nextId[n]
        /\ \A i \in DOMAIN s2 : \A d \in Cbs : s2[i].cb = d <=> reg'[d].node = n /\ reg'[d].id = s2[i].id
    BY <1>5, <1>12, <1>17, <1>18, SMTT(60)
  <2> QED BY <1>1, <1>14, <1>18, <2>1 DEF ListInv
<1>20. \A m \in Nodes : m # n => ListInv(m)'
  <2> SUFFICES ASSUME NEW m \in Nodes, m # n PROVE ListInv(m)'
    OBVIOUS
  <2>1. \A d \in Cbs : reg'[d].id = reg[d].id /\ reg'[d].node = reg[d].node
    BY <1>5, <1>12
  <2>2. ListInv(m) /\ callbacks'[m] = callbacks[m] /\ nextId'[m] = nextId[m]
    BY <1>1, <1>14 DEF CancelInv
  <2> QED BY <1>0, <2>1, <2>2, ListKeep
<1>21. \A x : x # b => \A m \in Nodes : InList(x, m)' <=> InList(x, m)
  <2> SUFFICES ASSUME NEW x, x # b, NEW m \in Nodes PROVE InList(x, m)' <=> InList(x, m)
    OBVIOUS
  <2>1. CASE m # n
    BY <1>14, <2>1 DEF InList
  <2>2. CASE m = n
    <3>1. \A i \in DOMAIN s : s[i].cb # b => s[i].id # reg[b].id
      BY <1>5, <1>17
    <3> QED BY <1>13, <1>14, <1>18, <2>2, <3>1 DEF InList
  <2> QED BY <2>1, <2>2
<1>22. \A m \in Nodes : ~InList(b, m)'
  <2>1. \A m \in Nodes : m # n => ~InList(b, m)
    BY <1>5 DEF CancelInv, ListInv, InList
  <2>2. \A j \in DOMAIN s2 : s2[j].cb # b
    BY <1>17, <1>18
  <2> QED BY <1>14, <2>1, <2>2 DEF InList
<1>23. \A d \in Cbs : d # b => CbInv(d)'
  <2> SUFFICES ASSUME NEW d \in Cbs, d # b PROVE CbInv(d)'
    OBVIOUS
  <2>1. CbInv(d) /\ One(Registering(d))'
    BY <1>8 DEF CancelInv, CbInv, Same
  <2>2. Listed(d)' <=> Listed(d)
    BY <1>21 DEF Listed
  <2> QED BY <1>0, <1>1, <1>8, <1>10, <1>12, <2>1, <2>2, CbKeep
<1>24. CbInv(b)'
  <2>1. CbInv(b) /\ ~Listed(b)'
    BY <1>22 DEF CancelInv, Listed
  <2>2. /\ One(Registering(b))' /\ One(Owing(b))' /\ (Some(Owing(b))' <=> Some(Owing(b)))
        /\ Some(Pending(b))' <=> Some(Pending(b))
    BY <1>8, <2>1 DEF CbInv, Same
  <2>3. ~Some(Pending(b))
    BY <1>0, <1>5, KindGood DEF Pending, GoodFrame
  <2>4. Known(reg[b].node)'
    BY <1>1, <1>5, <1>12, <2>1 DEF CbInv, Known
  <2>5. st = "removed" => Nowhere(b)'
    <3>1. InList(b, n) => ran[b] = 0 /\ ~Some(Owing(b))
      BY <2>1 DEF CbInv, Listed
    <3> QED BY <1>1, <1>11, <2>1, <2>2, <3>1 DEF Nowhere
  <2> QED BY <1>1, <1>5, <1>12, <2>1, <2>2, <2>3, <2>4, <2>5 DEF CbInv
<1>25. \A x \in Futs : FutInv(x)'
  <2> SUFFICES ASSUME NEW x \in Futs PROVE FutInv(x)'
    OBVIOUS
  <2>1. FutInv(x) /\ One(Asking(x))'
    BY <1>8 DEF CancelInv, FutInv, Same
  <2>2. \A m \in Nodes : x \in senders'[m] <=> x \in senders[m] /\ Live(m)'
    BY <1>1, <1>9, <2>1 DEF FutInv
  <2> QED BY <1>0, <1>1, <1>10, <2>1, <2>2, FutKeep
<1>26. \A c \in Children : ChildInv(c)'
  <2> SUFFICES ASSUME NEW c \in Children PROVE ChildInv(c)'
    OBVIOUS
  <2>1. ChildInv(c) /\ c \in Nodes /\ c # b
    BY CancelAssumption DEF CancelInv, Nodes
  <2>2. One(Registering(c))' /\ (OnItsWay(c) => OnItsWay(c)')
    BY <1>8, <2>1 DEF ChildInv, OnItsWay, Same
  <2> QED BY <1>0, <1>1, <1>9, <1>10, <1>21, <2>1, <2>2, ChildKeep
<1> QED BY <1>15, <1>16, <1>19, <1>20, <1>23, <1>24, <1>25, <1>26 DEF CancelInv


(* Inner::cancel_future under the lock. *)
LEMMA FutureBodyInv ==
    ASSUME CancelInv, NEW t \in Threads, FutureBody(t)
    PROVE  CancelInv'
<1>0. StacksOK /\ FramesGood /\ Types /\ Critical(t, "future")
  BY DEF CancelInv, Types, StacksOK, FutureBody
<1>1. UNCHANGED <<cancelled, nextId, callbacks, handle, parent, reg, ran>>
  BY DEF FutureBody
<1>2. << >> \in Seq(Callback) /\ Continue(t, "run", << >>)
  BY DEF FutureBody
<1>3. \E h, g \in FrameSet : Leaves(t, "future", << >>, h, g)
  BY <1>0, <1>2, BodyStep
<1>4. PICK h \in FrameSet, g \in FrameSet :
         /\ h = Top(t) /\ GoodFrame(h)
         /\ h.op = "future" /\ h.pc = "body" /\ h.todo = << >>
         /\ g.op = "future" /\ g.node = h.node /\ g.arg = h.arg /\ g.pc = "run" /\ g.todo = << >>
         /\ Swaps(t, g)
  BY <1>3 DEF Leaves
<1>5. PICK n \in Nodes, x \in Futs : n = h.node /\ x = h.arg /\ fut[x] = None /\ handle[n] # "none"
  BY <1>4 DEF GoodFrame, Known
<1>6. StacksOK' /\ \A S : Effect(S, h \in S, g \in S, FALSE)
  BY <1>0, <1>4, SwapEffect
<1>7. \A y : /\ h \in OnNode(y) <=> g \in OnNode(y)
             /\ h \notin Registering(y) /\ g \notin Registering(y)
             /\ h \notin Pending(y) /\ g \notin Pending(y)
             /\ h \notin Marking(y) /\ g \notin Marking(y)
             /\ h \notin Owing(y) /\ g \notin Owing(y)
             /\ h \in Asking(y) <=> y = x
             /\ g \notin Asking(y)
  BY <1>4, <1>5 DEF OnNode, Owing, Registering, Pending, Marking, Asking
<1>8. \A y : /\ Same(OnNode(y)) /\ Same(Registering(y)) /\ Same(Marking(y))
             /\ Same(Pending(y)) /\ Same(Owing(y))
             /\ y # x => Same(Asking(y))
  <2>1. \A S : (h \in S <=> g \in S) => Same(S)
    BY <1>6 DEF Effect, Same
  <2> QED BY <1>7, <2>1
<1>9. \A m \in Nodes : Live(m)' <=> Live(m)
  BY <1>0, <1>1, <1>6, <1>8, LiveIs DEF Same
<1>10. Lasts
  BY <1>1, <1>9 DEF Lasts
<1>11. Live(n)
  <2>1. h \in OnNode(n)
    BY <1>5 DEF OnNode
  <2>2. Some(OnNode(n))
    BY <1>6, <2>1 DEF Effect
  <2> QED BY <1>0, <2>2, LiveIs
<1>12. /\ fut' \in [Futs -> Nodes \cup {None}] /\ fut'[x] = n
       /\ \A y \in Futs : y # x => fut'[y] = fut[y]
  BY <1>0, <1>4, <1>5 DEF FutureBody, Types
<1>13. /\ senders' \in [Nodes -> SUBSET Futs]
       /\ \A y : y # x => \A m \in Nodes : y \in senders'[m] <=> y \in senders[m]
       /\ \A m \in Nodes : x \in senders'[m] <=> x \in senders[m] \/ (m = n /\ ~cancelled[n])
  <2>1. senders' = IF cancelled[n] THEN senders ELSE [senders EXCEPT ![n] = @ \cup {x}]
    BY <1>4, <1>5 DEF FutureBody
  <2> QED BY <1>0, <2>1 DEF Types
<1>14. Types'
  BY <1>0, <1>1, <1>6, <1>12, <1>13 DEF Types, StacksOK
<1>15. One(Asking(x)) /\ FutInv(x)
  BY DEF CancelInv, FutInv
<1>16. FramesGood'
  <2>1. ASSUME NEW e \in FrameSet, e \notin Asking(x), GoodFrame(e) PROVE GoodFrame(e)'
    <3>1. e.op = "future" /\ e.pc \in {"lock", "body"} => e.arg # x
      BY <2>1 DEF Asking
    <3> QED BY <1>1, <1>12, <2>1, <3>1 DEF GoodFrame, Known
  <2>2. GoodFrame(g)'
    BY <1>1, <1>4, <1>5 DEF GoodFrame, Known
  <2> QED BY <1>0, <1>4, <1>7, <1>15, <2>1, <2>2, SwapGood
<1>17. \A m \in Nodes : ListInv(m)'
  BY <1>0, <1>1, ListKeep DEF CancelInv
<1>18. \A y : /\ Listed(y)' <=> Listed(y)
              /\ \A m \in Nodes : InList(y, m)' <=> InList(y, m)
  BY <1>1 DEF Listed, InList
<1>19. \A b \in Cbs : CbInv(b)'
  <2> SUFFICES ASSUME NEW b \in Cbs PROVE CbInv(b)'
    OBVIOUS
  <2>1. CbInv(b) /\ One(Registering(b))'
    BY <1>8 DEF CancelInv, CbInv, Same
  <2> QED BY <1>0, <1>1, <1>8, <1>10, <1>18, <2>1, CbKeep
<1>20. \A y \in Futs : y # x => FutInv(y)'
  <2> SUFFICES ASSUME NEW y \in Futs, y # x PROVE FutInv(y)'
    OBVIOUS
  <2>1. FutInv(y) /\ One(Asking(y))'
    BY <1>8 DEF CancelInv, FutInv, Same
  <2>2. \A m \in Nodes : y \in senders'[m] <=> y \in senders[m] /\ Live(m)'
    BY <1>9, <1>13, <2>1 DEF FutInv
  <2> QED BY <1>0, <1>1, <1>10, <1>12, <2>1, <2>2, FutKeep
<1>21. FutInv(x)'
  <2>1. \A m \in Nodes : m # None
    BY CancelAssumption DEF Nodes
  <2>2. \A m \in Nodes : x \notin senders[m]
    BY <1>5, <1>15, <2>1 DEF FutInv
  <2>3. One(Asking(x))'
    BY <1>6, <1>7, <1>15 DEF Effect
  <2>4. Known(fut[x])'
    BY <1>1, <1>5, <1>12 DEF Known
  <2>5. ASSUME NEW m \in Nodes
        PROVE  /\ x \in senders'[m] => n = m /\ Live(m)' /\ ~cancelled[m]
               /\ n = m /\ Live(m)' /\ ~cancelled[m] => x \in senders'[m]
    BY <1>9, <1>11, <1>13, <2>2
  <2> QED BY <1>1, <1>12, <2>3, <2>4, <2>5 DEF FutInv
<1>22. \A c \in Children : ChildInv(c)'
  <2> SUFFICES ASSUME NEW c \in Children PROVE ChildInv(c)'
    OBVIOUS
  <2>1. ChildInv(c) /\ c \in Nodes
    BY DEF CancelInv, Nodes
  <2>2. One(Registering(c))' /\ (OnItsWay(c) => OnItsWay(c)')
    BY <1>8, <2>1 DEF ChildInv, OnItsWay, Same
  <2> QED BY <1>0, <1>1, <1>9, <1>10, <1>18, <2>1, <2>2, ChildKeep
<1> QED BY <1>14, <1>16, <1>17, <1>19, <1>20, <1>21, <1>22 DEF CancelInv

(* The call h runs b, the first of its callbacks, and goes on as r. *)
Runs(h, b, r) ==
    /\ b = Head(h.todo) /\ r = [h EXCEPT !.todo = Tail(h.todo)]
    /\ GoodFrame(r)
    /\ \A x : /\ h \in OnNode(x) <=> r \in OnNode(x)
              /\ h \in Registering(x) <=> r \in Registering(x)
              /\ h \in Pending(x) <=> r \in Pending(x)
              /\ h \in Marking(x) <=> r \in Marking(x)
              /\ h \in Asking(x) <=> r \in Asking(x)
              /\ h \in Owing(x) <=> x = b \/ r \in Owing(x)
    /\ b \in Cbs => r \notin Owing(b)

(* Then b is the one callback it no longer has to run. *)
LEMMA RunStep ==
    ASSUME NEW h \in FrameSet, GoodFrame(h), h.todo # << >>
    PROVE  \E b \in Callback, r \in FrameSet : Runs(h, b, r)
<1>1. PICK s \in Seq(Callback) : s = h.todo
  BY DEF FrameSet
<1>2. /\ Len(s) \in Nat /\ Len(s) >= 1 /\ DOMAIN s = 1..Len(s) /\ Head(s) = s[1] /\ s[1] \in Callback
  BY <1>1
<1>3. PICK z \in Seq(Callback) : z = Tail(s) /\ Len(z) = Len(s) - 1 /\ DOMAIN z = 1..(Len(s) - 1)
                                 /\ \A i \in 1..(Len(s) - 1) : z[i] = s[i + 1]
  <2>1. Tail(s) \in Seq(Callback) /\ Len(Tail(s)) = Len(s) - 1
    BY <1>1, <1>2
  <2>2. \A i \in 1..(Len(s) - 1) : Tail(s)[i] = s[i + 1]
    BY <1>1, <1>2
  <2>3. DOMAIN Tail(s) = 1..(Len(s) - 1)
    BY <2>1
  <2>4. PICK z \in Seq(Callback) : z = Tail(s)
    BY <2>1
  <2> QED BY <2>1, <2>2, <2>3, <2>4
<1>4. PICK r : r = Goes(h, h.pc, z)
  OBVIOUS
<1>5. h.pc \in {"lock", "body", "run", "entered", "leaving"}
  BY DEF FrameSet
<1>6. r \in FrameSet /\ [h EXCEPT !.todo = z] = r
  BY <1>4, <1>5, GoesOn
<1>7. r.op = h.op /\ r.node = h.node /\ r.arg = h.arg /\ r.pc = h.pc /\ r.todo = z
  BY <1>4 DEF Goes
<1>8. h.op # "callback" /\ h.pc \notin {"lock", "body"}
  BY DEF GoodFrame
<1>9. \A x : (\E j \in DOMAIN s : s[j] = x) <=> x = s[1] \/ \E j \in DOMAIN z : z[j] = x
  <2>1. \A j \in DOMAIN z : j + 1 \in DOMAIN s /\ z[j] = s[j + 1]
    BY <1>2, <1>3
  <2>2. \A j \in DOMAIN s : j = 1 \/ (j - 1 \in DOMAIN z /\ z[j - 1] = s[j])
    <3> SUFFICES ASSUME NEW j \in DOMAIN s, j # 1 PROVE j - 1 \in DOMAIN z /\ z[j - 1] = s[j]
      OBVIOUS
    <3>1. j - 1 \in 1..(Len(s) - 1) /\ (j - 1) + 1 = j
      BY <1>2
    <3> QED BY <1>3, <3>1
  <2>3. 1 \in DOMAIN s
    BY <1>2
  <2> QED BY <2>1, <2>2, <2>3
<1>10. \A j, k \in DOMAIN s : s[j] = s[k] /\ s[j] \in Cbs => j = k
  BY <1>1 DEF GoodFrame
<1>11. \A j, k \in DOMAIN z : z[j] = z[k] /\ z[j] \in Cbs => j = k
  <2> SUFFICES ASSUME NEW j \in DOMAIN z, NEW k \in DOMAIN z, z[j] = z[k], z[j] \in Cbs PROVE j = k
    OBVIOUS
  <2>1. j + 1 \in DOMAIN s /\ k + 1 \in DOMAIN s /\ z[j] = s[j + 1] /\ z[k] = s[k + 1]
    BY <1>2, <1>3
  <2>2. j + 1 = k + 1
    BY <1>10, <2>1
  <2> QED BY <1>2, <1>3, <2>2
<1>12. s[1] \in Cbs => \A j \in DOMAIN z : z[j] # s[1]
  <2> SUFFICES ASSUME s[1] \in Cbs, NEW j \in DOMAIN z, z[j] = s[1] PROVE FALSE
    OBVIOUS
  <2>1. j + 1 \in DOMAIN s /\ z[j] = s[j + 1] /\ 1 \in DOMAIN s /\ j + 1 # 1
    BY <1>2, <1>3
  <2> QED BY <1>10, <2>1
<1>13. GoodFrame(r)
  BY <1>7, <1>8, <1>11 DEF GoodFrame
<1>14. \A x : /\ h \in Owing(x) <=> \E j \in DOMAIN s : s[j] = x
              /\ r \in Owing(x) <=> \E j \in DOMAIN z : z[j] = x
  BY <1>1, <1>6, <1>7 DEF Owing
<1>15. \A x : /\ h \in OnNode(x) <=> r \in OnNode(x)
              /\ h \in Registering(x) <=> r \in Registering(x)
              /\ h \in Pending(x) <=> r \in Pending(x)
              /\ h \in Marking(x) <=> r \in Marking(x)
              /\ h \in Asking(x) <=> r \in Asking(x)
  BY <1>6, <1>7 DEF OnNode, Registering, Pending, Marking, Asking
<1>16. PICK b \in Callback : b = s[1]
  BY <1>2
<1>17. b = Head(h.todo) /\ r = [h EXCEPT !.todo = Tail(h.todo)]
  BY <1>1, <1>2, <1>3, <1>6, <1>16
<1>18. \A x : h \in Owing(x) <=> x = b \/ r \in Owing(x)
  BY <1>9, <1>14, <1>16
<1>19. b \in Cbs => r \notin Owing(b)
  BY <1>12, <1>14, <1>16
<1>20. Runs(h, b, r)
  BY <1>13, <1>15, <1>17, <1>18, <1>19 DEF Runs
<1> QED BY <1>6, <1>20


(* A callback of a user, or of a child, is run. *)
LEMMA RunCallbackInv ==
    ASSUME CancelInv, NEW t \in Threads, RunCallback(t)
    PROVE  CancelInv'
<1>0. StacksOK /\ FramesGood /\ Types
  BY DEF CancelInv, Types, StacksOK
<1>1. PICK h \in FrameSet : h = Top(t) /\ GoodFrame(h) /\ Some({h}) /\ stack[t] # << >> /\ h.todo # << >>
  BY <1>0, TopGood DEF RunCallback, At
<1>2. PICK b \in Callback, r \in FrameSet : Runs(h, b, r)
  BY <1>1, RunStep
<1>3. b = Head(Top(t).todo) /\ r = [Top(t) EXCEPT !.todo = Tail(@)]
  BY <1>1, <1>2 DEF Runs
<1>4. UNCHANGED <<cancelled, nextId, callbacks, senders, handle, parent, reg, fut>>
  BY DEF RunCallback
<1>5. /\ GoodFrame(r)
      /\ \A x : /\ h \in OnNode(x) <=> r \in OnNode(x)
                /\ h \in Registering(x) <=> r \in Registering(x)
                /\ h \in Pending(x) <=> r \in Pending(x)
                /\ h \in Marking(x) <=> r \in Marking(x)
                /\ h \in Asking(x) <=> r \in Asking(x)
                /\ h \in Owing(x) <=> x = b \/ r \in Owing(x)
      /\ b \in Cbs => r \notin Owing(b)
  BY <1>2 DEF Runs
<1>6. CASE b \in Cbs
  <2>1. PICK f \in FrameSet : /\ f = [Frame("callback", None, b) EXCEPT !.pc = "entered"]
                              /\ f.op = "callback" /\ f.node = None /\ f.pc = "entered" /\ f.todo = << >>
    <3>1. PICK e \in FrameSet : /\ e = Frame("callback", None, b) /\ e.op = "callback"
                                /\ e.node = None /\ e.todo = << >>
      BY FrameIs
    <3>2. e.todo \in Seq(Callback)
      BY DEF FrameSet
    <3>3. Goes(e, "entered", e.todo) \in FrameSet /\ [e EXCEPT !.pc = "entered"] = Goes(e, "entered", e.todo)
      BY <3>2, GoesOn
    <3>4. PICK f \in FrameSet : f = Goes(e, "entered", e.todo)
      BY <3>3
    <3>5. f.op = "callback" /\ f.node = None /\ f.pc = "entered" /\ f.todo = << >>
      BY <3>1, <3>4 DEF Goes
    <3> QED BY <3>1, <3>3, <3>4, <3>5
  <2>2. Nests(t, r, f) /\ ran' = [ran EXCEPT ![b] = @ + 1]
    BY <1>1, <1>3, <1>6, <2>1 DEF RunCallback, Nests
  <2>3. StacksOK' /\ \A S : Effect(S, h \in S, r \in S \/ f \in S, r \in S /\ f \in S)
    BY <1>0, <1>1, <2>2, NestEffect
  <2>4. \A x : /\ f \notin Registering(x) /\ f \notin Pending(x) /\ f \notin Marking(x)
               /\ f \notin Asking(x) /\ f \notin Owing(x)
               /\ x \in Nodes => f \notin OnNode(x)
    <3>1. None \notin Nodes
      BY CancelAssumption DEF Nodes
    <3>2. /\ f.op = "callback" /\ f.node = None /\ f.todo = << >>
      BY <2>1
    <3> QED BY ONLY <3>1, <3>2 DEF OnNode, Owing, Registering, Pending, Marking, Asking
  <2>5. \A x : /\ Same(Registering(x)) /\ Same(Marking(x)) /\ Same(Asking(x)) /\ Same(Pending(x))
               /\ x \in Nodes => Same(OnNode(x))
               /\ x # b => Same(Owing(x))
    <3>1. \A S : (h \in S <=> r \in S) /\ f \notin S => Same(S)
      BY <2>3 DEF Effect, Same
    <3> QED BY <1>5, <2>4, <3>1
  <2>6. CbInv(b) /\ One(Owing(b))
    BY <1>6 DEF CancelInv, CbInv
  <2>7. Some(Owing(b)) /\ ~Some(Owing(b))' /\ One(Owing(b))'
    BY <1>5, <1>6, <2>3, <2>4, <2>6 DEF Effect
  <2>8. \A m \in Nodes : Live(m)' <=> Live(m)
    BY <1>0, <1>4, <2>3, <2>5, LiveIs DEF Same
  <2>9. Lasts
    BY <1>4, <2>8 DEF Lasts
  <2>10. /\ ran' \in [Cbs -> Nat] /\ ran'[b] = ran[b] + 1
         /\ \A d \in Cbs : d # b => ran'[d] = ran[d]
    BY <1>0, <1>6, <2>2 DEF Types
  <2>11. Types'
    BY <1>0, <1>4, <2>3, <2>10 DEF Types, StacksOK
  <2>12. FramesGood'
    <3>1. \A e \in FrameSet : GoodFrame(e) => GoodFrame(e)'
      BY <1>4 DEF GoodFrame, Known
    <3>2. GoodFrame(f)
      BY <2>1, CancelAssumption DEF GoodFrame, Known, Nodes
    <3> QED BY <1>0, <1>5, <2>2, <3>1, <3>2, NestGood
  <2>13. \A m \in Nodes : ListInv(m)'
    BY <1>0, <1>4, ListKeep DEF CancelInv
  <2>14. \A y : /\ Listed(y)' <=> Listed(y)
                /\ \A m \in Nodes : InList(y, m)' <=> InList(y, m)
    BY <1>4 DEF Listed, InList
  <2>15. \A d \in Cbs : d # b => CbInv(d)'
    <3> SUFFICES ASSUME NEW d \in Cbs, d # b PROVE CbInv(d)'
      OBVIOUS
    <3>1. CbInv(d) /\ One(Registering(d))'
      BY <2>5 DEF CancelInv, CbInv, Same
    <3> QED BY <1>0, <1>4, <2>5, <2>9, <2>10, <2>14, <3>1, CbKeep
  <2>16. CbInv(b)'
    <3>1. ran[b] = 0 /\ ~Listed(b) /\ ~Nowhere(b)
      BY <2>6, <2>7 DEF CbInv, Nowhere
    <3>2. reg[b].st \notin {"new", "removed"} /\ ~Some(Pending(b))
      BY <2>6, <3>1 DEF CbInv
    <3>3. ran'[b] = 1
      BY <2>10, <3>1
    <3>4. Known(reg[b].node)'
      BY <1>4, <2>6 DEF CbInv, Known
    <3>5. Somewhere(b)'
      BY <3>3 DEF Somewhere
    <3>6. One(Registering(b))' /\ ~Some(Pending(b))' /\ ~Listed(b)'
      BY <2>5, <2>6, <2>14, <3>1, <3>2 DEF Same, CbInv
    <3> QED BY <1>4, <2>6, <2>7, <3>2, <3>3, <3>4, <3>5, <3>6 DEF CbInv
  <2>17. \A x \in Futs : FutInv(x)'
    <3> SUFFICES ASSUME NEW x \in Futs PROVE FutInv(x)'
      OBVIOUS
    <3>1. FutInv(x) /\ One(Asking(x))'
      BY <2>5 DEF CancelInv, FutInv, Same
    <3>2. \A m \in Nodes : x \in senders'[m] <=> x \in senders[m] /\ Live(m)'
      BY <1>4, <2>8, <3>1 DEF FutInv
    <3> QED BY <1>0, <1>4, <2>9, <3>1, <3>2, FutKeep
  <2>18. \A c \in Children : ChildInv(c)'
    <3> SUFFICES ASSUME NEW c \in Children PROVE ChildInv(c)'
      OBVIOUS
    <3>1. ChildInv(c) /\ c \in Nodes /\ c # b
      BY <1>6, CancelAssumption DEF CancelInv, Nodes
    <3>2. One(Registering(c))' /\ (OnItsWay(c) => OnItsWay(c)')
      BY <2>5, <3>1 DEF ChildInv, OnItsWay, Same
    <3> QED BY <1>0, <1>4, <2>8, <2>9, <2>14, <3>1, <3>2, ChildKeep
  <2> QED BY <2>11, <2>12, <2>13, <2>15, <2>16, <2>17, <2>18 DEF CancelInv
<1>7. CASE b \notin Cbs
  <2>1. b \in Children /\ b \in Nodes /\ ran' = ran
    BY <1>3, <1>7 DEF Callback, Nodes, RunCallback
  <2>2. \A e \in FrameSet : GoodFrame(e) => GoodFrame(e)'
    BY <1>4 DEF GoodFrame, Known
  <2>3. CASE Live(b)
    <3>1. PICK f \in FrameSet : /\ f = Frame("cancel", b, None)
                                /\ f.op = "cancel" /\ f.node = b /\ f.pc = "lock" /\ f.todo = << >>
      BY <2>1, FrameIs
    <3>2. Nests(t, r, f)
      BY <1>1, <1>3, <1>7, <2>3, <3>1 DEF RunCallback, Nests, Live
    <3>3. StacksOK' /\ \A S : Effect(S, h \in S, r \in S \/ f \in S, r \in S /\ f \in S)
      BY <1>0, <1>1, <3>2, NestEffect
    <3>4. /\ \A x : /\ f \notin Registering(x) /\ f \notin Pending(x)
                    /\ f \notin Asking(x) /\ f \notin Owing(x)
                    /\ x # b => f \notin OnNode(x) /\ f \notin Marking(x)
          /\ f \in Marking(b) /\ f \in OnNode(b)
      BY <3>1 DEF OnNode, Owing, Registering, Pending, Marking, Asking
    <3>5. \A x : /\ Same(Registering(x)) /\ Same(Asking(x)) /\ Same(Pending(x))
                 /\ x # b => Same(Owing(x)) /\ Same(OnNode(x)) /\ Same(Marking(x))
      <4>1. \A S : (h \in S <=> r \in S) /\ f \notin S => Same(S)
        BY <3>3 DEF Effect, Same
      <4> QED BY <1>5, <3>4, <4>1
    <3>6. Some(Marking(b))' /\ Some(OnNode(b))'
      BY <3>3, <3>4 DEF Effect
    <3>7. \A m \in Nodes : Live(m)' <=> Live(m)
      BY <1>0, <1>4, <2>3, <3>3, <3>5, <3>6, LiveIs DEF Same
    <3>8. handle[b] # "none"
      <4>1. Some(OnNode(b)) => handle[b] # "none"
        BY <1>0, <2>1, KindGood DEF OnNode, GoodFrame, Known
      <4> QED BY <1>0, <2>1, <2>3, <4>1, LiveIs
    <3>9. GoodFrame(f)
      BY <2>1, <3>1, <3>8 DEF GoodFrame, Known
    <3>10. FramesGood'
      BY <1>0, <1>5, <2>2, <3>2, <3>9, NestGood
    <3>11. \A d \in Cbs : Same(Owing(d)) /\ Same(Pending(d)) /\ One(Registering(d))'
      BY <1>7, <3>5 DEF CancelInv, CbInv, Same
    <3>12. \A x \in Futs : One(Asking(x))'
      BY <3>5 DEF CancelInv, FutInv, Same
    <3>13. \A c \in Children : One(Registering(c))' /\ (OnItsWay(c) => OnItsWay(c)')
      BY <3>5, <3>6 DEF CancelInv, ChildInv, OnItsWay, Same
    <3> QED BY <1>4, <2>1, <3>3, <3>7, <3>10, <3>11, <3>12, <3>13, CallsOnly
  <2>4. CASE ~Live(b)
    <3>1. Swaps(t, r)
      BY <1>1, <1>3, <1>7, <2>4 DEF RunCallback, Swaps, WithTop, Live
    <3>2. StacksOK' /\ \A S : Effect(S, h \in S, r \in S, FALSE)
      BY <1>0, <1>1, <3>1, SwapEffect
    <3>3. \A x : /\ Same(OnNode(x)) /\ Same(Registering(x)) /\ Same(Asking(x)) /\ Same(Pending(x))
                 /\ Same(Marking(x))
                 /\ x # b => Same(Owing(x))
      <4>1. \A S : (h \in S <=> r \in S) => Same(S)
        BY <3>2 DEF Effect, Same
      <4> QED BY <1>5, <4>1
    <3>4. \A m \in Nodes : Live(m)' <=> Live(m)
      BY <1>0, <1>4, <3>2, <3>3, LiveIs DEF Same
    <3>5. FramesGood'
      <4>1. ~Some({})
        BY DEF Some
      <4> QED BY <1>0, <1>1, <1>5, <2>2, <3>1, <4>1, SwapGood
    <3>6. \A d \in Cbs : Same(Owing(d)) /\ Same(Pending(d)) /\ One(Registering(d))'
      BY <1>7, <3>3 DEF CancelInv, CbInv, Same
    <3>7. \A x \in Futs : One(Asking(x))'
      BY <3>3 DEF CancelInv, FutInv, Same
    <3>8. \A c \in Children : One(Registering(c))' /\ (OnItsWay(c) => OnItsWay(c)' \/ ~Live(c)')
      <4> SUFFICES ASSUME NEW c \in Children
                   PROVE  One(Registering(c))' /\ (OnItsWay(c) => OnItsWay(c)' \/ ~Live(c)')
        OBVIOUS
      <4>1. One(Registering(c))'
        BY <3>3 DEF CancelInv, ChildInv, Same
      <4>2. CASE c # b
        BY <3>3, <4>1, <4>2 DEF OnItsWay, Same
      <4>3. CASE c = b
        BY <2>1, <2>4, <3>4, <4>1, <4>3
      <4> QED BY <4>2, <4>3
    <3> QED BY <1>4, <2>1, <3>2, <3>4, <3>5, <3>6, <3>7, <3>8, CallsOnly
  <2> QED BY <2>3, <2>4
<1> QED BY <1>6, <1>7


(* A call returns. *)
LEMMA ReturnInv ==
    ASSUME CancelInv, NEW t \in Threads, Return(t)
    PROVE  CancelInv'
<1>0. StacksOK /\ FramesGood /\ Types
  BY DEF CancelInv, Types, StacksOK
<1>1. PICK h \in FrameSet : h = Top(t) /\ GoodFrame(h) /\ Some({h}) /\ stack[t] # << >>
  BY <1>0, TopGood DEF Return, At
<1>2. h.todo = << >> /\ (h.pc = "run" \/ h.op = "callback")
  BY <1>1 DEF Return, At, GoodFrame
<1>3. Ends(t)
  BY <1>1 DEF Return, Ends
<1>4. StacksOK' /\ \A S : Effect(S, h \in S, FALSE, FALSE)
  BY <1>0, <1>1, <1>3, EndEffect
<1>5. \A x : h \notin Pending(x) /\ h \notin Marking(x) /\ h \notin Asking(x) /\ h \notin Owing(x)
  BY <1>2 DEF Owing, Pending, Marking, Asking
<1>6. \A x : /\ Same(Pending(x)) /\ Same(Marking(x)) /\ Same(Asking(x)) /\ Same(Owing(x))
             /\ One(Registering(x)) => One(Registering(x))'
             /\ Some(OnNode(x))' => Some(OnNode(x))
  BY <1>4, <1>5 DEF Effect, Same
<1>7. UNCHANGED <<cancelled, nextId, parent, fut, ran>>
  BY DEF Return
<1>8. Collects
  BY DEF Return, Collect, Collects, Live
<1>9. /\ handle' \in [Nodes -> {"none", "building", "held", "gone"}]
      /\ \A m \in Nodes : \/ handle'[m] = handle[m]
                          \/ /\ h.op = "register" /\ h.arg = m /\ m \in Children
                             /\ handle[m] = "building" /\ handle'[m] = "held"
  <2>1. CASE h.op = "register" /\ h.arg \in Children
    <3>1. handle' = [handle EXCEPT ![h.arg] = "held"] /\ handle[h.arg] = "building" /\ h.arg \in Nodes
      BY <1>1, <2>1 DEF Return, GoodFrame, Nodes
    <3> QED BY <1>0, <2>1, <3>1 DEF Types
  <2>2. CASE ~(h.op = "register" /\ h.arg \in Children)
    <3>1. handle' = handle
      BY <1>1, <2>2 DEF Return
    <3> QED BY <1>0, <3>1 DEF Types
  <2> QED BY <2>1, <2>2
<1>10. /\ reg' \in [Cbs -> Regs]
       /\ \A d \in Cbs : /\ reg'[d].node = reg[d].node /\ reg'[d].id = reg[d].id
                         /\ \/ reg'[d] = reg[d]
                            \/ /\ h.op = "register" /\ h.arg = d
                               /\ reg[d].st = "registering" /\ reg'[d].st = "held"
  <2>1. CASE h.op = "register" /\ h.arg \in Cbs
    <3>1. PICK b \in Cbs : b = h.arg
      BY <2>1
    <3>2. reg' = [reg EXCEPT ![b].st = "held"] /\ reg[b].st = "registering"
      BY <1>1, <2>1, <3>1 DEF Return, GoodFrame
    <3>3. /\ reg' \in [Cbs -> Regs] /\ \A d \in Cbs : d # b => reg'[d] = reg[d]
          /\ reg'[b].st = "held" /\ reg'[b].node = reg[b].node /\ reg'[b].id = reg[b].id
      BY <1>0, <3>2 DEF Types, Regs
    <3> QED BY <2>1, <3>1, <3>2, <3>3
  <2>2. CASE ~(h.op = "register" /\ h.arg \in Cbs)
    <3>1. reg' = reg
      BY <1>1, <2>2 DEF Return
    <3> QED BY <1>0, <3>1 DEF Types
  <2> QED BY <2>1, <2>2
<1>11. /\ callbacks' \in [Nodes -> Seq(Entry)] /\ senders' \in [Nodes -> SUBSET Futs]
       /\ \A m \in Nodes : callbacks'[m] = callbacks[m] \/ callbacks'[m] = << >>
       /\ \A x : Listed(x)' => Listed(x)
       /\ \A x : \A m \in Nodes : InList(x, m) /\ Live(m)' => InList(x, m)'
       /\ \A b \in Cbs : \A m \in Nodes : reg[b].node = m /\ Live(m)' /\ Listed(b) => Listed(b)'
       /\ \A x : \A m \in Nodes : x \in senders'[m] <=> x \in senders[m] /\ Live(m)'
  BY <1>8, Collected
<1>12. Types'
  BY <1>0, <1>4, <1>7, <1>9, <1>10, <1>11 DEF Types, StacksOK
<1>13. FramesGood'
  <2>1. CASE h.op = "register"
    <3>1. PICK a \in Callback : a = h.arg
      BY <1>1, <2>1 DEF GoodFrame
    <3>2. h \in Registering(a) /\ One(Registering(a))
      BY <2>1, <3>1 DEF Registering, CancelInv, CbInv, ChildInv, Callback
    <3>3. ASSUME NEW e \in FrameSet, e \notin Registering(a), GoodFrame(e) PROVE GoodFrame(e)'
      <4>1. e.op = "register" => e.arg # a
        BY <3>3 DEF Registering
      <4>2. /\ \A d \in Cbs : d # a => reg'[d] = reg[d]
            /\ \A d \in Cbs : reg'[d].node = reg[d].node
            /\ \A d \in Cbs : reg[d].st \in {"disposing", "removed", "disposed"} => reg'[d].st = reg[d].st
            /\ \A m \in Nodes : m # a => handle'[m] = handle[m]
            /\ \A m \in Nodes : handle[m] # "none" => handle'[m] # "none"
        BY <1>9, <1>10, <3>1
      <4> QED BY <1>7, <3>3, <4>1, <4>2 DEF GoodFrame, Known, Nodes
    <3> QED BY <1>0, <1>1, <1>3, <3>2, <3>3, EndGood
  <2>2. CASE h.op # "register"
    <3>1. (\A d \in Cbs : reg'[d] = reg[d]) /\ (\A m \in Nodes : handle'[m] = handle[m])
      BY <1>9, <1>10, <2>2
    <3>2. \A e \in FrameSet : GoodFrame(e) => GoodFrame(e)'
      BY <1>7, <3>1 DEF GoodFrame, Known, Nodes
    <3>3. ~Some({})
      BY DEF Some
    <3> QED BY <1>0, <1>1, <1>3, <3>2, <3>3, EndGood
  <2> QED BY <2>1, <2>2
<1>14. \A m \in Nodes : Live(m)' => Live(m)
  BY <1>0, <1>4, <1>6, <1>9, LiveIs
<1>15. Lasts
  BY <1>9, <1>14 DEF Lasts
<1>16. \A m \in Nodes : ListInv(m)'
  BY <1>0, <1>7, <1>10, <1>11, ListKeep DEF CancelInv
<1>17. ASSUME NEW b \in Cbs PROVE CbInv(b)'
  <2>1. CbInv(b) /\ One(Registering(b))'
    BY <1>6 DEF CancelInv, CbInv
  <2>2. CASE reg'[b] = reg[b]
    BY <1>0, <1>6, <1>7, <1>11, <1>15, <2>1, <2>2, CbKeep
  <2>3. CASE reg[b].st = "registering" /\ reg'[b].st = "held"
    <3>1. /\ Some(Owing(b))' <=> Some(Owing(b))
          /\ Some(Pending(b))' <=> Some(Pending(b))
          /\ One(Owing(b))'
      BY <1>6, <2>1 DEF Same, CbInv
    <3>2. Some(Pending(b)) => Nowhere(b)' /\ reg[b].id = NoId
      BY <1>7, <1>11, <2>1, <3>1 DEF CbInv, Nowhere
    <3>3. Known(reg[b].node)'
      BY <1>10, <1>15, <2>1 DEF CbInv, Known, Lasts
    <3>4. ASSUME NEW m \in Nodes, reg[b].node = m, Live(m)', ~Some(Pending(b))
          PROVE  Somewhere(b)'
      <4>1. Somewhere(b)
        BY <1>14, <2>1, <2>3, <3>4 DEF CbInv
      <4> QED BY <1>7, <1>11, <3>1, <3>4, <4>1 DEF Somewhere
    <3>5. Listed(b)' => ran[b] = 0 /\ ~Some(Owing(b))
      BY <1>11, <2>1 DEF CbInv
    <3> QED BY <1>7, <1>10, <2>1, <2>3, <3>1, <3>2, <3>3, <3>4, <3>5 DEF CbInv
  <2> QED BY <1>10, <2>2, <2>3
<1>18. ASSUME NEW x \in Futs PROVE FutInv(x)'
  <2>1. FutInv(x) /\ One(Asking(x))'
    BY <1>6 DEF CancelInv, FutInv, Same
  <2> QED BY <1>0, <1>7, <1>11, <1>15, <2>1, FutKeep
<1>19. ASSUME NEW c \in Children PROVE ChildInv(c)'
  <2>1. ChildInv(c) /\ c \in Nodes
    BY DEF CancelInv, Nodes
  <2>2. One(Registering(c))' /\ (OnItsWay(c) => OnItsWay(c)')
    BY <1>6, <2>1 DEF ChildInv, OnItsWay, Same
  <2> QED BY <1>0, <1>7, <1>11, <1>14, <1>15, <2>1, <2>2, ChildKeep
<1> QED BY <1>12, <1>13, <1>16, <1>17, <1>18, <1>19 DEF CancelInv

(* A step that changes nothing. *)
LEMMA IdleInv ==
    ASSUME CancelInv, UNCHANGED cancelVars
    PROVE  CancelInv'
<1>1. UNCHANGED <<cancelled, nextId, callbacks, senders, handle, parent, reg, fut, ran, stack>>
  BY DEF cancelVars
<1>2. StacksOK /\ FramesGood /\ StacksOK' /\ \A S : Same(S)
  BY <1>1 DEF CancelInv, Types, StacksOK, Same, Some, One
<1>3. FramesGood'
  <2>1. \A e \in FrameSet : GoodFrame(e) => GoodFrame(e)'
    BY <1>1 DEF GoodFrame, Known
  <2> QED BY <1>1, <1>2, <2>1, StillGood
<1>4. \A n \in Nodes : Live(n)' <=> Live(n)
  BY <1>1, <1>2, LiveIs DEF Same
<1>5. /\ \A b \in Cbs : One(Registering(b))'
      /\ \A x \in Futs : One(Asking(x))'
      /\ \A c \in Children : One(Registering(c))' /\ (OnItsWay(c) => OnItsWay(c)')
  BY <1>2 DEF CancelInv, CbInv, FutInv, ChildInv, OnItsWay, Same
<1> QED BY <1>1, <1>2, <1>3, <1>4, <1>5, CallsOnly


-----------------------------------------------------------------------------
(* The theorems.                                                           *)

(* The invariant holds before the first call. *)
LEMMA InitInv == CancelInit => CancelInv
<1> SUFFICES ASSUME CancelInit PROVE CancelInv
  OBVIOUS
<1>0. None \notin Nodes
  BY CancelAssumption DEF Nodes
<1>1. Types
  <2>1. << >> \in Seq(Entry) /\ << >> \in Seq(FrameSet)
    OBVIOUS
  <2>2. [st |-> "new", node |-> None, id |-> NoId] \in Regs
    BY DEF Regs
  <2> QED BY <2>1, <2>2 DEF CancelInit, Types
<1>2. \A S : ~Some(S) /\ One(S)
  BY DEF CancelInit, Some, One
<1>3. \A x : ~Listed(x)
  BY DEF CancelInit, Listed, InList
<1>4. FramesGood
  BY <1>2 DEF FramesGood
<1>5. \A n \in Nodes : ListInv(n)
  BY DEF CancelInit, ListInv
<1>6. \A b \in Cbs : CbInv(b)
  <2> SUFFICES ASSUME NEW b \in Cbs PROVE CbInv(b)
    OBVIOUS
  <2>1. /\ reg[b] = [st |-> "new", node |-> None, id |-> NoId] /\ ran[b] = 0
        /\ reg[b].st = "new" /\ reg[b].node = None /\ reg[b].id = NoId
    BY DEF CancelInit
  <2>2. Nowhere(b) /\ Known(reg[b].node)
    BY <1>0, <1>2, <1>3, <2>1 DEF Nowhere, Known
  <2> QED BY <1>2, <1>3, <2>1, <2>2 DEF CbInv
<1>7. \A x \in Futs : FutInv(x)
  <2> SUFFICES ASSUME NEW x \in Futs PROVE FutInv(x)
    OBVIOUS
  <2>1. fut[x] = None /\ \A n \in Nodes : x \notin senders[n] /\ n # None
    BY <1>0 DEF CancelInit
  <2>2. Known(fut[x])
    BY <1>0, <2>1 DEF Known
  <2> QED BY <1>2, <2>1, <2>2 DEF FutInv
<1>8. \A c \in Children : ChildInv(c)
  <2> SUFFICES ASSUME NEW c \in Children PROVE ChildInv(c)
    OBVIOUS
  <2>1. parent[c] = None /\ \A n \in Nodes : n # None
    BY <1>0 DEF CancelInit
  <2>2. Known(parent[c])
    BY <1>0, <2>1 DEF Known
  <2> QED BY <1>2, <2>1, <2>2 DEF ChildInv
<1> QED BY <1>1, <1>4, <1>5, <1>6, <1>7, <1>8 DEF CancelInv

(* Every step preserves the invariant. *)
LEMMA NextInv == CancelInv /\ [CancelNext]_cancelVars => CancelInv'
<1> SUFFICES ASSUME CancelInv, [CancelNext]_cancelVars PROVE CancelInv'
  OBVIOUS
<1>1. CASE UNCHANGED cancelVars
  BY <1>1, IdleInv
<1>2. ASSUME NEW n \in Nodes, DropHandles(n) PROVE CancelInv'
  BY <1>2, DropHandlesInv
<1>3. ASSUME NEW t \in Threads, Call(t) PROVE CancelInv'
  BY <1>3, CallCancelInv, CallRegisterInv, CallSpawnInv, CallFutureInv, CallDisposeInv DEF Call
<1>4. ASSUME NEW t \in Threads, Step(t) PROVE CancelInv'
  BY <1>4, LockInv, CancelBodyInv, RegisterBodyInv, UnregisterBodyInv, FutureBodyInv,
     RunCallbackInv, ReturnInv DEF Step
<1> QED BY <1>1, <1>2, <1>3, <1>4 DEF CancelNext

(* cancel_src, whatever the threads call and however their calls, callbacks
   and drops interleave: the calls in progress, the lists, the registrations,
   the senders and the children of every node stay in step. *)
THEOREM CancelInvariance == CancelSpec => []CancelInv
<1>1. CancelInit => CancelInv
  BY InitInv
<1>2. CancelInv /\ [CancelNext]_cancelVars => CancelInv'
  BY NextInv
<1> QED BY <1>1, <1>2, PTL DEF CancelSpec

(* Inner::cancel_future: a pending future belongs to a live node that is not
   cancelled, and while its node lives uncancelled a future is pending, for
   any number of threads, nodes and futures. *)
THEOREM FuturesMatch == CancelSpec => []FutureMatches
<1>1. CancelInv => FutureMatches
  BY DEF CancelInv, FutInv, FutureMatches
<1> QED BY <1>1, CancelInvariance, PTL

(* Calls in progress, by their place. *)
LEMMA FrameAtIs ==
    ASSUME StacksOK, NEW S, Some(S)
    PROVE  \E p \in Frames : FrameAt(p) \in S /\ FrameAt(p) \in FrameSet
<1>1. PICK t \in Threads : \E d \in 1..Len(stack[t]) : stack[t][d] \in S
  BY DEF Some
<1>2. PICK d \in 1..Len(stack[t]) : stack[t][d] \in S
  BY <1>1
<1>3. d \in DOMAIN stack[t] /\ stack[t][d] \in FrameSet
  BY DEF StacksOK
<1>4. <<t, d>> \in Frames
  BY <1>3 DEF Frames
<1>5. FrameAt(<<t, d>>) = stack[t][d]
  BY DEF FrameAt
<1> QED BY <1>2, <1>3, <1>4, <1>5

(* spawn_child_token: a live child of a cancelled node is cancelled, or some
   thread is on its way to cancel it. *)
THEOREM ChildrenFollow == CancelSpec => []ChildFollows
<1>1. CancelInv => ChildFollows
  <2> SUFFICES ASSUME CancelInv, NEW c \in Children,
                      parent[c] # None, Live(c), ~cancelled[c], ~Owed(c)
               PROVE  /\ ~cancelled[parent[c]]
                      /\ Live(parent[c]) => \E i \in DOMAIN callbacks[parent[c]] : callbacks[parent[c]][i].cb = c
    BY DEF ChildFollows
  <2>0. StacksOK /\ ChildInv(c)
    BY DEF CancelInv, Types, StacksOK
  <2>1. PICK n \in Nodes : n = parent[c]
    BY DEF CancelInv, Types
  <2>2. ~Some(Owing(c))
    <3> SUFFICES ASSUME Some(Owing(c)) PROVE FALSE
      OBVIOUS
    <3>1. PICK p \in Frames : FrameAt(p) \in Owing(c)
      BY <2>0, FrameAtIs
    <3>2. c \in Range(FrameAt(p).todo)
      BY <3>1 DEF Owing, Range
    <3> QED BY <3>2 DEF Owed
  <2>3. ~Some(Marking(c))
    <3> SUFFICES ASSUME Some(Marking(c)) PROVE FALSE
      OBVIOUS
    <3>1. PICK p \in Frames : FrameAt(p) \in Marking(c)
      BY <2>0, FrameAtIs
    <3> QED BY <3>1 DEF Owed, Marking
  <2>4. ~Some(Pending(c))
    <3> SUFFICES ASSUME Some(Pending(c)) PROVE FALSE
      OBVIOUS
    <3>1. PICK p \in Frames : FrameAt(p) \in Pending(c)
      BY <2>0, FrameAtIs
    <3> QED BY <3>1 DEF Owed, Pending
  <2>5. ~cancelled[n] /\ (Live(n) => InList(c, n))
    BY <2>0, <2>1, <2>2, <2>3, <2>4 DEF ChildInv, OnItsWay
  <2> QED BY <2>1, <2>5 DEF InList
<1> QED BY <1>1, CancelInvariance, PTL

(* The calls that have a callback to run are one or none, and so are the
   entries of a list. *)
LEMMA Counted ==
    ASSUME CancelInv, NEW b \in Cbs
    PROVE  /\ Cardinality({p \in Frames : b \in Range(FrameAt(p).todo)})
                = IF Some(Owing(b)) THEN 1 ELSE 0
           /\ Cardinality({e \in Entries : callbacks[e[1]][e[2]].cb = b})
                = IF Listed(b) THEN 1 ELSE 0
<1>0. StacksOK /\ CbInv(b) /\ Types
  BY DEF CancelInv, Types, StacksOK
<1>1. \A p \in Frames : /\ p = <<p[1], p[2]>> /\ p[1] \in Threads /\ p[2] \in 1..Len(stack[p[1]])
                        /\ FrameAt(p) = stack[p[1]][p[2]] /\ FrameAt(p) \in FrameSet
  BY <1>0 DEF Frames, FrameAt, StacksOK
<1>2. \A p \in Frames : b \in Range(FrameAt(p).todo) <=> FrameAt(p) \in Owing(b)
  BY <1>1 DEF Owing, Range
<1>3. ASSUME Some(Owing(b)) PROVE Cardinality({p \in Frames : b \in Range(FrameAt(p).todo)}) = 1
  <2>1. PICK q \in Frames : FrameAt(q) \in Owing(b)
    BY <1>0, <1>3, FrameAtIs
  <2>2. ASSUME NEW p \in Frames, FrameAt(p) \in Owing(b) PROVE p = q
    <3>1. p[1] = q[1] /\ p[2] = q[2]
      BY <1>0, <1>1, <2>1, <2>2 DEF CbInv, One
    <3> QED BY <1>1, <3>1
  <2>3. {p \in Frames : b \in Range(FrameAt(p).todo)} = {q}
    BY <1>2, <2>1, <2>2
  <2> QED BY <1>3, <2>3, FS_Singleton
<1>4. ASSUME ~Some(Owing(b)) PROVE Cardinality({p \in Frames : b \in Range(FrameAt(p).todo)}) = 0
  <2>1. \A p \in Frames : FrameAt(p) \notin Owing(b)
    BY <1>1, <1>4 DEF Some
  <2>2. {p \in Frames : b \in Range(FrameAt(p).todo)} = {}
    BY <1>2, <2>1
  <2> QED BY <1>4, <2>2, FS_EmptySet
<1>5. \A e \in Entries : e = <<e[1], e[2]>> /\ e[1] \in Nodes /\ e[2] \in DOMAIN callbacks[e[1]]
  BY DEF Entries
<1>6. ASSUME Listed(b) PROVE Cardinality({e \in Entries : callbacks[e[1]][e[2]].cb = b}) = 1
  <2>1. PICK n \in Nodes : InList(b, n)
    BY <1>6 DEF Listed
  <2>2. PICK i \in DOMAIN callbacks[n] : callbacks[n][i].cb = b
    BY <2>1 DEF InList
  <2>3. PICK q : q = <<n, i>>
    OBVIOUS
  <2>4. q \in Entries /\ q[1] = n /\ q[2] = i
    BY <2>3 DEF Entries
  <2>5. ASSUME NEW e \in Entries, callbacks[e[1]][e[2]].cb = b PROVE e = q
    <3>1. PICK m \in Nodes : m = e[1] /\ e[2] \in DOMAIN callbacks[m]
      BY <1>5
    <3>2. PICK j \in DOMAIN callbacks[m] : j = e[2] /\ callbacks[m][j].cb = b
      BY <2>5, <3>1
    <3>3. ListInv(m) /\ ListInv(n)
      BY DEF CancelInv
    <3>4. /\ reg[b].node = m /\ reg[b].id = callbacks[m][j].id
          /\ reg[b].node = n /\ reg[b].id = callbacks[n][i].id
      BY <2>2, <3>2, <3>3 DEF ListInv
    <3>5. m = n /\ j = i
      BY <3>3, <3>4 DEF ListInv
    <3> QED BY <1>5, <2>3, <3>1, <3>2, <3>5
  <2>6. {e \in Entries : callbacks[e[1]][e[2]].cb = b} = {q}
    BY <2>2, <2>4, <2>5
  <2> QED BY <1>6, <2>6, FS_Singleton
<1>7. ASSUME ~Listed(b) PROVE Cardinality({e \in Entries : callbacks[e[1]][e[2]].cb = b}) = 0
  <2>1. {e \in Entries : callbacks[e[1]][e[2]].cb = b} = {}
    BY <1>5, <1>7 DEF Listed, InList
  <2> QED BY <1>7, <2>1, FS_EmptySet
<1> QED BY <1>3, <1>4, <1>6, <1>7

(* CancellationToken::register and Inner::cancel: a callback is never in two
   places, is in one while its registration is held and its node lives, and in
   none once it has been withdrawn. *)
THEOREM CallbacksAccounted == CancelSpec => []CallbackAccounted
<1>1. CancelInv => CallbackAccounted
  <2> SUFFICES ASSUME CancelInv, NEW b \in Cbs
               PROVE  /\ Copies(b) <= 1
                      /\ reg[b].st = "held" /\ Live(reg[b].node) => Copies(b) = 1
                      /\ reg[b].st = "removed" => Copies(b) = 0
    BY DEF CallbackAccounted
  <2>0. StacksOK /\ FramesGood /\ CbInv(b)
    BY DEF CancelInv, Types, StacksOK
  <2>1. Copies(b) = ran[b] + (IF Some(Owing(b)) THEN 1 ELSE 0) + (IF Listed(b) THEN 1 ELSE 0)
    BY Counted DEF Copies
  <2>2. Copies(b) <= 1 /\ (Somewhere(b) => Copies(b) = 1) /\ (Nowhere(b) => Copies(b) = 0)
    BY <2>0, <2>1 DEF CbInv, Somewhere, Nowhere
  <2>3. reg[b].st = "held" /\ Live(reg[b].node) => Somewhere(b)
    <3> SUFFICES ASSUME reg[b].st = "held", Live(reg[b].node) PROVE Somewhere(b)
      OBVIOUS
    <3>1. ~Some(Pending(b))
      BY <2>0, KindGood DEF Pending, GoodFrame
    <3>2. PICK n \in Nodes : n = reg[b].node
      BY <2>0 DEF CbInv
    <3> QED BY <2>0, <3>1, <3>2 DEF CbInv
  <2>4. reg[b].st = "removed" => Nowhere(b)
    BY <2>0 DEF CbInv
  <2> QED BY <2>2, <2>3, <2>4
<1> QED BY <1>1, CancelInvariance, PTL

=============================================================================
