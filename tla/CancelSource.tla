---------------------------- MODULE CancelSource ----------------------------
(***************************************************************************)
(* cancel_src: a CancellationTokenSource, its tokens, the callbacks        *)
(* registered on them, the futures that resolve on cancellation and the    *)
(* child tokens, used by several threads.                                  *)
(*                                                                         *)
(* A node is one shared `Inner'.  Root belongs to a source; the others are *)
(* made by spawn_child_token.  Only a source can be cancelled by a caller: *)
(* a child is cancelled by the callback its parent holds.  Each thread has *)
(* a stack of frames, because `cancel' and `register' run callbacks, and a *)
(* callback may call back into this or another node.                       *)
(***************************************************************************)
EXTENDS Integers, Sequences, FiniteSets, SequencesExt

CONSTANTS Threads,      \* the threads that use the tokens
          Root,         \* the node of the source
          Children,     \* nodes that spawn_child_token may create
          Cbs,          \* callbacks given to CancellationToken::register
          Futs,         \* futures made by `cancellation'
          MaxCalls,     \* bound: calls all threads make outside callbacks
          None

ASSUME CancelAssumption == /\ MaxCalls \in Nat
                           /\ Root \notin Children
                           /\ Cbs \cap Children = {}
                           /\ None \notin Threads \cup Children \cup {Root}

VARIABLES cancelled,    \* State.cancelled of each node
          nextId,       \* State.next_id
          callbacks,    \* State.callbacks: a list of [id, cb]
          senders,      \* State.cancel_senders: the futures not yet resolved
          locked,       \* SpinMutex.locked, with its owner
          handle,       \* "none", "building", "held", "gone": sources and tokens alive
          parent,       \* the node a child was spawned from
          reg,          \* what became of each registration handle
          fut,          \* the node of each future, None before it exists
          ran,          \* how often each callback has run
          stack,        \* the calls in progress of each thread, innermost last
          calls         \* calls made outside callbacks

cancelVars == <<cancelled, nextId, callbacks, senders, locked, handle, parent, reg, fut, ran, stack, calls>>

Nodes == {Root} \cup Children

\* A callback is a user's, or the one spawn_child_token puts on the parent
\* (it holds a Weak pointer to the child, and is written as the child).
Callback == Cbs \cup Children
NoId == -1
Ids == 0..(Cardinality(Callback) - 1)

CancelInit == /\ cancelled = [n \in Nodes |-> FALSE]
              /\ nextId = [n \in Nodes |-> 0]
              /\ callbacks = [n \in Nodes |-> << >>]
              /\ senders = [n \in Nodes |-> {}]
              /\ locked = [n \in Nodes |-> None]
              /\ handle = [n \in Nodes |-> IF n = Root THEN "held" ELSE "none"]
              /\ parent = [c \in Children |-> None]
              /\ reg = [b \in Cbs |-> [st |-> "new", node |-> None, id |-> NoId]]
              /\ fut = [f \in Futs |-> None]
              /\ ran = [b \in Cbs |-> 0]
              /\ stack = [t \in Threads |-> << >>]
              /\ calls = 0

-----------------------------------------------------------------------------
(* Frames.  `arg' is the callback, future or child of the call; `todo' the *)
(* callbacks the call still has to run.                                    *)

Frame(op, n, arg) == [op |-> op, node |-> n, arg |-> arg, pc |-> "lock", todo |-> << >>]

Top(t) == Last(stack[t])
At(t, pc) == stack[t] # << >> /\ Top(t).pc = pc
NewTop(s, f) == [s EXCEPT ![Len(s)] = f]
WithTop(t, f) == [stack EXCEPT ![t] = NewTop(@, f)]

InProgress(a) == \E t \in Threads : \E i \in DOMAIN stack[t] : stack[t][i].arg = a

\* A strong reference exists: a handle, or a call that borrowed one or has
\* upgraded a Weak pointer.
Alive(h, s, n) == h[n] \in {"building", "held"}
                  \/ \E t \in Threads : \E i \in DOMAIN s[t] : s[t][i].node = n

\* The last strong reference is gone: Inner is dropped, with its callbacks
\* and its senders.
Collect(h, s) ==
    /\ callbacks' = [n \in Nodes |-> IF Alive(h, s, n) THEN callbacks[n] ELSE << >>]
    /\ senders' = [n \in Nodes |-> IF Alive(h, s, n) THEN senders[n] ELSE {}]

-----------------------------------------------------------------------------
(* Callers.  A thread outside every call, or inside a callback, may call.  *)

\* Inside a callback one call is allowed; outside, MaxCalls.
MayCall(t) == IF stack[t] = << >> THEN calls < MaxCalls
              ELSE Top(t).op = "callback" /\ Top(t).pc = "entered"

Enter(t, f) ==
    /\ MayCall(t)
    /\ calls' = IF stack[t] = << >> THEN calls + 1 ELSE calls
    /\ stack' = [stack EXCEPT ![t] = Append(IF @ = << >> THEN @
                                             ELSE NewTop(@, [Last(@) EXCEPT !.pc = "leaving"]), f)]

\* CancellationTokenSource::cancel.
CallCancel(t) == /\ handle[Root] = "held"
                 /\ Enter(t, Frame("cancel", Root, None))
                 /\ UNCHANGED <<cancelled, nextId, callbacks, senders, locked, handle, parent, reg, fut, ran>>

\* CancellationToken::register.
CallRegister(t, n, b) ==
    /\ handle[n] = "held" /\ reg[b].st = "new"
    /\ reg' = [reg EXCEPT ![b].st = "registering", ![b].node = n]
    /\ Enter(t, Frame("register", n, b))
    /\ UNCHANGED <<cancelled, nextId, callbacks, senders, locked, handle, parent, fut, ran>>

\* CancellationToken::spawn_child_token: a fresh Inner, then register.
CallSpawn(t, n, c) ==
    /\ handle[n] = "held" /\ handle[c] = "none"
    /\ handle' = [handle EXCEPT ![c] = "building"]
    /\ parent' = [parent EXCEPT ![c] = n]
    /\ Enter(t, Frame("register", n, c))
    /\ UNCHANGED <<cancelled, nextId, callbacks, senders, locked, reg, fut, ran>>

\* CancellationToken::cancellation.
CallFuture(t, n, f) ==
    /\ handle[n] = "held" /\ fut[f] = None /\ ~InProgress(f)
    /\ Enter(t, Frame("future", n, f))
    /\ UNCHANGED <<cancelled, nextId, callbacks, senders, locked, handle, parent, reg, fut, ran>>

\* Drop (or dispose) of a registration: nothing without an id or without a
\* live Inner, else unregister.
CallDispose(t, b) ==
    /\ reg[b].st = "held"
    /\ IF reg[b].id # NoId /\ Alive(handle, stack, reg[b].node)
       THEN /\ reg' = [reg EXCEPT ![b].st = "disposing"]
            /\ Enter(t, Frame("unregister", reg[b].node, b))
       ELSE /\ MayCall(t)
            /\ reg' = [reg EXCEPT ![b].st = "disposed"]
            /\ UNCHANGED <<stack, calls>>
    /\ UNCHANGED <<cancelled, nextId, callbacks, senders, locked, handle, parent, fut, ran>>

\* The last source or token of a node goes out of scope.
DropHandles(n) ==
    /\ handle[n] = "held"
    /\ handle' = [handle EXCEPT ![n] = "gone"]
    /\ Collect(handle', stack)
    /\ UNCHANGED <<cancelled, nextId, locked, parent, reg, fut, ran, stack, calls>>

-----------------------------------------------------------------------------
(* The calls.                                                              *)

\* SpinMutex::lock: the exchange that succeeds.
Lock(t) ==
    /\ At(t, "lock") /\ locked[Top(t).node] = None
    /\ locked' = [locked EXCEPT ![Top(t).node] = t]
    /\ stack' = WithTop(t, [Top(t) EXCEPT !.pc = "body"])
    /\ UNCHANGED <<cancelled, nextId, callbacks, senders, handle, parent, reg, fut, ran, calls>>

Critical(t, op) == At(t, "body") /\ Top(t).op = op
Unlock(n) == locked' = [locked EXCEPT ![n] = None]
Continue(t, pc, todo) == stack' = WithTop(t, [Top(t) EXCEPT !.pc = pc, !.todo = todo])

\* Inner::cancel under the lock: the early return, or the flag, the senders
\* and the callbacks.
MarkCancelled(t) == LET n == Top(t).node IN
    IF cancelled[n]
    THEN Continue(t, "run", << >>) /\ UNCHANGED <<cancelled, senders, callbacks>>
    ELSE /\ cancelled' = [cancelled EXCEPT ![n] = TRUE]
         /\ senders' = [senders EXCEPT ![n] = {}]
         /\ callbacks' = [callbacks EXCEPT ![n] = << >>]
         /\ Continue(t, "run", [i \in DOMAIN callbacks[n] |-> callbacks[n][i].cb])

\* A slip: the early return for a node already cancelled leaves the lock taken.
CancelBodyKeepsLock(t) ==
    /\ Critical(t, "cancel")
    /\ MarkCancelled(t)
    /\ IF cancelled[Top(t).node] THEN UNCHANGED locked ELSE Unlock(Top(t).node)
    /\ UNCHANGED <<nextId, handle, parent, reg, fut, ran, calls>>

CancelBody(t) ==
    /\ Critical(t, "cancel")
    /\ MarkCancelled(t)
    /\ Unlock(Top(t).node)
    /\ UNCHANGED <<nextId, handle, parent, reg, fut, ran, calls>>

\* The id a registration receives.
FreshId(n) == nextId[n]

\* A slip: a callback registered on a cancelled node is kept, not run.
RegisterBodyKeeps(t) == LET n == Top(t).node
                            b == Top(t).arg IN
    /\ Critical(t, "register")
    /\ Unlock(n)
    /\ callbacks' = [callbacks EXCEPT ![n] = Append(@, [id |-> FreshId(n), cb |-> b])]
    /\ nextId' = [nextId EXCEPT ![n] = @ + 1]
    /\ reg' = IF b \in Cbs THEN [reg EXCEPT ![b].id = FreshId(n)] ELSE reg
    /\ Continue(t, "run", << >>)
    /\ UNCHANGED <<cancelled, senders, handle, parent, fut, ran, calls>>

\* Inner::register under the lock: a cancelled node runs the callback after
\* unlocking, any other keeps it.
RegisterBody(t) == LET n == Top(t).node
                       b == Top(t).arg IN
    /\ Critical(t, "register")
    /\ Unlock(n)
    /\ IF cancelled[n]
       THEN Continue(t, "run", <<b>>) /\ UNCHANGED <<nextId, callbacks, reg>>
       ELSE /\ callbacks' = [callbacks EXCEPT ![n] = Append(@, [id |-> FreshId(n), cb |-> b])]
            /\ nextId' = [nextId EXCEPT ![n] = @ + 1]
            /\ reg' = IF b \in Cbs THEN [reg EXCEPT ![b].id = FreshId(n)] ELSE reg
            /\ Continue(t, "run", << >>)
    /\ UNCHANGED <<cancelled, senders, handle, parent, fut, ran, calls>>

\* A slip: the newest entry is removed, whatever its id.
UnregisterBodyNewest(t) == LET n == Top(t).node
                               b == Top(t).arg IN
    /\ Critical(t, "unregister")
    /\ callbacks' = [callbacks EXCEPT ![n] = IF @ = << >> THEN @ ELSE Front(@)]
    /\ reg' = [reg EXCEPT ![b].st = IF \E i \in DOMAIN callbacks[n] : callbacks[n][i].cb = b
                                    THEN "removed" ELSE "disposed"]
    /\ Unlock(n)
    /\ Continue(t, "run", << >>)
    /\ UNCHANGED <<cancelled, nextId, senders, handle, parent, fut, ran, calls>>

\* The list without the entry of this id: an id is given out once, so that
\* retaining the entries with another id removes one at most.
Without(s, id) == IF \E i \in DOMAIN s : s[i].id = id
                  THEN RemoveAt(s, CHOOSE i \in DOMAIN s : s[i].id = id)
                  ELSE s

\* Inner::unregister: retain every entry with another id.
UnregisterBody(t) == LET n == Top(t).node
                         b == Top(t).arg IN
    /\ Critical(t, "unregister")
    /\ callbacks' = [callbacks EXCEPT ![n] = Without(@, reg[b].id)]
    /\ reg' = [reg EXCEPT ![b].st = IF \E i \in DOMAIN callbacks[n] : callbacks[n][i].cb = b
                                    THEN "removed" ELSE "disposed"]
    /\ Unlock(n)
    /\ Continue(t, "run", << >>)
    /\ UNCHANGED <<cancelled, nextId, senders, handle, parent, fut, ran, calls>>

\* A slip: the flag is not looked at under the lock.
FutureBodyUnchecked(t) == LET n == Top(t).node IN
    /\ Critical(t, "future")
    /\ fut' = [fut EXCEPT ![Top(t).arg] = n]
    /\ senders' = [senders EXCEPT ![n] = @ \cup {Top(t).arg}]
    /\ Unlock(n)
    /\ Continue(t, "run", << >>)
    /\ UNCHANGED <<cancelled, nextId, callbacks, handle, parent, reg, ran, calls>>

\* Inner::cancel_future: a cancelled node drops the sender, which resolves
\* the future at once, any other keeps it.
FutureBody(t) == LET n == Top(t).node IN
    /\ Critical(t, "future")
    /\ fut' = [fut EXCEPT ![Top(t).arg] = n]
    /\ senders' = IF cancelled[n] THEN senders ELSE [senders EXCEPT ![n] = @ \cup {Top(t).arg}]
    /\ Unlock(n)
    /\ Continue(t, "run", << >>)
    /\ UNCHANGED <<cancelled, nextId, callbacks, handle, parent, reg, ran, calls>>

\* A user's callback runs in a frame of its own; a child's upgrades its Weak
\* pointer and cancels the child, or does nothing when the child is gone.
RunCallback(t) == LET b == Head(Top(t).todo)
                      rest == NewTop(stack[t], [Top(t) EXCEPT !.todo = Tail(@)]) IN
    /\ At(t, "run") /\ Top(t).todo # << >>
    /\ IF b \in Cbs
       THEN /\ ran' = [ran EXCEPT ![b] = @ + 1]
            /\ stack' = [stack EXCEPT ![t] = Append(rest, [Frame("callback", None, b) EXCEPT !.pc = "entered"])]
       ELSE /\ stack' = [stack EXCEPT ![t] = IF Alive(handle, stack, b)
                                              THEN Append(rest, Frame("cancel", b, None)) ELSE rest]
            /\ UNCHANGED ran
    /\ UNCHANGED <<cancelled, nextId, callbacks, senders, locked, handle, parent, reg, fut, calls>>

\* The call returns: register hands out its registration, spawn_child_token
\* its token, and the reference the call held is released.
Return(t) == LET f == Top(t) IN
    /\ \/ At(t, "run") /\ f.todo = << >>
       \/ stack[t] # << >> /\ f.op = "callback"
    /\ stack' = [stack EXCEPT ![t] = Front(@)]
    /\ reg' = IF f.op = "register" /\ f.arg \in Cbs THEN [reg EXCEPT ![f.arg].st = "held"] ELSE reg
    /\ handle' = IF f.op = "register" /\ f.arg \in Children
                 THEN [handle EXCEPT ![f.arg] = "held"] ELSE handle
    /\ Collect(handle', stack')
    /\ UNCHANGED <<cancelled, nextId, locked, parent, fut, ran, calls>>

-----------------------------------------------------------------------------
Call(t) == \/ CallCancel(t)
           \/ \E n \in Nodes : \/ \E b \in Cbs : CallRegister(t, n, b)
                               \/ \E c \in Children : CallSpawn(t, n, c)
                               \/ \E f \in Futs : CallFuture(t, n, f)
           \/ \E b \in Cbs : CallDispose(t, b)

Step(t) == \/ Lock(t) \/ CancelBody(t) \/ RegisterBody(t) \/ UnregisterBody(t)
           \/ FutureBody(t) \/ RunCallback(t) \/ Return(t)

CancelNext == (\E t \in Threads : Call(t) \/ Step(t)) \/ (\E n \in Nodes : DropHandles(n))

\* A thread inside a call is scheduled, spins until it gets the lock (callers
\* make finitely many calls, so a lock is free for good at some point) and a
\* callback returns.  Nobody has to call anything.
CancelSpec == CancelInit /\ [][CancelNext]_cancelVars /\ \A t \in Threads : WF_cancelVars(Step(t))

-----------------------------------------------------------------------------
(* Properties.                                                             *)

Live(n) == Alive(handle, stack, n)
Quiet == \A t \in Threads : stack[t] = << >>
Frames == UNION {{t} \X DOMAIN stack[t] : t \in Threads}
FrameAt(p) == stack[p[1]][p[2]]
Entries == UNION {{n} \X DOMAIN callbacks[n] : n \in Nodes}

\* Every variable has its type, and only the thread whose innermost call is
\* in its critical section owns a lock.
CancelTypeOK ==
    /\ cancelled \in [Nodes -> BOOLEAN]
    /\ nextId \in [Nodes -> 0..Cardinality(Callback)]
    /\ \A n \in Nodes : callbacks[n] \in Seq([id : Ids, cb : Callback])
    /\ senders \in [Nodes -> SUBSET Futs]
    /\ handle \in [Nodes -> {"none", "building", "held", "gone"}]
    /\ parent \in [Children -> Nodes \cup {None}]
    /\ reg \in [Cbs -> [st : {"new", "registering", "held", "disposing", "removed", "disposed"},
                         node : Nodes \cup {None}, id : Ids \cup {NoId}]]
    /\ fut \in [Futs -> Nodes \cup {None}]
    /\ ran \in [Cbs -> Nat]
    /\ calls \in 0..MaxCalls
    /\ \A n \in Nodes : locked[n] # None => At(locked[n], "body") /\ Top(locked[n]).node = n

\* Some call still has the child's callback to run, is about to register it,
\* or is about to mark the child.
Owed(c) == \E p \in Frames : LET f == FrameAt(p) IN
              \/ c \in Range(f.todo)
              \/ f.pc \in {"lock", "body"} /\ f.op = "cancel" /\ f.node = c
              \/ f.pc \in {"lock", "body"} /\ f.op = "register" /\ f.arg = c

\* spawn_child_token: a live child of a cancelled node is cancelled, or some
\* thread is on its way to cancel it, however `cancel', `register' and drops
\* of other threads fall between the steps.
ChildFollows ==
    \A c \in Children :
        parent[c] # None /\ Live(c) /\ ~cancelled[c] /\ ~Owed(c)
            => /\ ~cancelled[parent[c]]
               /\ Live(parent[c]) => \E i \in DOMAIN callbacks[parent[c]] : callbacks[parent[c]][i].cb = c

\* Where a callback is: runs made, runs a call still owes, entries listed.
Copies(b) == ran[b]
             + Cardinality({p \in Frames : b \in Range(FrameAt(p).todo)})
             + Cardinality({e \in Entries : callbacks[e[1]][e[2]].cb = b})

\* register and cancel: a callback is never in two places, so it runs at most
\* once, and while its registration is held and its node lives it is in one,
\* so it is not lost when other registrations come and go.  Once unregister
\* has found a callback in the list nobody runs it, neither now nor later.
CallbackAccounted ==
    \A b \in Cbs : /\ Copies(b) <= 1
                   /\ reg[b].st = "held" /\ Live(reg[b].node) => Copies(b) = 1
                   /\ reg[b].st = "removed" => Copies(b) = 0

\* cancel_future: a pending future belongs to a live node that is not
\* cancelled, so that a later cancel or drop resolves it; and while its node
\* lives uncancelled a future does not resolve.
FutureMatches ==
    \A f \in Futs, n \in Nodes :
        /\ f \in senders[n] => fut[f] = n /\ Live(n) /\ ~cancelled[n]
        /\ fut[f] = n /\ Live(n) /\ ~cancelled[n] => f \in senders[n]

\* Inner::cancel runs callbacks outside the lock "so a callback may safely
\* re-enter": no thread stays in its calls for ever, those made from inside a
\* callback included, so that every call returns.
CallsReturn == \A t \in Threads : []<>(stack[t] = << >>)

\* "propagation is transitive" (the test child_token_is_cancelled_with_parent):
\* when every call is over, a cancelled source has no live token below it that
\* is not cancelled.
PropagationIsTransitive ==
    Quiet /\ cancelled[Root] => \A c \in Children : handle[c] = "held" => cancelled[c]

=============================================================================
