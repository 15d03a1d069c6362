----------------------------- MODULE SpinRwLock -----------------------------
(***************************************************************************)
(* The preemptive SpinningRwLock of atomic_sync.                           *)
(*                                                                         *)
(* One atomic word holds three bits and the number of readers; every       *)
(* operation is one or two successful compare-exchanges on it.  A handle   *)
(* (Acquire) is used by one thread and holds a stack of guards: borrowing  *)
(* an upgradable guard as a writer leaves the upgradable guard below the   *)
(* writer guard, and that one may again be downgraded.                     *)
(***************************************************************************)
EXTENDS Integers, Sequences, FiniteSets

CONSTANTS Handles,      \* the Acquire handles on this lock
          MaxReaders    \* K_MAX_READER_COUNT, the largest reader count

ASSUME HandlesAssumption == IsFiniteSet(Handles)

(* A handle has at most two guards, and a lock counts one reader too many at
   most: the count never reaches its maximum of 2^61. *)
ASSUME MaxReadersAssumption ==
    MaxReaders \in Nat /\ 2 * Cardinality(Handles) + 1 < MaxReaders

VARIABLES word,         \* K_WRITER_ACTIVE, K_WRITER_QUEUED, K_UPGRADE_ACTIVE
                        \*   and the reader count
          guards,       \* per handle: its live guards, the newest last
          pc            \* per handle: what it is doing

vars == <<word, guards, pc>>

Words == [writer : BOOLEAN, queued : BOOLEAN, upgrade : BOOLEAN,
          readers : 0 .. MaxReaders]

Init ==
    /\ word = [writer |-> FALSE, queued |-> FALSE, upgrade |-> FALSE,
               readers |-> 0]
    /\ guards = [h \in Handles |-> << >>]
    /\ pc = [h \in Handles |-> "idle"]

-----------------------------------------------------------------------------
(* The word.  The reader count is its lowest field, and adding one to a full
   count carries into the bits above. *)

IncReader(s) ==
    IF s.readers < MaxReaders THEN [s EXCEPT !.readers = @ + 1]
    ELSE IF ~s.upgrade THEN [s EXCEPT !.readers = 0, !.upgrade = TRUE]
    ELSE [writer |-> s.writer # s.queued, queued |-> ~s.queued,
          upgrade |-> FALSE, readers |-> 0]

DecReader(s) == [s EXCEPT !.readers = @ - 1]

CanRead(s) == s.readers < MaxReaders /\ ~s.queued /\ ~s.writer

CanWrite(s) == s.readers = 0 /\ ~s.writer

(* The reader count is not compared with its maximum. *)
CanReadUpgradably(s) == ~s.queued /\ ~s.writer /\ ~s.upgrade

(* A slip: other readers not waited for. *)
CanUpgradeEarly(s) == s.upgrade
CanUpgrade(s) == s.upgrade /\ s.readers = 1

-----------------------------------------------------------------------------
(* Guards *)

TopGuard(h) == guards[h][Len(guards[h])]
Holds(h, g) == guards[h] # << >> /\ TopGuard(h) = g

Push(h, g) == guards' = [guards EXCEPT ![h] = Append(@, g)]
Pop(h) == guards' = [guards EXCEPT ![h] = SubSeq(@, 1, Len(@) - 1)]
Swap(h, g) ==
    guards' = [guards EXCEPT ![h] = [@ EXCEPT ![Len(@)] = g]]

Goto(h, l) == pc' = [pc EXCEPT ![h] = l]

-----------------------------------------------------------------------------
(* Acquiring.  A try is made once, from "idle", or again and again by a
   waiting call until it succeeds or the token has fired. *)

Waiting == {"waitRead", "waitWrite", "waitUpg", "waitUpgrade"}

(* read, write, upgradable_read: the waiting call begins. *)
StartWait(h, l) ==
    /\ pc[h] = "idle" /\ guards[h] = << >>
    /\ l \in Waiting \ {"waitUpgrade"}
    /\ Goto(h, l)
    /\ UNCHANGED <<word, guards>>

(* Upgrade::upgrade. *)
StartUpgrade(h) ==
    /\ pc[h] = "idle" /\ Holds(h, "upg")
    /\ Goto(h, "waitUpgrade")
    /\ UNCHANGED <<word, guards>>

(* The token is asked after a failed try. *)
Cancelled(h) ==
    /\ pc[h] \in Waiting
    /\ Goto(h, "idle")
    /\ UNCHANGED <<word, guards>>

Free(h, l) == pc[h] = l \/ (pc[h] = "idle" /\ guards[h] = << >>)

TryRead(h) ==
    /\ Free(h, "waitRead")
    /\ CanRead(word)
    /\ word' = IncReader(word)
    /\ Push(h, "read")
    /\ Goto(h, "idle")

TryWrite(h) ==
    /\ Free(h, "waitWrite")
    /\ CanWrite(word)
    /\ word' = [word EXCEPT !.writer = TRUE]
    /\ Push(h, "write")
    /\ Goto(h, "idle")

(* A failed try_write goes on to mark a writer as queued; "queueAgain" then
   returns to the waiting loop. *)
FailWrite(h) ==
    /\ Free(h, "waitWrite")
    /\ ~CanWrite(word)
    /\ Goto(h, IF pc[h] = "idle" THEN "queue" ELSE "queueAgain")
    /\ UNCHANGED <<word, guards>>

(* A slip: nobody is told of the waiting writer. *)
QueueForgotten(h) ==
    /\ pc[h] \in {"queue", "queueAgain"}
    /\ Goto(h, IF pc[h] = "queue" THEN "idle" ELSE "waitWrite")
    /\ UNCHANGED <<word, guards>>

Queue(h) ==
    /\ pc[h] \in {"queue", "queueAgain"}
    /\ word' = [word EXCEPT !.queued = TRUE]
    /\ Goto(h, IF pc[h] = "queue" THEN "idle" ELSE "waitWrite")
    /\ UNCHANGED guards

TryUpgradableRead(h) ==
    /\ Free(h, "waitUpg")
    /\ CanReadUpgradably(word)
    /\ word' = IncReader([word EXCEPT !.upgrade = TRUE])
    /\ Push(h, "upg")
    /\ Goto(h, "idle")

(* Upgrade::try_upgrade: the upgradable guard stays below the writer's. *)
TryUpgradeBorrowed(h) ==
    /\ pc[h] \in {"idle", "waitUpgrade"} /\ Holds(h, "upg")
    /\ CanUpgrade(word)
    /\ word' = [word EXCEPT !.writer = TRUE]
    /\ Push(h, "write")
    /\ Goto(h, "idle")

(* UpgradableReaderGuard::try_upgrade by value: the upgradable guard becomes
   the writer's and is then dropped. *)
TryUpgradeOwned(h) ==
    /\ pc[h] = "idle" /\ Holds(h, "upg")
    /\ CanUpgrade(word)
    /\ word' = [word EXCEPT !.writer = TRUE]
    /\ Push(h, "write")
    /\ Goto(h, "settle")

-----------------------------------------------------------------------------
(* Releasing *)

(* on_upgradable_read_drop.  If the upgrade bit is clear nothing is released
   (the debug assertion fails). *)
ReleaseUpgradable ==
    word' = IF word.upgrade THEN DecReader([word EXCEPT !.upgrade = FALSE])
                            ELSE word

Settle(h) ==
    /\ pc[h] = "settle"
    /\ ReleaseUpgradable
    /\ guards' = [guards EXCEPT ![h] = SubSeq(@, 1, Len(@) - 2) \o <<"write">>]
    /\ Goto(h, "idle")

DropReader(h) ==
    /\ pc[h] = "idle" /\ Holds(h, "read")
    /\ word' = IF word.readers > 0 THEN DecReader(word) ELSE word
    /\ Pop(h)
    /\ UNCHANGED pc

DropWriter(h) ==
    /\ pc[h] = "idle" /\ Holds(h, "write")
    /\ word' = IF word.writer
               THEN [word EXCEPT !.writer = FALSE, !.queued = FALSE]
               ELSE word
    /\ Pop(h)
    /\ UNCHANGED pc

DropUpgradable(h) ==
    /\ pc[h] = "idle" /\ Holds(h, "upg")
    /\ ReleaseUpgradable
    /\ Pop(h)
    /\ UNCHANGED pc

-----------------------------------------------------------------------------
(* Downgrading.  The old guard is forgotten first; where the exchange is
   refused the call panics with it forgotten. *)

WriteToRead(h) ==
    /\ pc[h] = "idle" /\ Holds(h, "write") /\ word.writer
    /\ word' = IncReader([word EXCEPT !.writer = FALSE])
    /\ Swap(h, "read")
    /\ UNCHANGED pc

(* A slip: the reader that remains is not counted. *)
WriteToUpgradableUncounted(h) ==
    /\ pc[h] = "idle" /\ Holds(h, "write") /\ word.writer
    /\ word' = [word EXCEPT !.writer = FALSE, !.upgrade = TRUE]
    /\ Swap(h, "upg")
    /\ UNCHANGED pc

WriteToUpgradable(h) ==
    /\ pc[h] = "idle" /\ Holds(h, "write") /\ word.writer
    /\ word' = IncReader([word EXCEPT !.writer = FALSE, !.upgrade = TRUE])
    /\ Swap(h, "upg")
    /\ UNCHANGED pc

UpgradableToRead(h) ==
    /\ pc[h] = "idle" /\ Holds(h, "upg")
    /\ IF word.upgrade /\ ~word.writer /\ word.readers > 0
       THEN word' = [word EXCEPT !.upgrade = FALSE] /\ Swap(h, "read")
       ELSE Pop(h) /\ UNCHANGED word
    /\ UNCHANGED pc

-----------------------------------------------------------------------------
Attempt(h) ==
    \/ TryRead(h) \/ TryWrite(h) \/ TryUpgradableRead(h)
    \/ TryUpgradeBorrowed(h)

Release(h) ==
    DropReader(h) \/ DropWriter(h) \/ DropUpgradable(h)

(* Steps of a call in progress, once begun. *)
Internal(h) == FailWrite(h) \/ Queue(h) \/ Settle(h)

Next ==
    \E h \in Handles :
        \/ Attempt(h) \/ Release(h) \/ Internal(h)
        \/ \E l \in Waiting : StartWait(h, l)
        \/ StartUpgrade(h) \/ Cancelled(h) \/ TryUpgradeOwned(h)
        \/ WriteToRead(h) \/ WriteToUpgradable(h) \/ UpgradableToRead(h)

Spec == Init /\ [][Next]_vars

(* A waiting call goes on trying, for its thread is scheduled; and every guard
   is dropped in the end, though its owner may first try to upgrade it and
   give up again and again: that is up to the callers. *)
Spin(h) == pc[h] # "idle" /\ (Attempt(h) \/ Internal(h))

FairSpec ==
    Spec /\ \A h \in Handles : WF_vars(Spin(h)) /\ SF_vars(Release(h))

-----------------------------------------------------------------------------
(* Properties *)

(* Type invariant. *)
TypeOK ==
    /\ word \in Words
    /\ guards \in [Handles -> Seq({"read", "write", "upg"})]
    /\ pc \in [Handles -> Waiting \cup {"idle", "queue", "queueAgain",
                                        "settle"}]

(* deref_mut is exclusive: while one handle holds a writer guard, got by
   writing or by either way of upgrading, no other handle holds any guard. *)
WriterExcludesAll ==
    \A h \in Handles : Holds(h, "write") =>
        \A g \in Handles \ {h} : guards[g] = << >>

(* The handles whose i-th guard is one of these kinds; the number of live
   guards of these kinds (guards nest two deep at most). *)
GuardsAt(i, kinds) ==
    {h \in Handles : i <= Len(guards[h]) /\ guards[h][i] \in kinds}
LiveGuards(kinds) == Cardinality(GuardsAt(1, kinds)) + Cardinality(GuardsAt(2, kinds))

(* The guards the reader count stands for. *)
Counted == {"read", "upg"}

(* How far the word has come off the guards: readers counted that are gone,
   upgradable guards that have lost their bit. *)
Leaked == word.readers - LiveGuards(Counted)
Stray == LiveGuards({"upg"}) - (IF word.upgrade THEN 1 ELSE 0)

(* The word never falls short of the guards it stands for, and comes off them
   by at most one guard in the life of the lock, whatever guards are dropped,
   upgraded and downgraded in whatever order. *)
NeverUndercounted == Leaked >= 0 /\ Stray >= 0 /\ Leaked + Stray <= 1

(* The unreachable!()s of the writer's downgrades: a writer guard's bit is
   set. *)
WriterBitSet ==
    \A h \in Handles : Holds(h, "write") => word.writer

(* A waiting writer keeps new readers out, so that it or another writer gets
   in once the guards there are have been dropped, unless it gives up or the
   word has come off the guards: none waits for ever while no writer holds the
   lock. *)
SomeWriterGetsIn ==
    \A h \in Handles :
        []<>(\/ pc[h] \notin {"waitWrite", "queueAgain"}
             \/ \E g \in Handles : Holds(g, "write")
             \/ Leaked + Stray > 0)

-----------------------------------------------------------------------------
(* The inductive strengthening of the safety properties. *)

(* The nestings of guards that occur. *)
Stacks == {<< >>, <<"read">>, <<"write">>, <<"upg">>, <<"upg", "read">>,
           <<"upg", "write">>, <<"upg", "upg">>}

(* A call in progress holds what it began with. *)
CallsHold ==
    \A h \in Handles :
        /\ pc[h] \in {"waitRead", "waitWrite", "waitUpg", "queue", "queueAgain"}
              => guards[h] = << >>
        /\ pc[h] = "settle" => guards[h] = <<"upg", "write">>

(* While a writer is in, the word is exact: whoever lets it in has seen the
   count at zero, or at one with an upgradable guard in hand. *)
WriterSeesExact ==
    /\ word.writer => \E h \in Handles : Holds(h, "write")
    /\ word.writer => Leaked + Stray = 0

(* What the proofs carry from step to step: nothing but the count keeps a
   writer apart from readers, so it has to be right for every handle. *)
LockInv ==
    /\ TypeOK
    /\ guards \in [Handles -> Stacks]
    /\ CallsHold
    /\ NeverUndercounted
    /\ WriterBitSet
    /\ WriterSeesExact
    /\ WriterExcludesAll

-----------------------------------------------------------------------------
(* A claim of the repository's documentation that the code does not keep. *)

(* reader_count is "the number of readers that currently hold the lock,
   including upgradable readers and upgraded writer". *)
ReaderCountExact == Leaked = 0

=============================================================================
