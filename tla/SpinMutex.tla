----------------------------- MODULE SpinMutex -----------------------------
(***************************************************************************)
(* SpinningMutex of atomic_sync: a lock that is one signal in an atomic    *)
(* cell whose other bits belong to somebody else, and the compare-exchange *)
(* loops of atomex's TrAtomicFlags it is built from.                       *)
(*                                                                         *)
(* Loads and exchanges are separate steps, and a weak exchange may fail    *)
(* although the cell has the value it compares with.                       *)
(***************************************************************************)
EXTENDS Integers

CONSTANTS Lockers,      \* each with an Acquire of its own
          Msb,          \* K_MSB_FLAG, a power of two
          MaxLocks,     \* bound: calls of lock and try_lock
          MaxFlips      \* bound: changes of the other bits by their owner

ASSUME MutexAssumption == /\ Msb \in Nat \ {0, 1}
                          /\ MaxLocks \in Nat /\ MaxFlips \in Nat

VARIABLES signal,       \* "msb" or "ptr": the TrMutexSignal in use
          cell,         \* the atomic cell
          bits,         \* history: what the other bits were last set to
          flips,        \* how often they were set
          mpc,          \* what each thread is doing
          cur,          \* its `current' of the loop it is in
          token,        \* its cancellation token has fired
          born,         \* ... had fired when its call of lock began
          data,         \* the value guarded
          seen,         \* what a guard's owner read of it
          locksAsked,   \* calls of lock and try_lock so far
          done          \* history: updates made under a guard

mxVars == <<signal, cell, bits, flips, mpc, cur, token, born, data, seen, locksAsked, done>>

-----------------------------------------------------------------------------
(* TrMutexSignal: the most significant bit, or an odd pointer.             *)

IsAcquired(v) == IF signal = "msb" THEN v >= Msb ELSE v % 2 = 1
MakeAcquired(v) == IF signal = "msb" THEN (v % Msb) + Msb ELSE v + 1

\* A slip: releasing stores a cleared cell.
MakeReleasedClears(v) == 0
MakeReleased(v) == IF signal = "msb" THEN v % Msb ELSE v - 1

Cells == 0..(2 * Msb - 1)
Released(v) == ~IsAcquired(v)

\* SpinningMutex::new over a cell with its other bits in use; new_owned and
\* new_embedded store zero first.
MxInit == /\ signal \in {"msb", "ptr"}
          /\ cell \in {v \in Cells : Released(v)} /\ bits = cell /\ flips = 0
          /\ mpc = [t \in Lockers |-> "idle"]
          /\ cur = [t \in Lockers |-> 0]
          /\ token = [t \in Lockers |-> FALSE] /\ born = token
          /\ data = 0 /\ seen = [t \in Lockers |-> 0]
          /\ locksAsked = 0 /\ done = 0

-----------------------------------------------------------------------------
(* try_once_compare_exchange_weak.                                         *)

Jump(t, l) == mpc' = [mpc EXCEPT ![t] = l]
Load(t) == cur' = [cur EXCEPT ![t] = cell]

Succ(t, new) == cell = cur[t] /\ cell' = new
\* Fail(x): the value found, which may be the one compared with.
Fail(t) == Load(t) /\ UNCHANGED cell

Outside == <<signal, bits, flips, token, data, seen, done>>

-----------------------------------------------------------------------------
(* Acquiring.                                                              *)

\* Acquire::try_lock and lock: the first load of the cell.
AskLock(t, l) == /\ mpc[t] = "idle" /\ locksAsked < MaxLocks /\ locksAsked' = locksAsked + 1
                 /\ Load(t) /\ Jump(t, l)
                 /\ born' = [born EXCEPT ![t] = token[t] /\ l = "check"]
                 /\ UNCHANGED <<cell, Outside>>

\* try_lock: one exchange, and no second chance.
TryOnce(t) == /\ mpc[t] = "once"
              /\ \/ Released(cur[t]) /\ Succ(t, MakeAcquired(cur[t])) /\ Jump(t, "held") /\ UNCHANGED cur
                 \/ UNCHANGED <<cell, cur>> /\ Jump(t, "idle")
              /\ UNCHANGED <<Outside, born, locksAsked>>

\* try_spin_acquire_: the token first.
CheckToken(t) == /\ mpc[t] = "check"
                 /\ Jump(t, IF token[t] THEN "idle" ELSE "exchange")
                 /\ UNCHANGED <<cell, cur, Outside, born, locksAsked>>

\* A slip: a value that is not a released one is kept.
ExchangeFailsStale(t) == /\ mpc[t] = "exchange"
                         /\ \/ IsAcquired(cur[t]) /\ Jump(t, "check") /\ UNCHANGED <<cell, cur>>
                            \/ Released(cur[t]) /\ Fail(t) /\ Jump(t, "check")
                         /\ UNCHANGED <<Outside, born, locksAsked>>

\* ... then one exchange: Unexpected loads again, Fail keeps what it found.
ExchangeFails(t) == /\ mpc[t] = "exchange"
                    /\ \/ IsAcquired(cur[t]) /\ Load(t) /\ UNCHANGED cell
                       \/ Released(cur[t]) /\ Fail(t)
                    /\ Jump(t, "check")
                    /\ UNCHANGED <<Outside, born, locksAsked>>

ExchangeSucceeds(t) == /\ mpc[t] = "exchange" /\ Released(cur[t])
                       /\ Succ(t, MakeAcquired(cur[t])) /\ Jump(t, "held") /\ UNCHANGED cur
                       /\ UNCHANGED <<Outside, born, locksAsked>>

-----------------------------------------------------------------------------
(* The guard.  Its owner reads the value and then writes it (Deref,        *)
(* DerefMut); dropping it releases.                                        *)

ReadData(t) == /\ mpc[t] = "held" /\ Jump(t, "wrote")
               /\ seen' = [seen EXCEPT ![t] = data]
               /\ UNCHANGED <<signal, cell, bits, flips, cur, token, born, data, locksAsked, done>>

WriteData(t) == /\ mpc[t] = "wrote" /\ Jump(t, "drop")
                /\ data' = seen[t] + 1 /\ done' = done + 1
                /\ UNCHANGED <<signal, cell, bits, flips, cur, token, born, seen, locksAsked>>

\* try_spin_release_: load, then exchange until it succeeds or finds the
\* signal gone, which drop ignores.
DropGuard(t) == /\ mpc[t] \in {"held", "drop"}
                /\ Load(t) /\ Jump(t, "release")
                /\ UNCHANGED <<cell, Outside, born, locksAsked>>

ReleaseFails(t) == /\ mpc[t] = "release"
                   /\ \/ IsAcquired(cur[t]) /\ Fail(t) /\ UNCHANGED mpc
                      \/ Released(cur[t]) /\ Jump(t, "idle") /\ UNCHANGED <<cell, cur>>
                   /\ UNCHANGED <<Outside, born, locksAsked>>

ReleaseSucceeds(t) == /\ mpc[t] = "release" /\ IsAcquired(cur[t])
                      /\ Succ(t, MakeReleased(cur[t])) /\ Jump(t, "idle") /\ UNCHANGED cur
                      /\ UNCHANGED <<Outside, born, locksAsked>>

-----------------------------------------------------------------------------
(* Everybody else: tokens fire, and the cell is there (AsRef) for whoever  *)
(* keeps something in its other bits, with an exchange that leaves the     *)
(* signal alone.                                                           *)

Fire(t) == /\ ~token[t] /\ token' = [token EXCEPT ![t] = TRUE]
           /\ UNCHANGED <<signal, cell, bits, flips, mpc, cur, born, data, seen, locksAsked, done>>

SetBits(v) == /\ flips < MaxFlips /\ flips' = flips + 1
              /\ bits' = v /\ cell' = IF IsAcquired(cell) THEN MakeAcquired(v) ELSE v
              /\ UNCHANGED <<signal, mpc, cur, token, born, data, seen, locksAsked, done>>

Work(t) == \/ WriteData(t) \/ TryOnce(t) \/ CheckToken(t) \/ ExchangeFails(t) \/ ExchangeSucceeds(t)
           \/ DropGuard(t) \/ ReleaseFails(t) \/ ReleaseSucceeds(t)

MxNext == \/ \E t \in Lockers : \/ Work(t) \/ ReadData(t) \/ Fire(t)
                                \/ \E l \in {"once", "check"} : AskLock(t, l)
          \/ \E v \in {c \in Cells : Released(c)} \ {bits} : SetBits(v)

\* A thread in a call is scheduled, a guard is dropped in the end, and a weak
\* exchange that keeps finding the value it compares with succeeds in the end.
MxFairness == \A t \in Lockers : /\ WF_mxVars(Work(t))
                                 /\ SF_mxVars(ExchangeSucceeds(t) \/ ReleaseSucceeds(t))
MxSpec == MxInit /\ [][MxNext]_mxVars /\ MxFairness

-----------------------------------------------------------------------------
(* Properties.                                                             *)

Guards == {t \in Lockers : mpc[t] \in {"held", "wrote", "drop", "release"}}

\* An update through DerefMut, which reads and then writes, is never lost, and
\* neither is one of the bits that share the cell with the signal, however
\* acquiring and releasing interleave with it; the signal says whether a guard
\* is alive, so the release whose failure a guard's drop ignores never fails;
\* and a call whose token had fired before it began holds no guard, not even
\* when the lock happens to be free.
NoLostUpdate ==
    /\ data = done
    /\ cell = IF Guards # {} THEN MakeAcquired(bits) ELSE bits
    /\ \A t \in Guards : ~born[t]

\* "can succeed once the lock is released; continuing with the stale value
\* would livelock forever": nobody stays in lock for ever, so every call ends,
\* with a guard or because its token fired, unless others keep taking the lock;
\* callers make finitely many calls here.
LockEnds == \A t \in Lockers : []<>(mpc[t] \notin {"check", "exchange"})

=============================================================================
