------------------------------- MODULE MCSync -------------------------------
(***************************************************************************)
(* The parts of the system that threads share on their own, for TLC: the   *)
(* two spinning locks of atomic_sync and the cancellation source.  They    *)
(* do not call each other: a behaviour is of one of them, used by the same *)
(* threads.                                                                *)
(***************************************************************************)
EXTENDS SpinRwLock, SpinMutex, CancelSource

VARIABLE suite

ASSUME SameThreads == Lockers \subseteq Handles /\ Threads \subseteq Handles

allVars == <<vars, mxVars, cancelVars, suite>>

MCInit == /\ Init /\ MxInit /\ CancelInit
          /\ \/ suite \in {"rwlock", "cancel"} /\ signal = "msb" /\ cell = 0
             \/ suite = "mutex"

InRwLock == suite = "rwlock" /\ UNCHANGED <<mxVars, cancelVars, suite>>
InMutex == suite = "mutex" /\ UNCHANGED <<vars, cancelVars, suite>>
InCancel == suite = "cancel" /\ UNCHANGED <<vars, mxVars, suite>>

MCNext == \/ InRwLock /\ Next
          \/ InMutex /\ MxNext
          \/ InCancel /\ CancelNext

\* What each suite is fair to, thread by thread: its specification's fairness.
Steady(t) == \/ InRwLock /\ Spin(t)
             \/ InMutex /\ t \in Lockers /\ Work(t)
             \/ InCancel /\ t \in Threads /\ Step(t)
Persistent(t) == \/ InRwLock /\ Release(t)
                 \/ InMutex /\ t \in Lockers /\ (ExchangeSucceeds(t) \/ ReleaseSucceeds(t))

MCSpec == /\ MCInit /\ [][MCNext]_allVars
          /\ \A t \in Handles : WF_allVars(Steady(t)) /\ SF_allVars(Persistent(t))

=============================================================================
