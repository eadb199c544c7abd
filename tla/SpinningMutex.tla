--------------------------- MODULE SpinningMutex ---------------------------
(***************************************************************************)
(* The mutex of examples/09-01-02_further-improvements.rs: before a thread *)
(* enters the loop of 09-01-01, lock_contented() spins for a while on      *)
(* relaxed loads of state and then tries the exchange once more.  drop()   *)
(* and the loop are those of module Mutex.                                 *)
(*                                                                         *)
(* Labels of pc, besides those of Mutex:                                   *)
(*   "spin"   before the load in the condition of the spin loop            *)
(*   "retry"  before the second compare_exchange(0, 1)                     *)
(***************************************************************************)
EXTENDS Mutex

CONSTANT SpinLimit   \* 100 in the code

ASSUME SpinAssumption == SpinLimit \in Nat

VARIABLE spin_count   \* the local counter of each call of lock_contented()

spinVars == <<vars, spin_count>>

SpinInit == Init /\ spin_count = [t \in Threads |-> 0]

\* lock(): the first exchange fails and lock_contented() starts.
EnterContended(t) ==
  /\ pc[t] = "lock"
  /\ readable[t] # {0}
  /\ Goto(t, "spin")
  /\ spin_count' = [spin_count EXCEPT ![t] = 0]
  /\ UNCHANGED <<state, value, left, tmp, printed, hb, view, readable>>

\* while state.load(Relaxed) == 1 && spin_count < 100
Spin(t) ==
  /\ pc[t] = "spin"
  /\ \E v \in readable[t] :
       IF v = 1 /\ spin_count[t] < SpinLimit
         THEN spin_count' = [spin_count EXCEPT ![t] = @ + 1] /\ UNCHANGED pc
         ELSE Goto(t, "retry") /\ UNCHANGED spin_count
  /\ UNCHANGED <<state, value, left, tmp, printed, hb, view, readable>>

\* Fault: after the spin loop the lock is taken without an exchange.
RetryStore(t) ==
  /\ pc[t] = "retry"
  /\ state' = 1
  /\ readable' = AfterWrite(readable, t, 1)
  /\ hb' = AfterAcquire(hb, t, view)
  /\ Goto(t, "read")
  /\ UNCHANGED <<value, left, tmp, printed, view, spin_count>>

\* The second compare_exchange(0, 1, Acquire, Relaxed) succeeds ...
RetryFast(t) ==
  /\ pc[t] = "retry"
  /\ state = 0
  /\ state' = 1
  /\ readable' = AfterWrite(readable, t, 1)
  /\ hb' = AfterAcquire(hb, t, view)
  /\ Goto(t, "read")
  /\ UNCHANGED <<value, left, tmp, printed, view, spin_count>>

\* ... or fails, and the thread enters the loop.
RetryContended(t) ==
  /\ pc[t] = "retry"
  /\ readable[t] # {0}
  /\ Goto(t, "swap")
  /\ UNCHANGED <<state, value, left, tmp, printed, hb, view, readable, spin_count>>

SpinStep(t) ==
  \/ EnterContended(t) \/ Spin(t) \/ RetryFast(t) \/ RetryContended(t)
  \/ /\ \/ ClientStep(t)
        \/ LockFast(t) \/ SwapContended(t) \/ Wait(t) \/ Unlock(t) \/ WakeOne(t)
     /\ UNCHANGED spin_count

SpinNext ==
  \/ \E t \in Threads : SpinStep(t) \/ (SpuriousWakeup(t) /\ UNCHANGED spin_count)
  \/ Terminated /\ UNCHANGED spin_count

SpinSpec == SpinInit /\ [][SpinNext]_spinVars

SpinFairSpec == SpinSpec /\ \A t \in Threads : WF_spinVars(SpinStep(t))

-----------------------------------------------------------------------------
\* A thread that spins or retries is a thread that has not made the first
\* exchange of 09-01-01 yet.
M == INSTANCE Mutex WITH
       pc <- [t \in Threads |-> IF pc[t] \in {"spin", "retry"} THEN "lock" ELSE pc[t]]

\* 09-01-02 implements 09-01-01: lock_contented() adds no behaviour that the
\* mutex without a spin phase does not have.
ImplementsMutex == M!Spec
=============================================================================
