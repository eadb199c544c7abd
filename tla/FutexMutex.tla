----------------------------- MODULE FutexMutex -----------------------------
(***************************************************************************)
(* The first mutex, examples/09-01_mutex.rs: state is 0 (unlocked) or 1    *)
(* (locked), a thread that finds 1 sleeps in wait(&state, 1), and every    *)
(* drop() calls wake_one(&state).                                          *)
(*                                                                         *)
(* Labels of pc, besides those of MutexClient:                             *)
(*   "lock"   before the swap(1) in the condition of lock()'s loop         *)
(*   "wait"   before wait(&state, 1)      "sleep"  asleep in that call     *)
(*   "wake"   between swap(0) and wake_one(&state) in drop()               *)
(***************************************************************************)
EXTENDS MutexClient

\* Fault: swap(1) is Relaxed instead of Acquire.
LockRelaxed(t) ==
  /\ pc[t] = "lock"
  /\ state' = 1
  /\ readable' = AfterWrite(readable, t, 1)
  /\ Goto(t, IF state = 1 THEN "wait" ELSE "read")
  /\ UNCHANGED <<value, left, tmp, printed, view, hb>>

\* Fault: state is loaded and found 0 before it is set, in two steps.
LockLoadThenStore(t) ==
  /\ pc[t] = "lock"
  /\ \E v \in readable[t] : Goto(t, IF v = 1 THEN "wait" ELSE "read")
  /\ state' = 1
  /\ readable' = AfterWrite(readable, t, 1)
  /\ hb' = AfterAcquire(hb, t, view)
  /\ UNCHANGED <<value, left, tmp, printed, view>>

\* while state.swap(1, Acquire) == 1
Lock(t) ==
  /\ pc[t] = "lock"
  /\ state' = 1
  /\ readable' = AfterWrite(readable, t, 1)
  /\ hb' = AfterAcquire(hb, t, view)
  /\ Goto(t, IF state = 1 THEN "wait" ELSE "read")
  /\ UNCHANGED <<value, left, tmp, printed, view>>

\* Fault: wait() sleeps without comparing state with 1.
FutexWaitWithoutCheck(t) ==
  /\ pc[t] = "wait"
  /\ Goto(t, "sleep")
  /\ UNCHANGED <<state, value, left, tmp, printed, hb, view, readable>>

\* wait(&state, 1): the kernel compares and enqueues in one step.
FutexWait(t) ==
  /\ pc[t] = "wait"
  /\ Goto(t, IF state = 1 THEN "sleep" ELSE "lock")
  /\ UNCHANGED <<state, value, left, tmp, printed, hb, view, readable>>

\* wait() may return although nobody called wake_one().
FutexSpuriousWakeup(t) ==
  /\ pc[t] = "sleep"
  /\ Goto(t, "lock")
  /\ UNCHANGED <<state, value, left, tmp, printed, hb, view, readable>>

\* Fault: drop() wakes a waiter and forgets to set state to 0.
UnlockKeepsState(t) ==
  /\ pc[t] = "drop"
  /\ view' = ReleaseRmwView(hb, t, view)
  /\ Goto(t, "wake")
  /\ UNCHANGED <<state, value, left, tmp, printed, hb, readable>>

\* state.swap(0, Release)
FutexUnlock(t) ==
  /\ pc[t] = "drop"
  /\ state' = 0
  /\ readable' = AfterWrite(readable, t, 0)
  /\ view' = ReleaseRmwView(hb, t, view)
  /\ Goto(t, "wake")
  /\ UNCHANGED <<value, left, tmp, printed, hb>>

\* wake_one(&state): one sleeper, if there is any, returns from wait().
FutexWakeOne(t) ==
  /\ pc[t] = "wake"
  /\ \/ /\ Sleepers = {}
        /\ Goto(t, AfterDrop(t))
     \/ \E u \in Sleepers :
          pc' = [pc EXCEPT ![t] = AfterDrop(t), ![u] = "lock"]
  /\ UNCHANGED <<state, value, left, tmp, printed, hb, view, readable>>

\* What the scheduler runs; a spurious wake-up is never owed to anybody.
FutexStep(t) == ClientStep(t) \/ Lock(t) \/ FutexWait(t) \/ FutexUnlock(t) \/ FutexWakeOne(t)

FutexNext ==
  \/ \E t \in Threads : FutexStep(t) \/ FutexSpuriousWakeup(t)
  \/ Terminated

FutexSpec == Init /\ [][FutexNext]_vars

FutexFairSpec == FutexSpec /\ \A t \in Threads : WF_vars(FutexStep(t))

-----------------------------------------------------------------------------
FutexLabels == {"join", "lock", "wait", "sleep", "read", "write", "drop", "wake",
                "done"}

\* Every variable has its type; state is 0 or 1 as the comment on Mutex.state
\* lists.
FutexTypeOK ==
  /\ state \in 0..1
  /\ value \in Nat
  /\ pc \in [Threads -> FutexLabels]
  /\ left \in [Workers -> Nat]
  /\ tmp \in [Workers -> Nat]
  /\ printed \subseteq Nat
  /\ hb \in [Threads -> SUBSET Threads]
  /\ view \subseteq Threads
  /\ readable \in [Threads -> SUBSET (0..1)]

\* drop() wakes one thread only, and yet nobody is forgotten: while a thread
\* sleeps, somebody holds the lock and will call wake_one(), or a wake_one()
\* is under way, or a woken thread of lock()'s loop has not tried again yet.
FutexNoLostWakeup ==
  Sleepers # {} =>
    \/ Holders # {}
    \/ \E t \in Threads : pc[t] \in {"wake", "lock"}
=============================================================================
