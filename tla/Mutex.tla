------------------------------- MODULE Mutex -------------------------------
(***************************************************************************)
(* The mutex of examples/09-01-01_avoiding-system-call.rs, which makes a   *)
(* system call only if it must.  state is 0 (unlocked), 1 (locked, no      *)
(* other thread is known to wait) or 2 (locked, others may wait).          *)
(*                                                                         *)
(* Labels of pc, besides those of MutexClient:                             *)
(*   "lock"   before the compare_exchange(0, 1) of lock()                  *)
(*   "swap"   before the swap(2) in the condition of its loop              *)
(*   "wait"   before wait(&state, 2)      "sleep"  asleep in that call     *)
(*   "wake"   between swap(0) and wake_one(&state) in drop()               *)
(***************************************************************************)
EXTENDS MutexClient

\* Fault: the successful exchange is Relaxed instead of Acquire.
LockFastRelaxed(t) ==
  /\ pc[t] = "lock"
  /\ state = 0
  /\ state' = 1
  /\ readable' = AfterWrite(readable, t, 1)
  /\ Goto(t, "read")
  /\ UNCHANGED <<value, left, tmp, printed, view, hb>>

\* compare_exchange(0, 1, Acquire, Relaxed) succeeds.
LockFast(t) ==
  /\ pc[t] = "lock"
  /\ state = 0
  /\ state' = 1
  /\ readable' = AfterWrite(readable, t, 1)
  /\ hb' = AfterAcquire(hb, t, view)
  /\ Goto(t, "read")
  /\ UNCHANGED <<value, left, tmp, printed, view>>

\* It fails: a relaxed load of a value other than 0, perhaps an old one.
LockContended(t) ==
  /\ pc[t] = "lock"
  /\ readable[t] # {0}
  /\ Goto(t, "swap")
  /\ UNCHANGED <<state, value, left, tmp, printed, hb, view, readable>>

\* Fault: the loop takes a lock held by a thread that expects no waiter.
SwapContendedOnlyTwo(t) ==
  /\ pc[t] = "swap"
  /\ state' = 2
  /\ readable' = AfterWrite(readable, t, 2)
  /\ hb' = AfterAcquire(hb, t, view)
  /\ Goto(t, IF state # 2 THEN "read" ELSE "wait")
  /\ UNCHANGED <<value, left, tmp, printed, view>>

\* while state.swap(2, Acquire) != 0
SwapContended(t) ==
  /\ pc[t] = "swap"
  /\ state' = 2
  /\ readable' = AfterWrite(readable, t, 2)
  /\ hb' = AfterAcquire(hb, t, view)
  /\ Goto(t, IF state = 0 THEN "read" ELSE "wait")
  /\ UNCHANGED <<value, left, tmp, printed, view>>

\* Fault: wait() sleeps without comparing state with 2.
WaitWithoutCheck(t) ==
  /\ pc[t] = "wait"
  /\ Goto(t, "sleep")
  /\ UNCHANGED <<state, value, left, tmp, printed, hb, view, readable>>

\* wait(&state, 2): the kernel compares and enqueues in one step.
Wait(t) ==
  /\ pc[t] = "wait"
  /\ Goto(t, IF state = 2 THEN "sleep" ELSE "swap")
  /\ UNCHANGED <<state, value, left, tmp, printed, hb, view, readable>>

\* wait() may return although nobody called wake_one().
SpuriousWakeup(t) ==
  /\ pc[t] = "sleep"
  /\ Goto(t, "swap")
  /\ UNCHANGED <<state, value, left, tmp, printed, hb, view, readable>>

\* Fault: drop() never calls wake_one().
UnlockWithoutWake(t) ==
  /\ pc[t] = "drop"
  /\ state' = 0
  /\ readable' = AfterWrite(readable, t, 0)
  /\ view' = ReleaseRmwView(hb, t, view)
  /\ Goto(t, AfterDrop(t))
  /\ UNCHANGED <<value, left, tmp, printed, hb>>

\* if state.swap(0, Release) == 2
Unlock(t) ==
  /\ pc[t] = "drop"
  /\ state' = 0
  /\ readable' = AfterWrite(readable, t, 0)
  /\ view' = ReleaseRmwView(hb, t, view)
  /\ Goto(t, IF state = 2 THEN "wake" ELSE AfterDrop(t))
  /\ UNCHANGED <<value, left, tmp, printed, hb>>

\* wake_one(&state): one sleeper, if there is any, returns from wait().
WakeOne(t) ==
  /\ pc[t] = "wake"
  /\ \/ /\ Sleepers = {}
        /\ Goto(t, AfterDrop(t))
     \/ \E u \in Sleepers :
          pc' = [pc EXCEPT ![t] = AfterDrop(t), ![u] = "swap"]
  /\ UNCHANGED <<state, value, left, tmp, printed, hb, view, readable>>

\* What the scheduler runs; a spurious wake-up is never owed to anybody.
Step(t) ==
  \/ ClientStep(t)
  \/ LockFast(t) \/ LockContended(t) \/ SwapContended(t) \/ Wait(t)
  \/ Unlock(t) \/ WakeOne(t)

Next ==
  \/ \E t \in Threads : Step(t) \/ SpuriousWakeup(t)
  \/ Terminated

Spec == Init /\ [][Next]_vars

FairSpec == Spec /\ \A t \in Threads : WF_vars(Step(t))

-----------------------------------------------------------------------------
Labels == {"join", "lock", "swap", "wait", "sleep", "read", "write", "drop",
           "wake", "done"}

\* Every variable has its type; state is 0, 1 or 2 as the comment on
\* Mutex.state lists.
TypeOK ==
  /\ state \in 0..2
  /\ value \in Nat
  /\ pc \in [Threads -> Labels]
  /\ left \in [Workers -> Nat]
  /\ tmp \in [Workers -> Nat]
  /\ printed \subseteq Nat
  /\ hb \in [Threads -> SUBSET Threads]
  /\ view \subseteq Threads
  /\ readable \in [Threads -> SUBSET (0..2)]

\* drop() calls wake_one() only if it finds 2, and yet nobody is forgotten:
\* while a thread sleeps, the state is 2, so that the guard's drop() will wake
\* one, or a wake_one() is under way, or a thread that is awake in the loop of
\* lock() is about to set the state to 2.
NoLostWakeup ==
  Sleepers # {} =>
    \/ state = 2
    \/ \E t \in Threads : pc[t] \in {"wake", "swap"}

\* What the comment on Mutex.state says of 1: locked, and no thread waits.
OneMeansNoWaiter == state = 1 => Sleepers = {}
=============================================================================
