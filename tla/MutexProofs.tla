----------------------------- MODULE MutexProofs -----------------------------
(***************************************************************************)
(* Proofs about modules Mutex, FutexMutex and SpinningMutex, for any       *)
(* finite set of workers, any number of iterations and any limit to the    *)
(* spin loop.                                                              *)
(***************************************************************************)
EXTENDS SpinningMutex, FutexMutex, TLAPS

\* At most one thread owns a guard, and state tells whether one does.
Exclusive ==
  /\ \A t, u \in Threads : InCS(t) /\ InCS(u) => t = u
  /\ state = 0 <=> \A t \in Threads : ~InCS(t)

\* The guard's owner is ordered after every access to value; if there is no
\* owner, then the last store to state publishes every access.
Ordered ==
  /\ \A t \in Threads : InCS(t) => hb[t] = Threads
  /\ (\A t \in Threads : ~InCS(t)) => view = Threads

\* The local state of the loop in a worker, and of main().
Local ==
  /\ \A w \in Workers : pc[w] = "write" => tmp[w] = value
  /\ \A w \in Workers : pc[w] \notin {"drop", "wake", "done"} => left[w] > 0
  /\ \A w \in Workers : pc[w] = "done" => left[w] = 0
  /\ pc[Main] # "join" => \A w \in Workers : pc[w] = "done"
  /\ pc[Main] # "write"

IInv == TypeOK /\ Exclusive /\ Ordered /\ Local /\ NoLostWakeup

USE ClientAssumption DEF Threads, Goto

\* The type invariant is inductive on its own, but for the loop counter of a
\* worker: it needs left[w] > 0 where the worker writes.
LEMMA TypeStep ==
  TypeOK /\ Local /\ [Next]_vars => TypeOK'
<1> SUFFICES ASSUME TypeOK, Local, [Next]_vars
             PROVE  TypeOK'
  BY Zenon
<1> USE DEF TypeOK, Labels
<1>1. ASSUME NEW w \in Workers, ReadValue(w)
      PROVE  TypeOK'
  BY <1>1, Zenon DEF ReadValue, Deref, AfterAccess, ViewAfterAccess
<1>2. ASSUME NEW w \in Workers, WriteValue(w)
      PROVE  TypeOK'
  BY <1>2 DEF WriteValue, Deref, AfterAccess, ViewAfterAccess, Local
<1>3. ASSUME Join
      PROVE  TypeOK'
  BY <1>3 DEF Join, AfterJoin
<1>4. ASSUME PrintValue
      PROVE  TypeOK'
  BY <1>4, Zenon DEF PrintValue, Deref, AfterAccess, ViewAfterAccess
<1>5. ASSUME NEW t \in Threads, LockFast(t)
      PROVE  TypeOK'
  BY <1>5 DEF LockFast, AfterWrite, AfterAcquire
<1>6. ASSUME NEW t \in Threads, LockContended(t)
      PROVE  TypeOK'
  BY <1>6, Zenon DEF LockContended
<1>7. ASSUME NEW t \in Threads, SwapContended(t)
      PROVE  TypeOK'
  BY <1>7 DEF SwapContended, AfterWrite, AfterAcquire
<1>8. ASSUME NEW t \in Threads, Wait(t) \/ SpuriousWakeup(t)
      PROVE  TypeOK'
  BY <1>8, Zenon DEF Wait, SpuriousWakeup
<1>9. ASSUME NEW t \in Threads, Unlock(t)
      PROVE  TypeOK'
  BY <1>9 DEF Unlock, AfterWrite, ReleaseRmwView, AfterDrop
<1>10. ASSUME NEW t \in Threads, WakeOne(t)
       PROVE  TypeOK'
  BY <1>10 DEF WakeOne, AfterDrop, Sleepers
<1>11. CASE UNCHANGED vars
  BY <1>11, Zenon DEF vars
<1>12. QED
  BY <1>1, <1>2, <1>3, <1>4, <1>5, <1>6, <1>7, <1>8, <1>9, <1>10, <1>11, Zenon
     DEF Next, Step, ClientStep, Terminated

\* The state after Mutex::new(), before any worker runs: state is 0 and nobody
\* holds a guard.
LEMMA InitInv == Init => IInv
<1> SUFFICES ASSUME Init
             PROVE  IInv
  BY Zenon
<1>1. \A t \in Threads : pc[t] \in {"join", "lock"}
  BY Zenon DEF Init
<1>2. TypeOK
  BY DEF Init, TypeOK, Labels
<1>3. Exclusive /\ Ordered
  BY <1>1, Zenon DEF Init, Exclusive, Ordered, InCS
<1>4. Local
  BY <1>1 DEF Init, Local
<1>5. NoLostWakeup
  BY <1>1, Zenon DEF NoLostWakeup, Sleepers
<1>6. QED
  BY <1>2, <1>3, <1>4, <1>5, Zenon DEF IInv

\* Mutual exclusion and the happens-before order go together: whoever finds
\* state = 0 is alone, and acquires a view of all accesses.
LEMMA ExclusiveStep ==
  IInv /\ [Next]_vars => Exclusive' /\ Ordered'
<1> SUFFICES ASSUME TypeOK, Exclusive, Ordered, Local, [Next]_vars
             PROVE  Exclusive' /\ Ordered'
  BY Zenon DEF IInv
<1> USE DEF TypeOK, Labels, Exclusive, Ordered, InCS
<1>1. ASSUME NEW w \in Workers, ReadValue(w)
      PROVE  Exclusive' /\ Ordered'
  BY <1>1 DEF ReadValue, Deref, AfterAccess, ViewAfterAccess
<1>2. ASSUME NEW w \in Workers, WriteValue(w)
      PROVE  Exclusive' /\ Ordered'
  BY <1>2 DEF WriteValue, Deref, AfterAccess, ViewAfterAccess
<1>3. ASSUME Join
      PROVE  Exclusive' /\ Ordered'
  BY <1>3, Zenon DEF Join, AfterJoin
<1>4. ASSUME PrintValue
      PROVE  Exclusive' /\ Ordered'
  BY <1>4, Zenon DEF PrintValue, Deref, AfterAccess, ViewAfterAccess
<1>5. ASSUME NEW t \in Threads, LockFast(t)
      PROVE  Exclusive' /\ Ordered'
  BY <1>5 DEF LockFast, AfterWrite, AfterAcquire
<1>6. ASSUME NEW t \in Threads, LockContended(t)
      PROVE  Exclusive' /\ Ordered'
  BY <1>6, Zenon DEF LockContended
<1>7. ASSUME NEW t \in Threads, SwapContended(t)
      PROVE  Exclusive' /\ Ordered'
  BY <1>7 DEF SwapContended, AfterWrite, AfterAcquire
<1>8. ASSUME NEW t \in Threads, Wait(t) \/ SpuriousWakeup(t)
      PROVE  Exclusive' /\ Ordered'
  BY <1>8 DEF Wait, SpuriousWakeup
<1>9. ASSUME NEW t \in Threads, Unlock(t)
      PROVE  Exclusive' /\ Ordered'
  BY <1>9, Zenon DEF Unlock, AfterWrite, ReleaseRmwView, AfterDrop
<1>10. ASSUME NEW t \in Threads, WakeOne(t)
       PROVE  Exclusive' /\ Ordered'
  BY <1>10 DEF WakeOne, AfterDrop, Sleepers
<1>11. CASE UNCHANGED vars
  BY <1>11, Zenon DEF vars
<1>12. QED
  BY <1>1, <1>2, <1>3, <1>4, <1>5, <1>6, <1>7, <1>8, <1>9, <1>10, <1>11, Zenon
     DEF Next, Step, ClientStep, Terminated

\* What a worker has read stays valid until it writes, because nobody else
\* writes while it holds the guard.
LEMMA LocalStep ==
  IInv /\ [Next]_vars => Local'
<1> SUFFICES ASSUME TypeOK, Exclusive, Local, [Next]_vars
             PROVE  Local'
  BY Zenon DEF IInv
<1> USE DEF TypeOK, Labels, Local
<1>1. ASSUME NEW w \in Workers, ReadValue(w)
      PROVE  Local'
  BY <1>1, Zenon DEF ReadValue
<1>2. ASSUME NEW w \in Workers, WriteValue(w)
      PROVE  Local'
  BY <1>2, Zenon DEF WriteValue, Exclusive, InCS
<1>3. ASSUME Join \/ PrintValue
      PROVE  Local'
  BY <1>3, Zenon DEF Join, PrintValue
<1>4. ASSUME NEW t \in Threads,
             \/ LockFast(t) \/ LockContended(t) \/ SwapContended(t)
             \/ Wait(t) \/ SpuriousWakeup(t)
      PROVE  Local'
  BY <1>4 DEF LockFast, LockContended, SwapContended, Wait, SpuriousWakeup
<1>5. ASSUME NEW t \in Threads, Unlock(t)
      PROVE  Local'
  BY <1>5 DEF Unlock, AfterDrop
<1>6. ASSUME NEW t \in Threads, WakeOne(t)
      PROVE  Local'
  BY <1>6 DEF WakeOne, AfterDrop, Sleepers
<1>7. CASE UNCHANGED vars
  BY <1>7, Zenon DEF vars
<1>8. QED
  BY <1>1, <1>2, <1>3, <1>4, <1>5, <1>6, <1>7, Zenon
     DEF Next, Step, ClientStep, Terminated

\* The thread that takes away the last reason why a sleeper will be woken
\* leaves another: drop() that finds 2 goes to wake_one(), wake_one() hands
\* over to a thread at the swap(2), and the swap(2) sets the state.
LEMMA WakeupStep ==
  IInv /\ [Next]_vars => NoLostWakeup'
<1> SUFFICES ASSUME TypeOK, Local, NoLostWakeup, [Next]_vars
             PROVE  NoLostWakeup'
  BY Zenon DEF IInv
<1> USE DEF TypeOK, Labels, NoLostWakeup, Sleepers
<1>1. ASSUME NEW w \in Workers, ReadValue(w) \/ WriteValue(w)
      PROVE  NoLostWakeup'
  BY <1>1, Zenon DEF ReadValue, WriteValue
<1>2. ASSUME Join \/ PrintValue
      PROVE  NoLostWakeup'
  BY <1>2, Zenon DEF Join, PrintValue
<1>3. ASSUME NEW t \in Threads, LockFast(t) \/ LockContended(t)
      PROVE  NoLostWakeup'
  BY <1>3 DEF LockFast, LockContended
<1>4. ASSUME NEW t \in Threads, SwapContended(t)
      PROVE  NoLostWakeup'
  BY <1>4, Zenon DEF SwapContended
<1>5. ASSUME NEW t \in Threads, Wait(t) \/ SpuriousWakeup(t)
      PROVE  NoLostWakeup'
  BY <1>5, Zenon DEF Wait, SpuriousWakeup
<1>6. ASSUME NEW t \in Threads, Unlock(t)
      PROVE  NoLostWakeup'
  BY <1>6, Zenon DEF Unlock, AfterDrop
<1>7. ASSUME NEW t \in Threads, WakeOne(t)
      PROVE  NoLostWakeup'
  BY <1>7, Zenon DEF WakeOne, AfterDrop
<1>8. CASE UNCHANGED vars
  BY <1>8, Zenon DEF vars
<1>9. QED
  BY <1>1, <1>2, <1>3, <1>4, <1>5, <1>6, <1>7, <1>8, Zenon
     DEF Next, Step, ClientStep, Terminated

\* The inductive invariant holds in every reachable state of the mutex.
THEOREM Invariance == Spec => []IInv
<1>1. IInv /\ [Next]_vars => IInv'
  BY TypeStep, ExclusiveStep, LocalStep, WakeupStep, Zenon DEF IInv
<1>2. QED
  BY InitInv, <1>1, PTL DEF Spec

\* Every variable of the mutex and of its client keeps its type.
THEOREM TypeCorrect == Spec => []TypeOK
<1>1. IInv => TypeOK
  BY Zenon DEF IInv
<1>2. QED
  BY Invariance, <1>1, PTL

\* No access through a MutexGuard races with an access of another thread: the
\* Acquire of lock() and the Release of drop() order them.
THEOREM DataRaceFree == Spec => []NoDataRace
<1>1. IInv => NoDataRace
  BY Zenon DEF IInv, Ordered, InCS, NoDataRace
<1>2. QED
  BY Invariance, <1>1, PTL

\* A thread asleep in wait() is never forgotten, although drop() calls
\* wake_one() only when it finds 2.
THEOREM WakeupNotLost == Spec => []NoLostWakeup
<1>1. IInv => NoLostWakeup
  BY Zenon DEF IInv
<1>2. QED
  BY Invariance, <1>1, PTL

\* The mutex implements the abstract lock: holders are exclusive, `+= 1` under
\* a guard is atomic, and main() prints after the last increment.
THEOREM Refinement == Spec => ImplementsLockedCounter
<1>1. Init => LC!Init
  BY Zenon DEF Init, LC!Init, Holders, InCS
<1>2. IInv /\ [Next]_vars => [LC!Next]_(LC!vars)
  <2> SUFFICES ASSUME IInv, [Next]_vars
               PROVE  [LC!Next]_(LC!vars)
    BY Zenon
  <2> USE DEF IInv, TypeOK, Labels, InCS, Holders
  <2>1. ASSUME NEW w \in Workers, ReadValue(w)
        PROVE  UNCHANGED LC!vars
    BY <2>1, Zenon DEF ReadValue, LC!vars
  <2>2. ASSUME NEW w \in Workers, WriteValue(w)
        PROVE  LC!Increment(w)
    BY <2>2 DEF WriteValue, LC!Increment, Exclusive, Local
  <2>3. ASSUME Join
        PROVE  UNCHANGED LC!vars
    BY <2>3, Zenon DEF Join, LC!vars
  <2>4. ASSUME PrintValue
        PROVE  LC!PrintTotal
    BY <2>4 DEF PrintValue, LC!PrintTotal, Exclusive, Local
  <2>5. ASSUME NEW t \in Threads, LockFast(t)
        PROVE  LC!Acquire(t)
    BY <2>5, Zenon DEF LockFast, LC!Acquire, Exclusive
  <2>6. ASSUME NEW t \in Threads, SwapContended(t)
        PROVE  LC!Acquire(t) \/ UNCHANGED LC!vars
    BY <2>6, Zenon DEF SwapContended, LC!Acquire, LC!vars, Exclusive
  <2>7. ASSUME NEW t \in Threads,
               LockContended(t) \/ Wait(t) \/ SpuriousWakeup(t)
        PROVE  UNCHANGED LC!vars
    BY <2>7, Zenon DEF LockContended, Wait, SpuriousWakeup, LC!vars
  <2>8. ASSUME NEW t \in Threads, Unlock(t)
        PROVE  LC!Release(t)
    BY <2>8 DEF Unlock, AfterDrop, LC!Release, Exclusive
  <2>9. ASSUME NEW t \in Threads, WakeOne(t)
        PROVE  UNCHANGED LC!vars
    BY <2>9, Zenon DEF WakeOne, AfterDrop, Sleepers, LC!vars
  <2>10. CASE UNCHANGED vars
    BY <2>10, Zenon DEF vars, LC!vars
  <2>11. QED
    BY <2>1, <2>2, <2>3, <2>4, <2>5, <2>6, <2>7, <2>8, <2>9, <2>10, Zenon
       DEF Next, Step, ClientStep, Terminated, LC!Next
<1>3. QED
  BY <1>1, <1>2, Invariance, PTL DEF Spec, LC!Spec, ImplementsLockedCounter

-----------------------------------------------------------------------------
(* The mutex of 09-01, module FutexMutex. *)

\* The inductive invariant.
FutexInv == FutexTypeOK /\ Exclusive /\ Ordered /\ Local /\ FutexNoLostWakeup

USE DEF Threads, Goto

\* The state after Mutex::new(), before any worker runs.
LEMMA FutexStart == Init => FutexInv
<1> SUFFICES ASSUME Init
             PROVE  FutexInv
  BY Zenon
<1>1. \A t \in Threads : pc[t] \in {"join", "lock"}
  BY Zenon DEF Init
<1>2. FutexTypeOK
  BY DEF Init, FutexTypeOK, FutexLabels
<1>3. Exclusive /\ Ordered
  BY <1>1, Zenon DEF Init, Exclusive, Ordered, InCS
<1>4. Local
  BY <1>1 DEF Init, Local
<1>5. FutexNoLostWakeup
  BY <1>1, Zenon DEF FutexNoLostWakeup, Sleepers
<1>6. QED
  BY <1>2, <1>3, <1>4, <1>5, Zenon DEF FutexInv

\* The client reads and writes the value, joins and prints.
LEMMA FutexClientPreserves ==
  ASSUME FutexInv, NEW t \in Threads, ClientStep(t)
  PROVE  FutexInv'
<1> USE DEF FutexTypeOK, FutexLabels
<1>1. ASSUME NEW w \in Workers, ReadValue(w)
      PROVE  FutexInv'
  <2> USE <1>1 DEF ReadValue
  <2>1. FutexTypeOK'
    BY Zenon DEF FutexInv, Deref, AfterAccess, ViewAfterAccess
  <2>2. Exclusive' /\ Ordered'
    BY DEF FutexInv, Exclusive, Ordered, InCS, Deref, AfterAccess, ViewAfterAccess
  <2>3. Local'
    BY Zenon DEF FutexInv, Local
  <2>4. FutexNoLostWakeup'
    BY Zenon DEF FutexInv, FutexNoLostWakeup, Sleepers, Holders, InCS
  <2>5. QED
    BY <2>1, <2>2, <2>3, <2>4, Zenon DEF FutexInv
<1>2. ASSUME NEW w \in Workers, WriteValue(w)
      PROVE  FutexInv'
  <2> USE <1>2 DEF WriteValue
  <2>1. FutexTypeOK'
    BY DEF FutexInv, Deref, AfterAccess, ViewAfterAccess, Local
  <2>2. Exclusive' /\ Ordered'
    BY DEF FutexInv, Exclusive, Ordered, InCS, Deref, AfterAccess, ViewAfterAccess
  <2>3. Local'
    BY Zenon DEF FutexInv, Local, Exclusive, InCS
  <2>4. FutexNoLostWakeup'
    BY Zenon DEF FutexInv, FutexNoLostWakeup, Sleepers, Holders, InCS
  <2>5. QED
    BY <2>1, <2>2, <2>3, <2>4, Zenon DEF FutexInv
<1>3. ASSUME Join
      PROVE  FutexInv'
  <2> USE <1>3 DEF Join
  <2>1. FutexTypeOK'
    BY DEF FutexInv, AfterJoin
  <2>2. Exclusive' /\ Ordered'
    BY Zenon DEF FutexInv, Exclusive, Ordered, InCS, AfterJoin
  <2>3. Local' /\ FutexNoLostWakeup'
    BY Zenon DEF FutexInv, Local, FutexNoLostWakeup, Sleepers
  <2>4. QED
    BY <2>1, <2>2, <2>3, Zenon DEF FutexInv
<1>4. ASSUME PrintValue
      PROVE  FutexInv'
  <2> USE <1>4 DEF PrintValue
  <2>1. FutexTypeOK'
    BY Zenon DEF FutexInv, Deref, AfterAccess, ViewAfterAccess
  <2>2. Exclusive' /\ Ordered'
    BY Zenon DEF FutexInv, Exclusive, Ordered, InCS, Deref, AfterAccess, ViewAfterAccess
  <2>3. Local'
    BY Zenon DEF FutexInv, Local
  <2>4. FutexNoLostWakeup'
    BY Zenon DEF FutexInv, FutexNoLostWakeup, Sleepers, Holders, InCS
  <2>5. QED
    BY <2>1, <2>2, <2>3, <2>4, Zenon DEF FutexInv
<1>5. QED
  BY <1>1, <1>2, <1>3, <1>4, Zenon DEF ClientStep

\* while state.swap(1, Acquire) == 1: whoever finds 0 is alone and acquires a
\* view of all accesses; whoever finds 1 changes nothing.
LEMMA FutexLockPreserves ==
  ASSUME FutexInv, NEW t \in Threads, Lock(t)
  PROVE  FutexInv'
<1> USE DEF FutexTypeOK, FutexLabels, Lock
<1>1. FutexTypeOK'
  BY DEF FutexInv, AfterWrite, AfterAcquire
<1>2. Exclusive' /\ Ordered'
  BY DEF FutexInv, Exclusive, Ordered, InCS, AfterWrite, AfterAcquire
<1>3. Local'
  BY Zenon DEF FutexInv, Local
<1>4. Holders' # {}
  BY DEF FutexInv, Exclusive, Holders, InCS
<1>5. QED
  BY <1>1, <1>2, <1>3, <1>4, Zenon DEF FutexInv, FutexNoLostWakeup

\* wait(&state, 1): a thread falls asleep only while there is an owner, whose
\* drop() is still to come.
LEMMA FutexWaitPreserves ==
  ASSUME FutexInv, NEW t \in Threads, FutexWait(t) \/ FutexSpuriousWakeup(t)
  PROVE  FutexInv'
<1> USE DEF FutexTypeOK, FutexLabels, FutexWait, FutexSpuriousWakeup
<1>1. FutexTypeOK'
  BY Zenon DEF FutexInv
<1>2. Exclusive' /\ Ordered'
  BY DEF FutexInv, Exclusive, Ordered, InCS
<1>3. Local'
  BY Zenon DEF FutexInv, Local
<1>4. FutexNoLostWakeup'
  BY DEF FutexInv, FutexNoLostWakeup, Exclusive, Sleepers, Holders, InCS
<1>5. QED
  BY <1>1, <1>2, <1>3, <1>4, Zenon DEF FutexInv

\* state.swap(0, Release): the owner publishes every access, and goes on to
\* wake_one().
LEMMA FutexUnlockPreserves ==
  ASSUME FutexInv, NEW t \in Threads, FutexUnlock(t)
  PROVE  FutexInv'
<1> USE DEF FutexTypeOK, FutexLabels, FutexUnlock
<1>1. FutexTypeOK'
  BY DEF FutexInv, AfterWrite, ReleaseRmwView
<1>2. Exclusive' /\ Ordered'
  BY Zenon DEF FutexInv, Exclusive, Ordered, InCS, AfterWrite, ReleaseRmwView
<1>3. Local'
  BY Zenon DEF FutexInv, Local
<1>4. FutexNoLostWakeup'
  BY Zenon DEF FutexInv, FutexNoLostWakeup
<1>5. QED
  BY <1>1, <1>2, <1>3, <1>4, Zenon DEF FutexInv

\* wake_one(&state): the woken thread tries again, and that is what the others
\* who sleep wait for.
LEMMA FutexWakePreserves ==
  ASSUME FutexInv, NEW t \in Threads, FutexWakeOne(t)
  PROVE  FutexInv'
<1> USE DEF FutexTypeOK, FutexLabels, FutexWakeOne, AfterDrop, Sleepers
<1>1. FutexTypeOK'
  BY DEF FutexInv
<1>2. Exclusive' /\ Ordered'
  BY DEF FutexInv, Exclusive, Ordered, InCS
<1>3. Local'
  BY DEF FutexInv, Local
<1>4. FutexNoLostWakeup'
  BY Zenon DEF FutexInv, FutexNoLostWakeup
<1>5. QED
  BY <1>1, <1>2, <1>3, <1>4, Zenon DEF FutexInv

\* The inductive invariant holds in every reachable state of the mutex.
THEOREM FutexInvariance == FutexSpec => []FutexInv
<1>1. FutexInv /\ [FutexNext]_vars => FutexInv'
  <2> SUFFICES ASSUME FutexInv, [FutexNext]_vars
               PROVE  FutexInv'
    BY Zenon
  <2>1. CASE UNCHANGED vars
    BY <2>1, Zenon DEF vars, FutexInv, FutexTypeOK, Exclusive, Ordered, Local,
       FutexNoLostWakeup, Sleepers, Holders, InCS
  <2>2. QED
    BY <2>1, FutexClientPreserves, FutexLockPreserves, FutexWaitPreserves,
       FutexUnlockPreserves, FutexWakePreserves, Zenon
       DEF FutexNext, FutexStep, Terminated
<1>2. QED
  BY FutexStart, <1>1, PTL DEF FutexSpec

\* Every variable of the mutex and of its client keeps its type.
THEOREM FutexTypeCorrect == FutexSpec => []FutexTypeOK
<1>1. FutexInv => FutexTypeOK
  BY Zenon DEF FutexInv
<1>2. QED
  BY FutexInvariance, <1>1, PTL

\* No access through a MutexGuard races with an access of another thread.
THEOREM FutexDataRaceFree == FutexSpec => []NoDataRace
<1>1. FutexInv => NoDataRace
  BY Zenon DEF FutexInv, Ordered, InCS, NoDataRace
<1>2. QED
  BY FutexInvariance, <1>1, PTL

\* A thread asleep in wait() is never forgotten, although a drop() wakes one
\* thread only and others may overtake it.
THEOREM FutexWakeupNotLost == FutexSpec => []FutexNoLostWakeup
<1>1. FutexInv => FutexNoLostWakeup
  BY Zenon DEF FutexInv
<1>2. QED
  BY FutexInvariance, <1>1, PTL

\* The mutex implements the abstract lock: holders are exclusive, `+= 1` under
\* a guard is atomic, and main() prints after the last increment.
THEOREM FutexRefinement == FutexSpec => ImplementsLockedCounter
<1>1. Init => LC!Init
  BY Zenon DEF Init, LC!Init, Holders, InCS
<1>2. FutexInv /\ [FutexNext]_vars => [LC!Next]_(LC!vars)
  <2> SUFFICES ASSUME FutexInv, [FutexNext]_vars
               PROVE  [LC!Next]_(LC!vars)
    BY Zenon
  <2> USE DEF FutexInv, FutexTypeOK, FutexLabels, InCS, Holders
  <2>1. ASSUME NEW w \in Workers, ReadValue(w)
        PROVE  UNCHANGED LC!vars
    BY <2>1, Zenon DEF ReadValue, LC!vars
  <2>2. ASSUME NEW w \in Workers, WriteValue(w)
        PROVE  LC!Increment(w)
    BY <2>2 DEF WriteValue, LC!Increment, Exclusive, Local
  <2>3. ASSUME Join
        PROVE  UNCHANGED LC!vars
    BY <2>3, Zenon DEF Join, LC!vars
  <2>4. ASSUME PrintValue
        PROVE  LC!PrintTotal
    BY <2>4 DEF PrintValue, LC!PrintTotal, Exclusive, Local
  <2>5. ASSUME NEW t \in Threads, Lock(t)
        PROVE  LC!Acquire(t) \/ UNCHANGED LC!vars
    BY <2>5 DEF Lock, LC!Acquire, LC!vars, Exclusive
  <2>6. ASSUME NEW t \in Threads, FutexWait(t) \/ FutexSpuriousWakeup(t)
        PROVE  UNCHANGED LC!vars
    BY <2>6, Zenon DEF FutexWait, FutexSpuriousWakeup, LC!vars
  <2>7. ASSUME NEW t \in Threads, FutexUnlock(t)
        PROVE  LC!Release(t)
    BY <2>7 DEF FutexUnlock, LC!Release, Exclusive
  <2>8. ASSUME NEW t \in Threads, FutexWakeOne(t)
        PROVE  UNCHANGED LC!vars
    BY <2>8, Zenon DEF FutexWakeOne, AfterDrop, Sleepers, LC!vars
  <2>9. CASE UNCHANGED vars
    BY <2>9, Zenon DEF vars, LC!vars
  <2>10. QED
    BY <2>1, <2>2, <2>3, <2>4, <2>5, <2>6, <2>7, <2>8, <2>9, Zenon
       DEF FutexNext, FutexStep, ClientStep, Terminated, LC!Next
<1>3. QED
  BY <1>1, <1>2, FutexInvariance, PTL DEF FutexSpec, LC!Spec, ImplementsLockedCounter

-----------------------------------------------------------------------------
(* The mutex of 09-01-02, module SpinningMutex. *)

\* What the refinement needs to know: pc is a function on the threads.
PcOK == pc = [t \in Threads |-> pc[t]] /\ Main \in Threads

\* Every step changes pc at threads only.
LEMMA PcStep == PcOK /\ [SpinNext]_spinVars => PcOK'
<1> SUFFICES ASSUME PcOK, [SpinNext]_spinVars
             PROVE  PcOK'
  BY Zenon
<1> USE DEF PcOK
<1>1. ASSUME NEW t \in Threads, ClientStep(t)
      PROVE  PcOK'
  BY <1>1, Zenon DEF ClientStep, ReadValue, WriteValue, Join, PrintValue
<1>2. ASSUME NEW t \in Threads,
             LockFast(t) \/ SwapContended(t) \/ Wait(t) \/ Unlock(t) \/ SpuriousWakeup(t)
      PROVE  PcOK'
  BY <1>2, Zenon DEF LockFast, SwapContended, Wait, Unlock, SpuriousWakeup
<1>3. ASSUME NEW t \in Threads, WakeOne(t)
      PROVE  PcOK'
  BY <1>3, Zenon DEF WakeOne, Sleepers
<1>4. ASSUME NEW t \in Threads,
             EnterContended(t) \/ Spin(t) \/ RetryFast(t) \/ RetryContended(t)
      PROVE  PcOK'
  BY <1>4, Zenon DEF EnterContended, Spin, RetryFast, RetryContended
<1>5. CASE UNCHANGED vars
  BY <1>5, Zenon DEF vars
<1>6. QED
  BY <1>1, <1>2, <1>3, <1>4, <1>5, Zenon DEF SpinNext, SpinStep, Terminated, spinVars

\* A step of the client and of the mutex of 09-01-01 is the same step there.
LEMMA SameStep ==
  ASSUME PcOK, PcOK', NEW t \in Threads,
         \/ ClientStep(t) \/ LockFast(t) \/ SwapContended(t) \/ Wait(t)
         \/ Unlock(t) \/ WakeOne(t) \/ SpuriousWakeup(t)
  PROVE  M!Step(t) \/ M!SpuriousWakeup(t)
<1> USE DEF PcOK
<1>1. ASSUME NEW w \in Workers, t = w, ReadValue(w)
      PROVE  M!ReadValue(w)
  BY <1>1, Zenon
     DEF ReadValue, M!ReadValue, Deref, M!Deref, M!Goto, M!AfterAccess,
     M!ViewAfterAccess,
              AfterAccess, ViewAfterAccess
<1>2. ASSUME NEW w \in Workers, t = w, WriteValue(w)
      PROVE  M!WriteValue(w)
  BY <1>2, Zenon DEF WriteValue, M!WriteValue, Deref, M!Deref, M!Goto, M!AfterAccess,
     M!ViewAfterAccess,
              AfterAccess, ViewAfterAccess
<1>3. ASSUME Join
      PROVE  M!Join
  BY <1>3, Zenon DEF Join, M!Join, M!Goto, AfterJoin, M!AfterJoin
<1>4. ASSUME PrintValue
      PROVE  M!PrintValue
  BY <1>4, Zenon DEF PrintValue, M!PrintValue, Deref, M!Deref, M!Goto, M!AfterAccess,
     M!ViewAfterAccess,
              AfterAccess, ViewAfterAccess
<1>5. ASSUME LockFast(t)
      PROVE  M!LockFast(t)
  BY <1>5, Zenon DEF LockFast, M!LockFast, M!Goto, AfterWrite, M!AfterWrite,
     AfterAcquire, M!AfterAcquire
<1>6. ASSUME SwapContended(t)
      PROVE  M!SwapContended(t)
  BY <1>6, Zenon DEF SwapContended, M!SwapContended, M!Goto, AfterWrite, M!AfterWrite,
              AfterAcquire, M!AfterAcquire
<1>7. ASSUME Wait(t)
      PROVE  M!Wait(t)
  BY <1>7, Zenon DEF Wait, M!Wait, M!Goto
<1>8. ASSUME Unlock(t)
      PROVE  M!Unlock(t)
  BY <1>8, Zenon DEF Unlock, M!Unlock, M!Goto, AfterWrite, M!AfterWrite, ReleaseRmwView,
              M!ReleaseRmwView, AfterDrop, M!AfterDrop
<1>9. ASSUME WakeOne(t)
      PROVE  M!WakeOne(t)
  <2>1. M!Sleepers = Sleepers /\ M!AfterDrop(t) = AfterDrop(t)
    BY Zenon DEF Sleepers, M!Sleepers, AfterDrop, M!AfterDrop, M!Threads
  <2>2. AfterDrop(t) \notin {"spin", "retry"} /\ Sleepers \subseteq Threads
    BY Zenon DEF AfterDrop, Sleepers
  <2>3. CASE Sleepers = {} /\ Goto(t, AfterDrop(t))
    BY <1>9, <2>1, <2>2, <2>3, Zenon DEF WakeOne, M!WakeOne, M!Goto
  <2>4. CASE \E u \in Sleepers : pc' = [pc EXCEPT ![t] = AfterDrop(t), ![u] = "swap"]
    <3>1. PICK u \in Sleepers : pc' = [pc EXCEPT ![t] = AfterDrop(t), ![u] = "swap"]
      BY <2>4, Zenon
    <3> DEFINE mapped == [v \in Threads |-> IF pc[v] \in {"spin", "retry"} THEN "lock" ELSE pc[v]]
    <3>2. \A v \in Threads :
            pc'[v] = IF v = u THEN "swap" ELSE IF v = t THEN AfterDrop(t) ELSE pc[v]
      BY <2>2, <3>1, Zenon
    <3>3. mapped' = [mapped EXCEPT ![t] = AfterDrop(t), ![u] = "swap"]
      BY <2>2, <3>1, <3>2, Zenon
    <3>4. mapped[t] = "wake"
      BY <1>9, Zenon DEF WakeOne
    <3>5. QED
      BY <1>9, <2>1, <3>1, <3>3, <3>4, Zenon DEF WakeOne, M!WakeOne
  <2>5. QED
    BY <1>9, <2>3, <2>4, Zenon DEF WakeOne
<1>10. ASSUME SpuriousWakeup(t)
       PROVE  M!SpuriousWakeup(t)
  BY <1>10, Zenon DEF SpuriousWakeup, M!SpuriousWakeup, M!Goto
<1>11. QED
  BY <1>1, <1>2, <1>3, <1>4, <1>5, <1>6, <1>7, <1>8, <1>9, <1>10, Zenon
     DEF ClientStep, M!Step, M!ClientStep

\* To enter lock_contented() and to spin is to stay before the first exchange;
\* the second exchange is the first one of 09-01-01.
LEMMA SpinPhase ==
  ASSUME PcOK, PcOK', NEW t \in Threads,
         EnterContended(t) \/ Spin(t) \/ RetryFast(t) \/ RetryContended(t)
  PROVE  M!Step(t) \/ UNCHANGED M!vars
<1> USE DEF PcOK
<1>1. ASSUME EnterContended(t)
      PROVE  UNCHANGED M!vars
  BY <1>1, Zenon DEF EnterContended, M!vars
<1>2. ASSUME Spin(t)
      PROVE  UNCHANGED M!vars
  BY <1>2, Zenon DEF Spin, M!vars
<1>3. ASSUME RetryFast(t)
      PROVE  M!LockFast(t)
  BY <1>3, Zenon DEF RetryFast, M!LockFast, M!Goto, AfterWrite, M!AfterWrite,
     AfterAcquire, M!AfterAcquire
<1>4. ASSUME RetryContended(t)
      PROVE  M!LockContended(t)
  BY <1>4, Zenon DEF RetryContended, M!LockContended, M!Goto
<1>5. QED
  BY <1>1, <1>2, <1>3, <1>4, Zenon DEF M!Step

\* The mutex that spins before it waits implements the one that does not.
THEOREM SpinningRefinement == SpinSpec => ImplementsMutex
<1>1. SpinInit => PcOK /\ M!Init
  BY Zenon DEF SpinInit, Init, PcOK, M!Init, M!Threads
<1>2. PcOK /\ PcOK' /\ [SpinNext]_spinVars => [M!Next]_(M!vars)
  <2> SUFFICES ASSUME PcOK, PcOK', [SpinNext]_spinVars
               PROVE  [M!Next]_(M!vars)
    BY Zenon
  <2>1. CASE UNCHANGED vars
    BY <2>1, Zenon DEF vars, M!vars
  <2>2. ASSUME NEW t \in Threads, SpinStep(t) \/ SpuriousWakeup(t)
        PROVE  M!Next \/ UNCHANGED M!vars
    BY <2>2, SameStep, SpinPhase, Zenon DEF SpinStep, M!Next, M!Threads
  <2>3. QED
    BY <2>1, <2>2, Zenon DEF SpinNext, Terminated, spinVars
<1>3. QED
  BY <1>1, <1>2, PcStep, PTL DEF SpinSpec, ImplementsMutex, M!Spec

\* The inductive invariant of the mutex with a spin phase: that of Mutex, with
\* two more labels.
SpinTypes ==
  /\ state \in 0..2 /\ value \in Nat
  /\ pc \in [Threads -> Labels \cup {"spin", "retry"}]
  /\ left \in [Workers -> Nat] /\ tmp \in [Workers -> Nat]
  /\ hb \in [Threads -> SUBSET Threads] /\ view \subseteq Threads

SpinInv == SpinTypes /\ Exclusive /\ Ordered /\ Local /\ NoLostWakeup

\* The state after Mutex::new(), before any worker runs.
LEMMA SpinStart == SpinInit => SpinInv
<1>1. Init => SpinTypes
  BY DEF Init, SpinTypes, Labels
<1>2. QED
  BY <1>1, InitInv, Zenon DEF SpinInit, SpinInv, IInv

\* The client reads and writes the value, joins and prints.
LEMMA SpinClientPreserves ==
  ASSUME SpinInv, NEW t \in Threads, ClientStep(t)
  PROVE  SpinInv'
<1> USE DEF SpinTypes, Labels
<1>1. ASSUME NEW w \in Workers, ReadValue(w)
      PROVE  SpinInv'
  <2> USE <1>1 DEF ReadValue
  <2>1. SpinTypes'
    BY Zenon DEF SpinInv, Deref, AfterAccess, ViewAfterAccess
  <2>2. Exclusive' /\ Ordered'
    BY DEF SpinInv, Exclusive, Ordered, InCS, Deref, AfterAccess, ViewAfterAccess
  <2>3. Local' /\ NoLostWakeup'
    BY Zenon DEF SpinInv, Local, NoLostWakeup, Sleepers
  <2>4. QED
    BY <2>1, <2>2, <2>3, Zenon DEF SpinInv
<1>2. ASSUME NEW w \in Workers, WriteValue(w)
      PROVE  SpinInv'
  <2> USE <1>2 DEF WriteValue
  <2>1. SpinTypes'
    BY DEF SpinInv, Deref, AfterAccess, ViewAfterAccess, Local
  <2>2. Exclusive' /\ Ordered'
    BY DEF SpinInv, Exclusive, Ordered, InCS, Deref, AfterAccess, ViewAfterAccess
  <2>3. Local'
    BY Zenon DEF SpinInv, Local, Exclusive, InCS
  <2>4. NoLostWakeup'
    BY Zenon DEF SpinInv, NoLostWakeup, Sleepers
  <2>5. QED
    BY <2>1, <2>2, <2>3, <2>4, Zenon DEF SpinInv
<1>3. ASSUME Join \/ PrintValue
      PROVE  SpinInv'
  <2> USE <1>3 DEF Join, PrintValue
  <2>1. SpinTypes'
    BY DEF SpinInv, AfterJoin, Deref, AfterAccess, ViewAfterAccess
  <2>2. Exclusive' /\ Ordered'
    BY DEF SpinInv, Exclusive, Ordered, InCS, AfterJoin, Deref, AfterAccess,
       ViewAfterAccess
  <2>3. Local' /\ NoLostWakeup'
    BY DEF SpinInv, Local, NoLostWakeup, Sleepers
  <2>4. QED
    BY <2>1, <2>2, <2>3, Zenon DEF SpinInv
<1>4. QED
  BY <1>1, <1>2, <1>3, Zenon DEF ClientStep

\* Whoever finds 0, in the first exchange, the second or the loop, is alone and
\* acquires a view of all accesses.
LEMMA SpinLockPreserves ==
  ASSUME SpinInv, NEW t \in Threads, LockFast(t) \/ RetryFast(t) \/ SwapContended(t)
  PROVE  SpinInv'
<1> USE DEF SpinTypes, Labels, LockFast, RetryFast, SwapContended
<1>1. SpinTypes'
  BY DEF SpinInv, AfterWrite, AfterAcquire
<1>2. Exclusive' /\ Ordered'
  BY DEF SpinInv, Exclusive, Ordered, InCS, AfterWrite, AfterAcquire
<1>3. Local'
  BY DEF SpinInv, Local
<1>4. NoLostWakeup'
  BY DEF SpinInv, NoLostWakeup, Sleepers
<1>5. QED
  BY <1>1, <1>2, <1>3, <1>4, Zenon DEF SpinInv

\* What does not take the lock changes no more than where the thread is.
LEMMA SpinWaitPreserves ==
  ASSUME SpinInv, NEW t \in Threads,
         \/ EnterContended(t) \/ Spin(t) \/ RetryContended(t)
         \/ Wait(t) \/ SpuriousWakeup(t)
  PROVE  SpinInv'
<1> USE DEF SpinTypes, Labels
<1>1. /\ UNCHANGED <<state, value, left, tmp, printed, hb, view>>
      /\ pc[t] \in {"lock", "spin", "retry", "wait", "sleep"}
      /\ \E l \in {"spin", "retry", "swap", "sleep"} :
           pc' = [pc EXCEPT ![t] = l] /\ (l = "sleep" => state = 2) /\ (pc[t] = "sleep" => l = "swap")
  BY Zenon DEF SpinInv, EnterContended, Spin, RetryContended, Wait, SpuriousWakeup
<1>2. PICK l \in {"spin", "retry", "swap", "sleep"} :
        pc' = [pc EXCEPT ![t] = l] /\ (l = "sleep" => state = 2) /\ (pc[t] = "sleep" => l = "swap")
  BY <1>1, Zenon
<1>3. SpinTypes'
  BY <1>1, <1>2, Zenon DEF SpinInv
<1>4. Exclusive' /\ Ordered'
  BY <1>1, <1>2, Zenon DEF SpinInv, Exclusive, Ordered, InCS
<1>5. Local'
  BY <1>1, <1>2, Zenon DEF SpinInv, Local
<1>6. NoLostWakeup'
  BY <1>1, <1>2, Zenon DEF SpinInv, NoLostWakeup, Sleepers
<1>7. QED
  BY <1>3, <1>4, <1>5, <1>6, Zenon DEF SpinInv

\* drop(): the owner publishes every access, and wakes a sleeper if it finds 2.
LEMMA SpinUnlockPreserves ==
  ASSUME SpinInv, NEW t \in Threads, Unlock(t) \/ WakeOne(t)
  PROVE  SpinInv'
<1> USE DEF SpinTypes, Labels, AfterDrop
<1>1. ASSUME Unlock(t)
      PROVE  SpinInv'
  <2> USE <1>1 DEF Unlock
  <2>1. SpinTypes'
    BY DEF SpinInv, AfterWrite, ReleaseRmwView
  <2>2. Exclusive' /\ Ordered'
    BY Zenon DEF SpinInv, Exclusive, Ordered, InCS, AfterWrite, ReleaseRmwView
  <2>3. Local' /\ NoLostWakeup'
    BY DEF SpinInv, Local, NoLostWakeup, Sleepers
  <2>4. QED
    BY <2>1, <2>2, <2>3, Zenon DEF SpinInv
<1>2. ASSUME WakeOne(t)
      PROVE  SpinInv'
  <2> USE <1>2 DEF WakeOne, Sleepers
  <2>1. SpinTypes'
    BY DEF SpinInv
  <2>2. Exclusive' /\ Ordered'
    BY DEF SpinInv, Exclusive, Ordered, InCS
  <2>3. Local'
    BY DEF SpinInv, Local
  <2>4. NoLostWakeup'
    BY Zenon DEF SpinInv, NoLostWakeup
  <2>5. QED
    BY <2>1, <2>2, <2>3, <2>4, Zenon DEF SpinInv
<1>3. QED
  BY <1>1, <1>2, Zenon

\* The inductive invariant holds in every reachable state of the mutex.
THEOREM SpinInvariance == SpinSpec => []SpinInv
<1>1. SpinInv /\ [SpinNext]_spinVars => SpinInv'
  <2> SUFFICES ASSUME SpinInv, [SpinNext]_spinVars
               PROVE  SpinInv'
    BY Zenon
  <2>1. CASE UNCHANGED vars
    BY <2>1, Zenon DEF vars, SpinInv, SpinTypes, Exclusive, Ordered, Local,
       NoLostWakeup, Sleepers, InCS
  <2>2. QED
    BY <2>1, SpinClientPreserves, SpinLockPreserves, SpinWaitPreserves,
       SpinUnlockPreserves, Zenon
       DEF SpinNext, SpinStep, Terminated, spinVars
<1>2. QED
  BY SpinStart, <1>1, PTL DEF SpinSpec

\* No access through a guard of 09-01-02 races with an access of another thread.
THEOREM SpinDataRaceFree == SpinSpec => []NoDataRace
<1>1. SpinInv => NoDataRace
  BY Zenon DEF SpinInv, Ordered, InCS, NoDataRace
<1>2. QED
  BY SpinInvariance, <1>1, PTL

\* No thread of 09-01-02 asleep in wait() is forgotten, although a thread that
\* spins takes the lock past those that sleep.
THEOREM SpinWakeupNotLost == SpinSpec => []NoLostWakeup
<1>1. SpinInv => NoLostWakeup
  BY Zenon DEF SpinInv
<1>2. QED
  BY SpinInvariance, <1>1, PTL
=============================================================================
