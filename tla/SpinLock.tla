------------------------------ MODULE SpinLock ------------------------------
(***************************************************************************)
(* The spin locks of chapter 4, under the program in main() of             *)
(* examples/04-03_safe-interface-with-lock-guard.rs: every worker takes    *)
(* the lock once and pushes its items to the vector under one guard,       *)
(* main() joins the workers, takes the lock and asserts that the vector    *)
(* holds every item.                                                       *)
(*                                                                         *)
(* lock() is a loop on swap(true, Acquire) in 04-02 and 04-03 (SwapSpec),  *)
(* on compare_exchange_weak(false, true, Acquire, Relaxed) in 04-01        *)
(* (ExchangeSpec).                                                         *)
(*                                                                         *)
(* Labels of pc:                                                           *)
(*   "lock"    before the read-modify-write in the condition of the loop   *)
(*   "push"    holding the guard, before Vec::push reads the vector        *)
(*   "store"   within Vec::push, before it stores the longer vector        *)
(*   "assert"  main() holds the guard, before it reads the vector          *)
(*   "unlock"  before store(false, Release)                                *)
(***************************************************************************)
EXTENDS Naturals, FiniteSets, Sequences, MemoryModel

CONSTANTS Workers, Main,
          Pushes   \* the number of items each worker pushes

ASSUME SpinLockAssumption ==
  /\ IsFiniteSet(Workers)
  /\ Main \notin Workers
  /\ Pushes \in [Workers -> Nat \ {0}]

VARIABLES locked,   \* SpinLock.locked, an AtomicBool
          value,    \* SpinLock.value, the vector in the UnsafeCell
          pc,       \* where each thread is
          tmp,      \* the vector as Vec::push of a worker has read it
          pushed,   \* how many items each worker has pushed
          hb,       \* accesses to value that happen before each thread
          view      \* what the last store to locked publishes

vars == <<locked, value, pc, tmp, pushed, hb, view>>

Threads == Workers \cup {Main}

Init ==
  /\ locked = FALSE
  /\ value = <<>>
  /\ pc = [t \in Threads |-> IF t = Main THEN "join" ELSE "lock"]
  /\ tmp = [w \in Workers |-> <<>>]
  /\ pushed = [w \in Workers |-> 0]
  /\ hb = [t \in Threads |-> Threads]
  /\ view = Threads

Goto(t, label) == pc' = [pc EXCEPT ![t] = label]

\* The first thing a thread does with its guard.
Guarded(t) == IF t = Main THEN "assert" ELSE "push"

\* Fault: the condition of the loop is lost.
SwapOnce(t) ==
  /\ pc[t] = "lock"
  /\ locked' = TRUE
  /\ hb' = AfterAcquire(hb, t, view)
  /\ Goto(t, Guarded(t))
  /\ UNCHANGED <<value, tmp, pushed, view>>

\* while locked.swap(true, Acquire)
Swap(t) ==
  /\ pc[t] = "lock"
  /\ locked' = TRUE
  /\ hb' = AfterAcquire(hb, t, view)
  /\ Goto(t, IF locked THEN "lock" ELSE Guarded(t))
  /\ UNCHANGED <<value, tmp, pushed, view>>

\* Fault: the successful exchange is Relaxed.
ExchangeRelaxed(t) ==
  /\ pc[t] = "lock"
  /\ ~locked
  /\ locked' = TRUE
  /\ Goto(t, Guarded(t))
  /\ UNCHANGED <<value, tmp, pushed, hb, view>>

\* compare_exchange_weak(false, true, Acquire, Relaxed) succeeds.
Exchange(t) ==
  /\ pc[t] = "lock"
  /\ ~locked
  /\ locked' = TRUE
  /\ hb' = AfterAcquire(hb, t, view)
  /\ Goto(t, Guarded(t))
  /\ UNCHANGED <<value, tmp, pushed, view>>

\* It fails: the lock is taken, or the thread has read an old value, or for no
\* reason at all.
ExchangeFails(t) ==
  /\ pc[t] = "lock"
  /\ UNCHANGED vars

\* t reads or writes the vector through its guard.
Deref(t) ==
  /\ hb' = AfterAccess(hb, t, t)
  /\ view' = ViewAfterAccess(view, t)

\* The two halves of Vec::push.
PushRead(w) ==
  /\ pc[w] = "push"
  /\ tmp' = [tmp EXCEPT ![w] = value]
  /\ Deref(w)
  /\ Goto(w, "store")
  /\ UNCHANGED <<locked, value, pushed>>

PushStore(w) ==
  /\ pc[w] = "store"
  /\ value' = Append(tmp[w], <<w, pushed[w] + 1>>)
  /\ pushed' = [pushed EXCEPT ![w] = @ + 1]
  /\ Deref(w)
  /\ Goto(w, IF pushed[w] + 1 < Pushes[w] THEN "push" ELSE "unlock")
  /\ UNCHANGED <<locked, tmp>>

\* std::thread::scope returns once every worker has finished.
Join ==
  /\ pc[Main] = "join"
  /\ \A w \in Workers : pc[w] = "done"
  /\ hb' = AfterJoin(hb, Main)
  /\ Goto(Main, "lock")
  /\ UNCHANGED <<locked, value, tmp, pushed, view>>

\* The assertions of main() read the vector.
Assert ==
  /\ pc[Main] = "assert"
  /\ Deref(Main)
  /\ Goto(Main, "unlock")
  /\ UNCHANGED <<locked, value, tmp, pushed>>

\* Fault: nobody resets locked.
UnlockForgotten(t) ==
  /\ pc[t] = "unlock"
  /\ Goto(t, "done")
  /\ UNCHANGED <<locked, value, tmp, pushed, hb, view>>

\* locked.store(false, Release): unlock(), and the guard's drop().
Unlock(t) ==
  /\ pc[t] = "unlock"
  /\ locked' = FALSE
  /\ view' = ReleaseStoreView(hb, t)
  /\ Goto(t, "done")
  /\ UNCHANGED <<value, tmp, pushed, hb>>

GuardStep(t) ==
  \/ t \in Workers /\ (PushRead(t) \/ PushStore(t))
  \/ t = Main /\ (Join \/ Assert)
  \/ Unlock(t)

Finished == pc[Main] = "done"

Terminated == Finished /\ UNCHANGED vars

SwapNext == (\E t \in Threads : Swap(t) \/ GuardStep(t)) \/ Terminated

SwapSpec ==
  /\ Init /\ [][SwapNext]_vars
  /\ \A t \in Threads : WF_vars(Swap(t) \/ GuardStep(t))

ExchangeNext ==
  \/ \E t \in Threads : Exchange(t) \/ ExchangeFails(t) \/ GuardStep(t)
  \/ Terminated

\* A free lock is not refused to a thread forever: an exchange that fails
\* spuriously is tried again, and may not do so every time.
ExchangeSpec ==
  /\ Init /\ [][ExchangeNext]_vars
  /\ \A t \in Threads : WF_vars(Exchange(t) \/ GuardStep(t))

-----------------------------------------------------------------------------
\* The guard's &mut T is exclusive: every access through it is ordered after
\* all the accesses of the other threads, by the Acquire of lock() and the
\* Release of drop() or unlock().
NoDataRace ==
  \A t \in Threads :
    pc[t] \in {"push", "store", "assert"} => Threads \ {t} \subseteq hb[t]

\* What a thread pushes under one guard stays together in the vector, and
\* stays there: no other thread gets between lock() and drop(), and no push
\* overwrites another.  So the assertions of main() hold.
GuardIsAtomic ==
  \A w \in Workers :
    pc[w] \in {"unlock", "done"} =>
      \E k \in 0..Len(value) :
        /\ k + Pushes[w] <= Len(value)
        /\ \A i \in 1..Pushes[w] : value[k + i] = <<w, i>>

\* Every thread gets the lock and main() ends.
Termination == <>Finished
=============================================================================
