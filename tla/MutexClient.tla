---------------------------- MODULE MutexClient ----------------------------
(***************************************************************************)
(* The part that the mutexes of chapter 9 share: struct Mutex<T>, access   *)
(* to the value through a MutexGuard, and the program in main(): every     *)
(* worker runs `*m.lock() += 1` Iterations times, main() joins the workers *)
(* at the end of the thread scope, locks once more and prints the value.   *)
(* lock() and drop() are in the modules that extend this one; they move a  *)
(* thread from "lock" to "read", and from "drop" to AfterDrop.             *)
(***************************************************************************)
EXTENDS Naturals, FiniteSets, MemoryModel

CONSTANTS Workers, Main, Iterations

ASSUME ClientAssumption ==
  /\ IsFiniteSet(Workers)
  /\ Main \notin Workers
  /\ Iterations \in Nat \ {0}

VARIABLES state,     \* Mutex.state, an AtomicU32
          value,     \* Mutex.value, the UnsafeCell<T>
          pc,        \* where each thread is
          left,      \* increments a worker still has to make
          tmp,       \* the operand a worker has read in `+= 1`
          printed,   \* the numbers main() has printed
          hb,        \* accesses to value that happen before each thread
          view,      \* what the last store to state publishes
          readable   \* values of state a load of each thread may return

vars == <<state, value, pc, left, tmp, printed, hb, view, readable>>

Threads == Workers \cup {Main}

Init ==
  /\ state = 0
  /\ value = 0
  /\ pc = [t \in Threads |-> IF t = Main THEN "join" ELSE "lock"]
  /\ left = [w \in Workers |-> Iterations]
  /\ tmp = [w \in Workers |-> 0]
  /\ printed = {}
  /\ hb = [t \in Threads |-> Threads]
  /\ view = Threads
  /\ readable = [t \in Threads |-> {0}]

Goto(t, label) == pc' = [pc EXCEPT ![t] = label]

\* t reads or writes the value through its guard.
Deref(t) ==
  /\ hb' = AfterAccess(hb, t, t)
  /\ view' = ViewAfterAccess(view, t)

\* The two halves of `*m.lock() += 1`.
ReadValue(w) ==
  /\ pc[w] = "read"
  /\ tmp' = [tmp EXCEPT ![w] = value]
  /\ Deref(w)
  /\ Goto(w, "write")
  /\ UNCHANGED <<state, value, left, printed, readable>>

WriteValue(w) ==
  /\ pc[w] = "write"
  /\ value' = tmp[w] + 1
  /\ left' = [left EXCEPT ![w] = @ - 1]
  /\ Deref(w)
  /\ Goto(w, "drop")
  /\ UNCHANGED <<state, tmp, printed, readable>>

\* std::thread::scope returns once every worker has finished.
Join ==
  /\ pc[Main] = "join"
  /\ \A w \in Workers : pc[w] = "done"
  /\ hb' = AfterJoin(hb, Main)
  /\ readable' = [readable EXCEPT ![Main] = {state}]
  /\ Goto(Main, "lock")
  /\ UNCHANGED <<state, value, left, tmp, printed, view>>

PrintValue ==
  /\ pc[Main] = "read"
  /\ printed' = printed \cup {value}
  /\ Deref(Main)
  /\ Goto(Main, "drop")
  /\ UNCHANGED <<state, value, left, tmp, readable>>

\* Fault: one iteration too many.
AfterDropOffByOne(t) ==
  IF t \in Workers /\ left[t] >= 0 THEN "lock" ELSE "done"

\* The guard is gone: the next iteration of the loop, or the end of the thread.
AfterDrop(t) == IF t \in Workers /\ left[t] > 0 THEN "lock" ELSE "done"

Finished == pc[Main] = "done"

Terminated == Finished /\ UNCHANGED vars

ClientStep(t) ==
  \/ t \in Workers /\ (ReadValue(t) \/ WriteValue(t))
  \/ t = Main /\ (Join \/ PrintValue)

-----------------------------------------------------------------------------
\* The threads that own a MutexGuard.
InCS(t) == pc[t] \in {"read", "write", "drop"}

Holders == {t \in Threads : InCS(t)}

\* The threads asleep in wait().
Sleepers == {t \in Threads : pc[t] = "sleep"}

LC == INSTANCE LockedCounter WITH holders <- Holders

\* The lock implements the abstract one: at most one guard at a time, the
\* read-then-write `+= 1` of a guard holder is atomic (the purpose of lock()
\* and of MutexGuard's drop()), and so println! in main() shows the increments
\* of all the workers.
ImplementsLockedCounter == LC!Spec

\* Every access to value through a guard (Deref, DerefMut) is ordered after
\* all earlier accesses of the other threads by the Acquire in lock() and the
\* Release in drop().
NoDataRace ==
  \A t \in Threads : pc[t] \in {"read", "write"} => Threads \ {t} \subseteq hb[t]

\* The program ends: no thread sleeps forever in wait() (the mutex wakes
\* whoever it must).
Termination == <>Finished
=============================================================================
