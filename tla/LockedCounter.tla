--------------------------- MODULE LockedCounter ---------------------------
(***************************************************************************)
(* What every Mutex of chapter 9 promises to the program in its main():    *)
(* one thread at a time holds the lock, an increment under the lock is     *)
(* atomic, the lock is never taken from its holder, and main() prints the  *)
(* sum of all increments.                                                  *)
(***************************************************************************)
EXTENDS Naturals

CONSTANTS Workers, Main, Iterations

VARIABLES holders,   \* the threads that own a MutexGuard
          left,      \* increments a worker still has to make
          value,     \* the protected counter
          printed    \* the numbers main() has printed

vars == <<holders, left, value, printed>>

Init ==
  /\ holders = {}
  /\ left = [w \in Workers |-> Iterations]
  /\ value = 0
  /\ printed = {}

Acquire(t) ==
  /\ holders = {}
  /\ holders' = {t}
  /\ UNCHANGED <<left, value, printed>>

Increment(w) ==
  /\ holders = {w}
  /\ left[w] > 0
  /\ left' = [left EXCEPT ![w] = @ - 1]
  /\ value' = value + 1
  /\ UNCHANGED <<holders, printed>>

\* main() prints when the workers have made all their increments.
PrintTotal ==
  /\ holders = {Main}
  /\ \A w \in Workers : left[w] = 0
  /\ printed' = printed \cup {value}
  /\ UNCHANGED <<holders, left, value>>

Release(t) ==
  /\ holders = {t}
  /\ holders' = {}
  /\ UNCHANGED <<left, value, printed>>

Next ==
  \/ \E t \in Workers \cup {Main} : Acquire(t) \/ Release(t)
  \/ \E w \in Workers : Increment(w)
  \/ PrintTotal

Spec == Init /\ [][Next]_vars
=============================================================================
