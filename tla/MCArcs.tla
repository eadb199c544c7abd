------------------------------- MODULE MCArcs -------------------------------
(***************************************************************************)
(* The three pointers of chapter 6 under one client, in one state space:   *)
(* arc says which of them it is.                                           *)
(***************************************************************************)
EXTENDS RefCount

CONSTANTS t1, t2, t3

VARIABLE arc   \* the pointer in use

B == INSTANCE BasicArc
W == INSTANCE WeakArc
O == INSTANCE OptimizedArc

mcVars == <<rcVars, arc>>

\* Who starts with an Arc and who with a Weak, and the number of calls: two
\* threads and more calls, or more handles and fewer calls.
WeakStarts ==
  {<<{t1}, {t2}, 3>>, <<{t1, t2}, {t1, t2}, 2>>, <<{t1, t2}, {t3}, 1>>}
OptimizedStarts ==
  {<<{t1}, {t2}, 3>>, <<{t1, t2}, {t3}, 2>>, <<{t1}, {t1, t2, t3}, 2>>}

MCInit ==
  \/ arc = "basic" /\ B!BasicInit /\ budget = Budget
  \/ \E start \in WeakStarts :
       arc = "weak" /\ W!InitWith(start[1], start[2]) /\ budget = start[3]
  \/ \E start \in OptimizedStarts :
       arc = "optimized" /\ O!InitWith(start[1], start[2]) /\ budget = start[3]

MCNext ==
  /\ \/ arc = "basic" /\ B!BasicNext
     \/ arc = "weak" /\ W!Next
     \/ arc = "optimized" /\ O!Next
  /\ UNCHANGED arc

\* Every thread is fair, whichever the pointer is.
Progress(t) ==
  \/ arc = "basic" /\ B!BasicProgress(t)
  \/ arc = "weak" /\ W!Progress(t)
  \/ arc = "optimized" /\ O!Progress(t)

MCSpec == MCInit /\ [][MCNext]_mcVars /\ \A t \in Threads : WF_rcVars(Progress(t))

\* alloc_ref_count of the optimised Arc is what it counts, or the lock of the
\* get_mut() that is under way (see OptimizedArc).
AllocCountIsExact == arc = "optimized" => O!AllocCountIsExact

\* The limits of the clone()s keep the counters of the basic Arc and of the one
\* with Weak from wrapping around, although upgrade() of the latter asserts only
\* that its counter is below usize::MAX (see BasicArc and WeakArc).
CountWithinLimit ==
  /\ arc = "basic" => B!CountWithinLimit
  /\ arc = "weak" => W!CountsWithinLimit
=============================================================================
