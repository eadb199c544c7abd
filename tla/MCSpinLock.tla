----------------------------- MODULE MCSpinLock -----------------------------
(***************************************************************************)
(* The program of 04-03 with two more workers: a pushes one item, b pushes *)
(* two under one guard; c and d do the same.  The lock is either that of   *)
(* 04-02 and 04-03 or that of 04-01.                                       *)
(***************************************************************************)
EXTENDS SpinLock

CONSTANTS a, b, c, d

VARIABLE lock   \* the lock in use

MCWorkers == {a, b, c, d}

MCPushes == [w \in MCWorkers |-> IF w \in {a, c} THEN 1 ELSE 2]

MCInit == Init /\ lock \in {"swap", "exchange"}

MCNext ==
  /\ \/ lock = "swap" /\ SwapNext
     \/ lock = "exchange" /\ ExchangeNext
  /\ UNCHANGED lock

\* The fairness of SwapSpec and of ExchangeSpec.
MCFairness ==
  \A t \in Threads :
    /\ WF_vars(lock = "swap" /\ (Swap(t) \/ GuardStep(t)))
    /\ WF_vars(lock = "exchange" /\ (Exchange(t) \/ GuardStep(t)))

MCSpec == MCInit /\ [][MCNext]_<<vars, lock>> /\ MCFairness
=============================================================================
