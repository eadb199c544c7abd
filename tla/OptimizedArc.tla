---------------------------- MODULE OptimizedArc ----------------------------
(***************************************************************************)
(* examples/06-03_optimization.rs: an Arc touches data_ref_count only.     *)
(* alloc_ref_count counts the Weaks, and one more as long as there is an   *)
(* Arc.  The value usize::MAX of alloc_ref_count is a lock, by which       *)
(* get_mut() keeps downgrade() out.                                        *)
(*                                                                         *)
(* Further labels: "is_unique" in get_mut() before data_ref_count is read, *)
(* "unlock" before alloc_ref_count is restored; "downgrade" at the head of *)
(* the loop of downgrade().                                                *)
(***************************************************************************)
EXTENDS RefCount, FiniteSetsExt

\* Arc::new(), and clones for the threads in owners and in weakOwners.
InitWith(owners, weakOwners) ==
  RefCountInit(owners, weakOwners, Cardinality(weakOwners) + 1)

Init ==
  \E owners \in (SUBSET Threads) \ {{}}, weakOwners \in SUBSET Threads :
    InitWith(owners, weakOwners)

\* Arc::clone()
Clone(t) ==
  /\ Call(t)
  /\ arcs[t] > 0
  /\ Gain(arcs, t, IF OverLimit("data_ref_count") THEN 0 ELSE 1)
  /\ UNCHANGED <<n, weaks, endVars>>
  /\ FetchAdd(t, "data_ref_count", "idle")

\* Fault: get_mut() looks at alloc_ref_count and does not lock it.
GetMutPeek(t) ==
  /\ Call(t)
  /\ arcs[t] > 0
  /\ UNCHANGED <<n, handleVars, endVars>>
  /\ \E i \in Loadable(mem, t, "alloc_ref_count", Relaxed) :
       /\ mem.mo["alloc_ref_count"][i].val = 1
       /\ Continue(t, Load(mem, t, "alloc_ref_count", i, Relaxed), "is_unique")

\* get_mut(): compare_exchange(1, usize::MAX, Acquire, Relaxed) succeeds.
GetMut(t) ==
  /\ Call(t)
  /\ arcs[t] > 0
  /\ Current("alloc_ref_count") = 1
  /\ UNCHANGED <<n, handleVars, endVars>>
  /\ Continue(t, Rmw(mem, t, "alloc_ref_count", MaxUsize, Acquire), "is_unique")

\* It has found another value: None.
GetMutNone(t) ==
  /\ Call(t)
  /\ arcs[t] > 0
  /\ UNCHANGED <<n, handleVars, endVars>>
  /\ \E i \in Loadable(mem, t, "alloc_ref_count", Relaxed) :
       /\ mem.mo["alloc_ref_count"][i].val # 1
       /\ Continue(t, Load(mem, t, "alloc_ref_count", i, Relaxed), "idle")

\* let is_unique = data_ref_count.load(Relaxed) == 1
IsUnique(t) ==
  /\ pc[t] = "is_unique"
  /\ UNCHANGED <<handleVars, endVars, budget>>
  /\ \E i \in Loadable(mem, t, "data_ref_count", Relaxed) : LoadN(t, "data_ref_count", i, "unlock")

\* Fault: get_mut() returns None before it restores alloc_ref_count.
UnlockIfUnique(t) ==
  /\ pc[t] = "unlock"
  /\ n' = [n EXCEPT ![t] = 0]
  /\ UNCHANGED <<handleVars, endVars, budget>>
  /\ IF n[t] = 1
     THEN Continue(t, Store(mem, t, "alloc_ref_count", 1, Release), "mut")
     ELSE Continue(t, mem, "idle")

\* alloc_ref_count.store(1, Release); if !is_unique, None.
Unlock(t) ==
  /\ pc[t] = "unlock"
  /\ n' = [n EXCEPT ![t] = 0]
  /\ UNCHANGED <<handleVars, endVars, budget>>
  /\ Continue(t, Store(mem, t, "alloc_ref_count", 1, Release),
              IF n[t] = 1 THEN "mut" ELSE "idle")

\* downgrade()
Downgrade(t) ==
  /\ Call(t)
  /\ arcs[t] > 0
  /\ UNCHANGED <<handleVars, endVars>>
  /\ \E i \in Loadable(mem, t, "alloc_ref_count", Relaxed) : LoadN(t, "alloc_ref_count", i, "downgrade")

\* compare_exchange_weak(n, n + 1, Acquire, Relaxed) succeeds.
DowngradeExchange(t) ==
  /\ pc[t] = "downgrade"
  /\ n[t] < MaxUsize - 1
  /\ Current("alloc_ref_count") = n[t]
  /\ Gain(weaks, t, 1)
  /\ n' = [n EXCEPT ![t] = 0]
  /\ UNCHANGED <<arcs, endVars, budget>>
  /\ Continue(t, Rmw(mem, t, "alloc_ref_count", n[t] + 1, Acquire), "idle")

\* It fails, perhaps spuriously, or the counter was locked: once more with the
\* i-th value.  Or the assertion n < usize::MAX - 1 fails.
DowngradeRetry(t, i) ==
  /\ pc[t] = "downgrade"
  /\ UNCHANGED <<handleVars, endVars, budget>>
  /\ IF n[t] = MaxUsize - 1
     THEN n' = [n EXCEPT ![t] = 0] /\ Continue(t, mem, "idle")
     ELSE LoadN(t, "alloc_ref_count", i, "downgrade")

Straight(t) ==
  \/ Clone(t) \/ CloneWeak(t) \/ Abort(t)
  \/ Downgrade(t) \/ DowngradeExchange(t)
  \/ Upgrade(t) \/ UpgradeFails(t) \/ UpgradeExchange(t, 1, "idle")
  \/ GetMut(t) \/ GetMutNone(t) \/ IsUnique(t) \/ Unlock(t) \/ Mutate(t)
  \/ DropArc(t, "idle") \/ DropValue(t, "drop_weak") \/ DropInnerWeak(t)
  \/ DropWeak(t) \/ Free(t)

Step(t) ==
  \/ Straight(t)
  \/ \E i \in Loadable(mem, t, "data_ref_count", Relaxed) : UpgradeRetry(t, i)
  \/ \E i \in Loadable(mem, t, "alloc_ref_count", Relaxed) : DowngradeRetry(t, i)

\* What t does if a load that is repeated finds the newest value.
Progress(t) ==
  /\ ~aborted
  /\ \/ Straight(t)
     \/ UpgradeRetry(t, Len(mem.mo["data_ref_count"]))
     \/ DowngradeRetry(t, Len(mem.mo["alloc_ref_count"]))

Next ==
  \/ ~aborted /\ \E t \in Threads : Step(t)
  \/ Finished /\ UNCHANGED rcVars

Spec == Init /\ [][Next]_rcVars /\ \A t \in Threads : WF_rcVars(Progress(t))

-----------------------------------------------------------------------------
\* alloc_ref_count counts what it should, or it is usize::MAX, and then a
\* get_mut() is between its exchange and its store: the lock is never left
\* behind, and the store overwrites nothing that another thread has counted.
AllocCountIsExact ==
  LET weakCount == FoldSet(LAMBDA t, k : weaks[t] + k, 0, Threads)
      implicit == IF \E t \in Threads : arcs[t] > 0 \/ pc[t] \in {"drop_value", "drop_weak"}
                  THEN 1 ELSE 0
      locked == \E t \in Threads : pc[t] \in {"is_unique", "unlock"}
  IN  aborted \/ (\E t \in Threads : pc[t] = "abort")
        \/ Current("alloc_ref_count") = IF locked THEN MaxUsize ELSE weakCount + implicit
=============================================================================
