------------------------------- MODULE WeakArc -------------------------------
(***************************************************************************)
(* examples/06-02_weak-pointer.rs: every Arc contains a Weak, and          *)
(* alloc_ref_count counts both.                                            *)
(*                                                                         *)
(* Further labels: "clone_data" in Arc::clone() after the clone of its     *)
(* Weak, "upgrade_clone" in upgrade() before it.                           *)
(***************************************************************************)
EXTENDS RefCount

\* Arc::new(), and clones for the threads in owners and in weakOwners: no more
\* than clone() makes without abort().
InitWith(owners, weakOwners) ==
  /\ Cardinality(owners) + Cardinality(weakOwners) <= MaxUsize \div 2 + 1
  /\ RefCountInit(owners, weakOwners, Cardinality(owners) + Cardinality(weakOwners))

Init ==
  \E owners \in (SUBSET Threads) \ {{}}, weakOwners \in SUBSET Threads :
    InitWith(owners, weakOwners)

\* Arc::clone(): first the clone of the Weak, then data_ref_count.
Clone(t) ==
  /\ Call(t)
  /\ arcs[t] > 0
  /\ UNCHANGED <<n, handleVars, endVars>>
  /\ FetchAdd(t, "alloc_ref_count", "clone_data")

CloneData(t) ==
  /\ pc[t] = "clone_data"
  /\ Gain(arcs, t, IF OverLimit("data_ref_count") THEN 0 ELSE 1)
  /\ UNCHANGED <<n, weaks, endVars, budget>>
  /\ FetchAdd(t, "data_ref_count", "idle")

\* Arc::downgrade() is the clone of its Weak.
Downgrade(t) ==
  /\ Call(t)
  /\ arcs[t] > 0
  /\ Gain(weaks, t, IF OverLimit("alloc_ref_count") THEN 0 ELSE 1)
  /\ UNCHANGED <<n, arcs, endVars>>
  /\ FetchAdd(t, "alloc_ref_count", "idle")

\* Arc { weak: self.clone() }
UpgradeClone(t) ==
  /\ pc[t] = "upgrade_clone"
  /\ Gain(arcs, t, IF OverLimit("alloc_ref_count") THEN 0 ELSE 1)
  /\ UNCHANGED <<n, weaks, endVars, budget>>
  /\ FetchAdd(t, "alloc_ref_count", "idle")

\* get_mut(): if alloc_ref_count.load(Relaxed) == 1
GetMut(t) ==
  /\ Call(t)
  /\ arcs[t] > 0
  /\ UNCHANGED <<n, handleVars, endVars>>
  /\ \E i \in Loadable(mem, t, "alloc_ref_count", Relaxed) :
       Continue(t, Load(mem, t, "alloc_ref_count", i, Relaxed),
                IF mem.mo["alloc_ref_count"][i].val = 1 THEN "mut" ELSE "idle")

Straight(t) ==
  \/ Clone(t) \/ CloneData(t) \/ CloneWeak(t) \/ Abort(t) \/ Downgrade(t)
  \/ Upgrade(t) \/ UpgradeFails(t) \/ UpgradeExchange(t, 0, "upgrade_clone") \/ UpgradeClone(t)
  \/ GetMut(t) \/ Mutate(t)
  \/ DropArc(t, "drop_weak") \/ DropValue(t, "drop_weak") \/ DropInnerWeak(t)
  \/ DropWeak(t) \/ Free(t)

Step(t) == Straight(t) \/ \E i \in Loadable(mem, t, "data_ref_count", Relaxed) : UpgradeRetry(t, i)

\* What t does if an exchange that fails finds the newest value.
Progress(t) ==
  /\ ~aborted
  /\ Straight(t) \/ UpgradeRetry(t, Len(mem.mo["data_ref_count"]))

Next ==
  \/ ~aborted /\ \E t \in Threads : Step(t)
  \/ Finished /\ UNCHANGED rcVars

Spec == Init /\ [][Next]_rcVars /\ \A t \in Threads : WF_rcVars(Progress(t))

-----------------------------------------------------------------------------
\* alloc_ref_count stays within the limit of Weak::clone() and one for each
\* thread that is about to abort.  upgrade() counts its Arc before it clones
\* the Weak in it, and asserts only that data_ref_count is below usize::MAX; the
\* Weak that the thread upgrades makes up for the difference, so that
\* data_ref_count is never above alloc_ref_count and neither wraps around.
CountsWithinLimit ==
  /\ Current("data_ref_count") <= Current("alloc_ref_count")
  /\ Current("alloc_ref_count") <=
       MaxUsize \div 2 + 1 + Cardinality({t \in Threads : pc[t] = "abort"})
=============================================================================
