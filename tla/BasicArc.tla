------------------------------ MODULE BasicArc ------------------------------
(***************************************************************************)
(* examples/06-01_basic-reference-counter.rs, and 06-01-02_updating.rs,    *)
(* which adds get_mut(): one counter, ref_count (here data_ref_count).     *)
(***************************************************************************)
EXTENDS RefCount

\* Arc::new(), and clones of the Arc for the threads in owners.
BasicInitWith(owners) == RefCountInit(owners, {}, 0)

BasicInit == \E owners \in (SUBSET Threads) \ {{}} : BasicInitWith(owners)

\* Arc::clone()
BasicClone(t) ==
  /\ Call(t)
  /\ arcs[t] > 0
  /\ Gain(arcs, t, IF OverLimit("data_ref_count") THEN 0 ELSE 1)
  /\ UNCHANGED <<n, weaks, endVars>>
  /\ FetchAdd(t, "data_ref_count", "idle")

\* get_mut(): if ref_count.load(Relaxed) == 1
BasicGetMut(t) ==
  /\ Call(t)
  /\ arcs[t] > 0
  /\ UNCHANGED <<n, handleVars, endVars>>
  /\ \E i \in Loadable(mem, t, "data_ref_count", Relaxed) :
       Continue(t, Load(mem, t, "data_ref_count", i, Relaxed),
                IF mem.mo["data_ref_count"][i].val = 1 THEN "mut" ELSE "idle")

\* drop(Box::from_raw(...)) drops the value and frees the memory.
BasicStep(t) ==
  \/ BasicClone(t) \/ Abort(t) \/ BasicGetMut(t) \/ Mutate(t)
  \/ DropArc(t, "idle") \/ DropValue(t, "free") \/ Free(t)

BasicProgress(t) == ~aborted /\ BasicStep(t)

BasicNext ==
  \/ \E t \in Threads : BasicProgress(t)
  \/ Finished /\ UNCHANGED rcVars

BasicSpec == BasicInit /\ [][BasicNext]_rcVars /\ \A t \in Threads : WF_rcVars(BasicProgress(t))

-----------------------------------------------------------------------------
\* The counter exceeds the limit of clone() by one, and by one more for each
\* thread that is about to abort: clone() checks after its fetch_add, and the
\* counter still does not come near its wrap-around.
CountWithinLimit ==
  Current("data_ref_count") <=
    MaxUsize \div 2 + 1 + Cardinality({t \in Threads : pc[t] = "abort"})
=============================================================================
