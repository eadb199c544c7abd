------------------------------ MODULE RefCount ------------------------------
(***************************************************************************)
(* What the reference-counted pointers of chapter 6 share: the statements  *)
(* that more than one of them has, and the client.                         *)
(*                                                                         *)
(* The client: some threads start with an Arc, some with a Weak (if there  *)
(* is such a type), cloned for them before.  They clone, downgrade,        *)
(* upgrade and ask for get_mut() at most Budget times in all, read the     *)
(* value, and drop their handles.  A thread uses its own handles only.     *)
(*                                                                         *)
(* Labels of pc:                                                           *)
(*   "idle"        between two calls                                       *)
(*   "abort"       before process::abort()                                 *)
(*   "mut"         before the fence of get_mut(), which returns Some       *)
(*   "drop_value"  before the fence and the drop of the value              *)
(*   "drop_weak"   before the drop of the Weak that stands for an Arc      *)
(*   "free"        before the fence and the release of the memory          *)
(*   "upgrade"     at the head of the loop of upgrade()                    *)
(***************************************************************************)
EXTENDS AtomicMemory

CONSTANTS MaxUsize,   \* usize::MAX
          Budget      \* bound on the calls other than reads and drops

\* There are fewer threads than numbers between the limit of clone() and
\* usize::MAX.
ASSUME RefCountAssumption ==
  /\ IsFiniteSet(Threads)
  /\ MaxUsize \in Nat /\ Budget \in Nat
  /\ MaxUsize \div 2 + 1 + Cardinality(Threads) < MaxUsize

VARIABLES mem,       \* ArcData: the counters, and who knows what of them
          pc,        \* where each thread is
          n,         \* its local variable: n in a loop, is_unique in get_mut
          arcs,      \* the number of its Arcs
          weaks,     \* the number of its Weaks
          dropped,   \* how often the value was dropped
          freed,     \* how often the memory of ArcData was freed
          aborted,   \* process::abort() was called
          budget

handleVars == <<arcs, weaks>>
endVars == <<dropped, freed, aborted>>
rcVars == <<mem, pc, n, handleVars, endVars, budget>>

\* The state of the program when the threads start: those in owners have an
\* Arc, those in weakOwners a Weak; alloc is the value of alloc_ref_count.
RefCountInit(owners, weakOwners, alloc) ==
  /\ mem = FirstMemory([data_ref_count |-> Cardinality(owners), alloc_ref_count |-> alloc],
                        {"read", "write"} \X Threads)
  /\ pc = [t \in Threads |-> "idle"]
  /\ n = [t \in Threads |-> 0]
  /\ arcs = [t \in Threads |-> IF t \in owners THEN 1 ELSE 0]
  /\ weaks = [t \in Threads |-> IF t \in weakOwners THEN 1 ELSE 0]
  /\ dropped = 0
  /\ freed = 0
  /\ aborted = FALSE
  /\ budget \in 0..Budget

Live == {t \in Threads : pc[t] # "idle" \/ arcs[t] + weaks[t] > 0}

\* t goes on at label next with memory m.  (Stated last in an action.)
Continue(t, m, next) ==
  /\ pc' = [pc EXCEPT ![t] = next]
  /\ \E m2 \in {IF next = "idle" THEN Settle(m, t) ELSE m} :
       \E first \in {FirstLoadable(m2, Live')} : mem' = Forget(m2, first, Live')

Current(x) == Newest(mem, x).val

Gain(handles, t, k) == handles' = [handles EXCEPT ![t] = @ + k]
Lose(handles, t) == handles' = [handles EXCEPT ![t] = @ - 1]

\* A call that takes from the budget.
Call(t) ==
  /\ pc[t] = "idle"
  /\ budget > 0
  /\ budget' = budget - 1

-----------------------------------------------------------------------------
(* The counters. *)

\* Fault: the limit is checked one too late.
OverLimitLate(x) == Current(x) > MaxUsize \div 2 + 1

\* if x.fetch_add(1, Relaxed) > usize::MAX / 2
OverLimit(x) == Current(x) > MaxUsize \div 2

\* fetch_add(1, Relaxed) on x; beyond its limit, t goes to abort().
FetchAdd(t, x, next) ==
  Continue(t, Rmw(mem, t, x, (Current(x) + 1) % (MaxUsize + 1), Relaxed),
           IF OverLimit(x) THEN "abort" ELSE next)

\* std::process::abort()
Abort(t) ==
  /\ pc[t] = "abort"
  /\ aborted' = TRUE
  /\ UNCHANGED <<mem, pc, n, handleVars, dropped, freed, budget>>

\* deref(): t reads the value.
Deref(t) == Access(mem, t, <<"read", t>>)

\* Fault: fetch_sub(1, Relaxed).
DropArcRelaxed(t, next) ==
  /\ pc[t] = "idle"
  /\ arcs[t] > 0
  /\ Lose(arcs, t)
  /\ UNCHANGED <<n, weaks, endVars, budget>>
  /\ \E m \in {Deref(t)} :
       Continue(t, Rmw(m, t, "data_ref_count", Current("data_ref_count") - 1, Relaxed),
                IF Current("data_ref_count") = 1 THEN "drop_value" ELSE next)

\* Arc::drop(): data_ref_count.fetch_sub(1, Release).  The last Arc drops the
\* value, any other goes on at next.  An Arc may be read at any time; the read
\* modelled is the latest one, right before the drop, since whatever is ordered
\* after it is ordered after the others.
DropArc(t, next) ==
  /\ pc[t] = "idle"
  /\ arcs[t] > 0
  /\ Lose(arcs, t)
  /\ UNCHANGED <<n, weaks, endVars, budget>>
  /\ \E m \in {Deref(t)} :
       Continue(t, Rmw(m, t, "data_ref_count", Current("data_ref_count") - 1, Release),
                IF Current("data_ref_count") = 1 THEN "drop_value" ELSE next)

\* fence(Acquire), and then a write to the value.
FencedWrite(t, next) ==
  \E m \in {Fence(mem, t)} : Continue(t, Access(m, t, <<"write", t>>), next)

\* Fault: what follows the drop of the value is left out.
DropValueOnly(t, next) ==
  /\ pc[t] = "drop_value"
  /\ dropped' = dropped + 1
  /\ UNCHANGED <<n, handleVars, freed, aborted, budget>>
  /\ FencedWrite(t, "idle")

\* The value is dropped.
DropValue(t, next) ==
  /\ pc[t] = "drop_value"
  /\ dropped' = dropped + 1
  /\ UNCHANGED <<n, handleVars, freed, aborted, budget>>
  /\ FencedWrite(t, next)

\* alloc_ref_count.fetch_sub(1, Release) in Weak::drop(); the last one frees
\* the memory.
FetchSubAlloc(t) ==
  Continue(t, Rmw(mem, t, "alloc_ref_count", Current("alloc_ref_count") - 1, Release),
           IF Current("alloc_ref_count") = 1 THEN "free" ELSE "idle")

\* Weak::drop() of a Weak of t ...
DropWeak(t) ==
  /\ pc[t] = "idle"
  /\ weaks[t] > 0
  /\ Lose(weaks, t)
  /\ UNCHANGED <<n, arcs, endVars, budget>>
  /\ FetchSubAlloc(t)

\* ... and of the one that stands for an Arc.
DropInnerWeak(t) ==
  /\ pc[t] = "drop_weak"
  /\ UNCHANGED <<n, handleVars, endVars, budget>>
  /\ FetchSubAlloc(t)

\* fence(Acquire); drop(Box::from_raw(...))
Free(t) ==
  /\ pc[t] = "free"
  /\ freed' = freed + 1
  /\ UNCHANGED <<n, handleVars, dropped, aborted, budget>>
  /\ FencedWrite(t, "idle")

\* After the fence(Acquire) of get_mut(), the caller writes through &mut T.
Mutate(t) ==
  /\ pc[t] = "mut"
  /\ UNCHANGED <<n, handleVars, endVars, budget>>
  /\ FencedWrite(t, "idle")

\* Weak::clone()
CloneWeak(t) ==
  /\ Call(t)
  /\ weaks[t] > 0
  /\ Gain(weaks, t, IF OverLimit("alloc_ref_count") THEN 0 ELSE 1)
  /\ UNCHANGED <<n, arcs, endVars>>
  /\ FetchAdd(t, "alloc_ref_count", "idle")

-----------------------------------------------------------------------------
(* upgrade(). *)

\* n = x.load(Relaxed), or what a failed exchange returns: the value of the
\* i-th message.
LoadN(t, x, i, next) ==
  /\ n' = [n EXCEPT ![t] = mem.mo[x][i].val]
  /\ Continue(t, Load(mem, t, x, i, Relaxed), next)

Upgrade(t) ==
  /\ Call(t)
  /\ weaks[t] > 0
  /\ UNCHANGED <<handleVars, endVars>>
  /\ \E i \in Loadable(mem, t, "data_ref_count", Relaxed) : LoadN(t, "data_ref_count", i, "upgrade")

\* It returns None, or its assertion fails.
UpgradeFails(t) ==
  /\ pc[t] = "upgrade"
  /\ n[t] \in {0, MaxUsize}
  /\ n' = [n EXCEPT ![t] = 0]
  /\ UNCHANGED <<handleVars, endVars, budget>>
  /\ Continue(t, mem, "idle")

\* Fault: fetch_add instead of the exchange.
UpgradeIncrement(t, gain, next) ==
  /\ pc[t] = "upgrade"
  /\ n[t] \notin {0, MaxUsize}
  /\ Gain(arcs, t, gain)
  /\ n' = [n EXCEPT ![t] = 0]
  /\ UNCHANGED <<weaks, endVars, budget>>
  /\ Continue(t, Rmw(mem, t, "data_ref_count", Current("data_ref_count") + 1, Relaxed), next)

\* compare_exchange_weak(n, n + 1, Relaxed, Relaxed) succeeds.
UpgradeExchange(t, gain, next) ==
  /\ pc[t] = "upgrade"
  /\ n[t] \notin {0, MaxUsize}
  /\ Current("data_ref_count") = n[t]
  /\ Gain(arcs, t, gain)
  /\ n' = [n EXCEPT ![t] = 0]
  /\ UNCHANGED <<weaks, endVars, budget>>
  /\ Continue(t, Rmw(mem, t, "data_ref_count", n[t] + 1, Relaxed), next)

\* It fails, perhaps spuriously, and returns the value it has found.
UpgradeRetry(t, i) ==
  /\ pc[t] = "upgrade"
  /\ n[t] \notin {0, MaxUsize}
  /\ UNCHANGED <<handleVars, endVars, budget>>
  /\ LoadN(t, "data_ref_count", i, "upgrade")

Finished == aborted \/ Live = {}

-----------------------------------------------------------------------------
\* A write through get_mut(), the drop of the value and the release of the
\* memory happen after every access of the other threads, by Release in each
\* drop() and the Acquire fence in the last one and in get_mut().  (That nobody
\* accesses the value afterwards is for the next two.)
NoDataRace ==
  \A t \in Threads :
    pc[t] \in {"mut", "drop_value", "free"} =>
      {"read", "write"} \X (Threads \ {t}) \subseteq Fence(mem, t).view[t].hb

\* get_mut() returns a reference only if its Arc is the only handle there is,
\* and nobody is on the way to another one.
GetMutIsExclusive ==
  \A t \in Threads :
    pc[t] = "mut" => Live = {t} /\ arcs[t] = 1 /\ weaks[t] = 0

\* The value is there as long as an Arc is, whatever upgrade() does at the
\* moment of the last drop; the memory is there as long as a handle is or an
\* operation is under way.  Both go once, the value first.
AliveWhileOwned ==
  /\ dropped <= 1 /\ freed <= dropped
  /\ Live # {} => freed = 0
  /\ (\E t \in Threads : arcs[t] > 0) => dropped = 0

\* When all handles are dropped, the value and its memory are gone: no thread
\* spins forever, and nothing leaks.
Termination == <>(aborted \/ (Live = {} /\ dropped = 1 /\ freed = 1))
=============================================================================
