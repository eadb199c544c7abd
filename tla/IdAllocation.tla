---------------------------- MODULE IdAllocation ----------------------------
(***************************************************************************)
(* The functions of examples/02-02-03_issuing-ids.rs and 02-03-01_issuing- *)
(* ids-without-overflow.rs that allocate ids from one counter, NEXT_ID:    *)
(* how says which one the threads call.  An id may be called for again     *)
(* after a panic: a thread here stands for all that follow each other in   *)
(* its place.                                                              *)
(*                                                                         *)
(* Labels of pc: "call", "undo" before fetch_sub, "exchange" at the head   *)
(* of the loop of 02-03-01.                                                *)
(***************************************************************************)
EXTENDS Naturals, FiniteSets

CONSTANTS Threads,
          Calls,      \* the number of calls of each thread
          Limit,      \* ids are below it: 10 in 02-02-03, 1000 in 02-03-01
          Modulus     \* 2^32: NEXT_ID is a u32

\* Fewer threads than values above the limit.
ASSUME IdAssumption ==
  /\ IsFiniteSet(Threads)
  /\ Calls \in Nat \ {0}
  /\ Limit \in Nat \ {0} /\ Modulus \in Nat
  /\ Limit + Cardinality(Threads) < Modulus

VARIABLES how,      \* the function in use
          next,     \* NEXT_ID
          pc,       \* where each thread is
          id,       \* the variable id of the loop: what each thread has read last
          left,     \* calls that each thread has still to make
          issued    \* how often each id was returned

idVars == <<how, next, pc, id, left, issued>>

Ids == 0..Modulus - 1

Allocators == {"wrap_around", "problem", "decrement", "exchange"}

IdInit ==
  /\ how \in Allocators
  /\ next = 0
  /\ pc = [t \in Threads |-> "call"]
  /\ id = [t \in Threads |-> 0]
  /\ left = [t \in Threads |-> Calls]
  /\ issued = [i \in Ids |-> 0]

Issue(i) == issued' = [issued EXCEPT ![i] = @ + 1]

\* t has returned or panicked.
EndCall(t) ==
  /\ left' = [left EXCEPT ![t] = @ - 1]
  /\ pc' = [pc EXCEPT ![t] = IF left[t] = 1 THEN "done" ELSE "call"]

\* NEXT_ID.fetch_add(1, Relaxed), which wraps around ...
FetchAdd(t) ==
  /\ pc[t] = "call"
  /\ next' = (next + 1) % Modulus
  /\ UNCHANGED <<how, id>>

\* ... in allocate_new_id_with_wrap_around() ...
WrapAround(t) ==
  /\ how = "wrap_around"
  /\ FetchAdd(t)
  /\ Issue(next)
  /\ EndCall(t)

\* ... and in allocate_new_id_with_problem(), which panics after it.
WithProblem(t) ==
  /\ how = "problem"
  /\ FetchAdd(t)
  /\ IF next < Limit THEN Issue(next) ELSE UNCHANGED issued
  /\ EndCall(t)

\* allocate_new_id_with_decrement(): a thread that gets too much gives it back.
WithDecrement(t) ==
  /\ how = "decrement"
  /\ FetchAdd(t)
  /\ IF next < Limit
     THEN Issue(next) /\ EndCall(t)
     ELSE pc' = [pc EXCEPT ![t] = "undo"] /\ UNCHANGED <<issued, left>>

\* NEXT_ID.fetch_sub(1, Relaxed), and panic.
Undo(t) ==
  /\ pc[t] = "undo"
  /\ next' = (next + Modulus - 1) % Modulus
  /\ EndCall(t)
  /\ UNCHANGED <<how, id, issued>>

\* What t may read of NEXT_ID in 02-03-01, where it only counts up: an old value
\* is a smaller one, and none smaller than what t has read before.
Loadable(t) == id[t]..next

\* allocate_new_id() of 02-03-01: let mut id = NEXT_ID.load(Relaxed).
Load(t) ==
  /\ how = "exchange"
  /\ pc[t] = "call"
  /\ \E v \in Loadable(t) : id' = [id EXCEPT ![t] = v]
  /\ pc' = [pc EXCEPT ![t] = "exchange"]
  /\ UNCHANGED <<how, next, left, issued>>

\* assert!(id < 1000) fails.
TooManyIds(t) ==
  /\ pc[t] = "exchange"
  /\ id[t] >= Limit
  /\ EndCall(t)
  /\ UNCHANGED <<how, next, id, issued>>

\* Fault: the id is loaded and the next one is stored.
ExchangeStores(t) ==
  /\ pc[t] = "exchange"
  /\ id[t] < Limit
  /\ next' = id[t] + 1
  /\ Issue(id[t])
  /\ EndCall(t)
  /\ UNCHANGED <<how, id>>

\* compare_exchange_weak(id, id + 1, Relaxed, Relaxed) succeeds: return id.
Exchange(t) ==
  /\ pc[t] = "exchange"
  /\ id[t] < Limit
  /\ id[t] = next
  /\ next' = id[t] + 1
  /\ Issue(id[t])
  /\ EndCall(t)
  /\ UNCHANGED <<how, id>>

\* Fault: the loop goes on with the same id.
RetrySame(t, v) ==
  /\ pc[t] = "exchange"
  /\ id[t] < Limit
  /\ UNCHANGED idVars

\* It fails, perhaps spuriously: Err(v) => id = v.
Retry(t, v) ==
  /\ pc[t] = "exchange"
  /\ id[t] < Limit
  /\ id' = [id EXCEPT ![t] = v]
  /\ UNCHANGED <<how, next, pc, left, issued>>

Straight(t) ==
  \/ WrapAround(t) \/ WithProblem(t) \/ WithDecrement(t) \/ Undo(t)
  \/ Load(t) \/ TooManyIds(t) \/ Exchange(t)

IdStep(t) == Straight(t) \/ \E v \in Loadable(t) : Retry(t, v)

IdsDone == \A t \in Threads : pc[t] = "done"

IdNext == \E t \in Threads : IdStep(t)

\* An exchange does not fail forever, and finds the newest value in the end.
IdProgress(t) == Straight(t) \/ Retry(t, next)

IdSpec == IdInit /\ [][IdNext]_idVars /\ \A t \in Threads : WF_idVars(IdProgress(t))

-----------------------------------------------------------------------------
Exhausted == \A i \in 0..Limit - 1 : issued[i] >= 1

\* Ids are what the callers of the four functions take them for.  Those of the
\* exchange and of the decrement are below the limit and never issued twice,
\* although every fetch_add may go beyond the limit before it is undone, and
\* they panic only when all ids have been issued.  Those of fetch_add alone come
\* again after a wrap-around, but none before all others have been issued as
\* often.
IdsAreExact ==
  /\ how # "wrap_around" => \A i \in Ids : i >= Limit => issued[i] = 0
  /\ how \in {"decrement", "exchange"} =>
       /\ \A i \in Ids : issued[i] <= 1
       /\ \A t \in Threads : pc[t] = "undo" \/ (pc[t] = "exchange" /\ id[t] >= Limit) => Exhausted
  /\ how = "wrap_around" => \A i, j \in Ids : issued[i] <= issued[j] + 1
  /\ how = "problem" => \A i, j \in 0..Limit - 1 : issued[i] <= issued[j] + 1
=============================================================================
