------------------------- MODULE IdAllocationProofs -------------------------
(***************************************************************************)
(* IdsAreExact holds for any number of threads and calls, any limit and    *)
(* any width of the counter that leaves room above the limit for one       *)
(* fetch_add of every thread.                                              *)
(***************************************************************************)
EXTENDS IdAllocation, FiniteSetTheorems, TLAPS

Types ==
  /\ how \in Allocators
  /\ next \in Ids
  /\ pc \in [Threads -> {"call", "undo", "exchange", "done"}]
  /\ id \in [Threads -> Nat]
  /\ issued \in [Ids -> Nat]

\* The ids below n, and no others, have been issued once.
IssuedBelow(n) == \A i \in Ids : issued[i] = IF i < n THEN 1 ELSE 0

\* 02-03-01: NEXT_ID is the number of ids issued, and never exceeds the limit.
ExchangeInv ==
  how = "exchange" =>
    /\ \A t \in Threads : pc[t] # "undo"
    /\ \A t \in Threads : id[t] <= next
    /\ next <= Limit
    /\ IssuedBelow(next)

\* The threads that have added too much and not yet given it back.
Pending == {t \in Threads : pc[t] = "undo"}

\* What NEXT_ID will be when they have.
Settled == IF Pending = {} THEN next ELSE Limit

\* allocate_new_id_with_decrement(): NEXT_ID exceeds the number of ids issued by
\* one for every pending thread.
DecrementInv ==
  how = "decrement" =>
    /\ \A t \in Threads : pc[t] # "exchange"
    /\ next = Settled + Cardinality(Pending)
    /\ Settled <= Limit
    /\ IssuedBelow(Settled)

\* The ids that fetch_add alone may issue.
Bound == IF how = "wrap_around" THEN Modulus ELSE Limit

\* After c complete rounds of the counter.
InRound(c) ==
  \A i \in Ids : issued[i] = IF i >= Bound THEN 0 ELSE IF i < next THEN c + 1 ELSE c

WrapInv ==
  how \in {"wrap_around", "problem"} =>
    /\ \A t \in Threads : pc[t] = "call" \/ pc[t] = "done"
    /\ \E c \in Nat : InRound(c)

IInv == Types /\ ExchangeInv /\ DecrementInv /\ WrapInv

USE IdAssumption DEF Ids, Allocators

\* Modulo is the identity on what fits, and wraps around just above.
LEMMA Wraps ==
  ASSUME NEW a \in Nat
  PROVE  /\ a < Modulus => a % Modulus = a
         /\ a >= Modulus /\ a < 2 * Modulus => a % Modulus = a - Modulus
<1>1. Cardinality(Threads) \in Nat
  BY FS_CardinalityType
<1>2. Modulus \in Nat /\ Modulus > 0
  BY <1>1
<1>3. QED
  BY <1>2

\* NEXT_ID is 0, and nothing has been issued.
LEMMA InitInv == IdInit => IInv
<1> SUFFICES ASSUME IdInit
             PROVE  IInv
  OBVIOUS
<1>1. Cardinality(Threads) \in Nat
  BY FS_CardinalityType
<1>2. Types
  BY <1>1 DEF IdInit, Types
<1>3. Pending = {} /\ Cardinality({}) = 0
  BY FS_EmptySet DEF IdInit, Pending
<1>4. ExchangeInv /\ DecrementInv
  BY <1>1, <1>3 DEF IdInit, ExchangeInv, DecrementInv, IssuedBelow, Settled
<1>5. InRound(0)
  BY <1>1 DEF IdInit, InRound, Bound
<1>6. WrapInv
  BY <1>5 DEF IdInit, WrapInv
<1>7. QED
  BY <1>2, <1>4, <1>6 DEF IInv

\* fetch_add without a fetch_sub: the counter goes round.
LEMMA WrapStep ==
  ASSUME IInv, NEW t \in Threads, WrapAround(t) \/ WithProblem(t)
  PROVE  IInv'
<1>1. Modulus \in Nat /\ Modulus > Limit
  BY FS_CardinalityType
<1>2. next \in Nat /\ next < Modulus /\ pc[t] = "call"
  BY <1>1 DEF IInv, Types, WrapAround, WithProblem, FetchAdd
<1>3. next' = IF next + 1 = Modulus THEN 0 ELSE next + 1
  <2>1. (next + 1) % Modulus = IF next + 1 = Modulus THEN 0 ELSE next + 1
    BY <1>1, <1>2, Wraps
  <2>2. QED
    BY <2>1 DEF WrapAround, WithProblem, FetchAdd
<1>4. /\ how \in {"wrap_around", "problem"} /\ how' = how /\ id' = id
      /\ issued' = IF next < Bound THEN [issued EXCEPT ![next] = @ + 1] ELSE issued
      /\ pc' = [pc EXCEPT ![t] = IF left[t] = 1 THEN "done" ELSE "call"]
  BY <1>1, <1>2 DEF WrapAround, WithProblem, FetchAdd, Issue, EndCall, Bound
<1>5. Types'
  <2>1. next' \in Ids
    BY <1>1, <1>2, <1>3
  <2>2. issued' \in [Ids -> Nat]
    <3>1. next \in Ids /\ issued \in [Ids -> Nat]
      BY DEF IInv, Types
    <3>2. issued[next] + 1 \in Nat
      BY <3>1
    <3>3. QED
      BY <1>4, <3>1, <3>2
  <2>3. pc' \in [Threads -> {"call", "undo", "exchange", "done"}]
    BY <1>4 DEF IInv, Types
  <2>4. QED
    BY <1>4, <2>1, <2>2, <2>3 DEF IInv, Types
<1>6. WrapInv'
  <2>1. PICK c \in Nat : InRound(c)
    BY <1>4 DEF IInv, WrapInv
  <2>2. Bound' = Bound /\ Bound \in Nat /\ Bound <= Modulus
    BY <1>1, <1>4 DEF Bound
  <2>3. ASSUME NEW i \in Ids
        PROVE  /\ i \in Int /\ 0 <= i /\ i < Modulus
               /\ issued[i] = IF i >= Bound THEN 0 ELSE IF i < next THEN c + 1 ELSE c
               /\ issued'[i] = IF i = next /\ i < Bound THEN issued[i] + 1 ELSE issued[i]
    <3>1. i \in Int /\ 0 <= i /\ i < Modulus
      BY <1>1
    <3>2. issued[i] = IF i >= Bound THEN 0 ELSE IF i < next THEN c + 1 ELSE c
      BY <2>1 DEF InRound
    <3>3. issued'[i] = IF i = next /\ i < Bound THEN issued[i] + 1 ELSE issued[i]
      BY <1>4 DEF IInv, Types
    <3>4. QED
      BY <3>1, <3>2, <3>3
  <2>4. \A u \in Threads : pc'[u] = "call" \/ pc'[u] = "done"
    BY <1>4 DEF IInv, Types, WrapInv
  <2>5. CASE next + 1 = Modulus
    <3>1. \A i \in Ids : issued'[i] = IF i >= Bound THEN 0 ELSE c + 1
      BY <1>1, <1>2, <2>2, <2>3, <2>5
    <3>2. InRound(c + 1)'
      <4>1. next' = 0
        BY <1>3, <2>5
      <4>2. QED
        BY <2>2, <2>3, <3>1, <4>1 DEF InRound
    <3>3. QED
      BY <2>4, <3>2 DEF WrapInv
  <2>6. CASE next + 1 # Modulus
    <3>1. \A i \in Ids :
            issued'[i] = IF i >= Bound THEN 0 ELSE IF i < next + 1 THEN c + 1 ELSE c
      BY <1>1, <1>2, <2>2, <2>3, <2>6
    <3>2. InRound(c)'
      BY <1>3, <2>2, <2>6, <3>1 DEF InRound
    <3>3. QED
      BY <2>4, <3>2 DEF WrapInv
  <2>7. QED
    BY <2>5, <2>6
<1>7. QED
  BY <1>4, <1>5, <1>6 DEF IInv, ExchangeInv, DecrementInv

\* fetch_add and, beyond the limit, fetch_sub: the pending threads are
\* outnumbered by the room above the limit, so the counter never wraps.
LEMMA DecrementStep ==
  ASSUME IInv, NEW t \in Threads, WithDecrement(t) \/ Undo(t)
  PROVE  IInv'
<1>1. Modulus \in Nat /\ Cardinality(Threads) \in Nat
  BY FS_CardinalityType
<1>2. IsFiniteSet(Pending) /\ Cardinality(Pending) \in Nat
  BY FS_Subset, FS_CardinalityType DEF Pending
<1>3. /\ how = "decrement"
      /\ next \in Nat
      /\ next = Settled + Cardinality(Pending)
      /\ Settled <= Limit
      /\ IssuedBelow(Settled)
  BY DEF IInv, Types, DecrementInv, ExchangeInv, WrapInv, WithDecrement, Undo
<1>4. ASSUME WithDecrement(t)
      PROVE  IInv'
  <2>1. t \notin Pending /\ pc[t] = "call"
    BY <1>4 DEF WithDecrement, FetchAdd, Pending
  <2>2. /\ IsFiniteSet(Pending \cup {t})
        /\ Cardinality(Pending \cup {t}) = Cardinality(Pending) + 1
    BY <1>2, <2>1, FS_AddElement
  <2>3. Cardinality(Pending \cup {t}) <= Cardinality(Threads)
    BY FS_Subset DEF Pending
  <2>4. next' = next + 1 /\ next + 1 < Modulus
    BY <1>1, <1>2, <1>3, <1>4, <2>2, <2>3, Wraps DEF WithDecrement, FetchAdd, Settled
  <2>5. CASE next < Limit
    <3>1. /\ how' = how /\ id' = id
          /\ issued' = [issued EXCEPT ![next] = @ + 1]
          /\ pc' = [pc EXCEPT ![t] = IF left[t] = 1 THEN "done" ELSE "call"]
      BY <1>4, <2>5 DEF WithDecrement, FetchAdd, Issue, EndCall
    <3>2. Pending = {} /\ Settled = next
      BY <1>2, <1>3, <2>5 DEF Settled
    <3>3. Pending' = {} /\ Settled' = next + 1
      BY <2>1, <2>4, <3>1, <3>2 DEF IInv, Types, Pending, Settled
    <3>4. Types'
      <4>1. next \in Ids /\ next' \in Ids
        BY <1>1, <1>3, <2>4
      <4>2. issued' \in [Ids -> Nat]
        BY <3>1, <4>1 DEF IInv, Types
      <4>3. QED
        BY <3>1, <4>1, <4>2 DEF IInv, Types
    <3>5. IssuedBelow(Settled)'
      <4>1. ASSUME NEW i \in Ids
            PROVE  issued'[i] = IF i < next + 1 THEN 1 ELSE 0
        <5>1. i \in Int /\ issued[i] = IF i < next THEN 1 ELSE 0
          BY <1>1, <1>3, <3>2 DEF IssuedBelow
        <5>2. issued'[i] = IF i = next THEN issued[i] + 1 ELSE issued[i]
          BY <3>1 DEF IInv, Types
        <5>3. QED
          BY <1>3, <5>1, <5>2
      <4>2. QED
        BY <3>3, <4>1 DEF IssuedBelow
    <3>6. DecrementInv'
      BY <1>3, <2>4, <2>5, <3>1, <3>3, <3>5, FS_EmptySet DEF DecrementInv, IInv, Types
    <3>7. QED
      BY <1>3, <3>1, <3>4, <3>6 DEF IInv, ExchangeInv, WrapInv
  <2>6. CASE next >= Limit
    <3>1. /\ how' = how /\ id' = id /\ issued' = issued
          /\ pc' = [pc EXCEPT ![t] = "undo"]
      BY <1>3, <1>4, <2>6 DEF WithDecrement, FetchAdd
    <3>2. Settled = Limit
      BY <1>2, <1>3, <2>6, FS_EmptySet DEF Settled
    <3>3. Pending' = Pending \cup {t} /\ Settled' = Limit
      BY <2>1, <3>1 DEF IInv, Types, Pending, Settled
    <3>4. Types'
      <4>1. next' \in Ids
        BY <1>1, <1>3, <2>4
      <4>2. pc' \in [Threads -> {"call", "undo", "exchange", "done"}]
        BY <3>1 DEF IInv, Types
      <4>3. QED
        BY <3>1, <4>1, <4>2 DEF IInv, Types
    <3>5. DecrementInv'
      <4>1. next' = Settled' + Cardinality(Pending')
        BY <1>2, <1>3, <2>2, <2>4, <3>2, <3>3
      <4>2. IssuedBelow(Settled)' /\ (Settled <= Limit)'
        BY <1>3, <3>1, <3>2, <3>3 DEF IssuedBelow
      <4>3. \A u \in Threads : pc'[u] # "exchange"
        BY <1>3, <3>1 DEF DecrementInv, IInv, Types
      <4>4. QED
        BY <4>1, <4>2, <4>3 DEF DecrementInv
    <3>6. QED
      BY <1>3, <3>1, <3>4, <3>5 DEF IInv, ExchangeInv, WrapInv
  <2>7. QED
    BY <1>3, <2>5, <2>6
<1>5. ASSUME Undo(t)
      PROVE  IInv'
  <2>1. t \in Pending /\ Settled = Limit
    BY <1>5 DEF Undo, Pending, Settled
  <2>2. /\ IsFiniteSet(Pending \ {t})
        /\ Cardinality(Pending \ {t}) = Cardinality(Pending) - 1
    BY <1>2, <2>1, FS_RemoveElement
  <2>3. Cardinality(Pending \ {t}) \in Nat
    BY <2>2, FS_CardinalityType
  <2>4. next' = next - 1 /\ next - 1 \in Nat /\ next < Modulus
    <3>1. next >= 1 /\ next < Modulus
      <4>1. next < Modulus
        BY <1>1 DEF IInv, Types
      <4>2. QED
        BY <1>2, <1>3, <2>1, <2>2, <2>3, <4>1
    <3>2. (next + Modulus - 1) % Modulus = next - 1
      BY <1>1, <1>3, <3>1, Wraps
    <3>3. QED
      BY <1>3, <1>5, <3>1, <3>2 DEF Undo
  <2>5. /\ how' = how /\ id' = id /\ issued' = issued
        /\ pc' = [pc EXCEPT ![t] = IF left[t] = 1 THEN "done" ELSE "call"]
    BY <1>5 DEF Undo, EndCall
  <2>6. Pending' = Pending \ {t}
    BY <2>5 DEF IInv, Types, Pending
  <2>7. Settled' = Limit
    BY <1>2, <1>3, <2>1, <2>2, <2>4, <2>6, FS_EmptySet DEF Settled
  <2>8. Types'
    <3>1. next' \in Ids
      BY <1>1, <1>3, <2>4
    <3>2. pc' \in [Threads -> {"call", "undo", "exchange", "done"}]
      BY <2>5 DEF IInv, Types
    <3>3. QED
      BY <2>5, <3>1, <3>2 DEF IInv, Types
  <2>9. DecrementInv'
    <3>1. next' = Settled' + Cardinality(Pending')
      BY <1>2, <1>3, <2>1, <2>2, <2>4, <2>6, <2>7
    <3>2. IssuedBelow(Settled)' /\ (Settled <= Limit)'
      BY <1>3, <2>1, <2>5, <2>7 DEF IssuedBelow
    <3>3. \A u \in Threads : pc'[u] # "exchange"
      BY <1>3, <2>5 DEF DecrementInv, IInv, Types
    <3>4. QED
      BY <3>1, <3>2, <3>3 DEF DecrementInv
  <2>10. QED
    BY <1>3, <2>5, <2>8, <2>9 DEF IInv, ExchangeInv, WrapInv
<1>6. QED
  BY <1>4, <1>5

\* 02-03-01: a load returns some earlier value; only an exchange that finds the
\* newest one issues an id.
LEMMA ExchangeStep ==
  ASSUME IInv, NEW t \in Threads,
         \/ Load(t) \/ TooManyIds(t) \/ Exchange(t)
         \/ \E v \in Loadable(t) : Retry(t, v)
  PROVE  IInv'
<1>1. Modulus \in Nat /\ Limit < Modulus
  BY FS_CardinalityType
<1>2. /\ how = "exchange"
      /\ next \in Nat /\ next <= Limit
      /\ IssuedBelow(next)
  BY DEF IInv, Types, ExchangeInv, DecrementInv, WrapInv,
         Load, TooManyIds, Exchange, Retry
<1>3. \A u \in Threads : id[u] \in Nat /\ id[u] <= next /\ pc[u] # "undo"
  BY <1>2 DEF IInv, Types, ExchangeInv
<1>4. ASSUME Exchange(t)
      PROVE  IInv'
  <2>1. /\ next < Limit /\ next' = next + 1 /\ how' = how /\ id' = id
        /\ issued' = [issued EXCEPT ![next] = @ + 1]
        /\ pc' = [pc EXCEPT ![t] = IF left[t] = 1 THEN "done" ELSE "call"]
    BY <1>4 DEF Exchange, Issue, EndCall
  <2>2. next \in Ids /\ next' \in Ids
    BY <1>1, <1>2, <2>1
  <2>3. Types'
    <3>1. issued' \in [Ids -> Nat]
      BY <2>1, <2>2 DEF IInv, Types
    <3>2. QED
      BY <2>1, <2>2, <3>1 DEF IInv, Types
  <2>4. IssuedBelow(next)'
    <3>1. ASSUME NEW i \in Ids
          PROVE  issued'[i] = IF i < next + 1 THEN 1 ELSE 0
      <4>1. i \in Int /\ issued[i] = IF i < next THEN 1 ELSE 0
        BY <1>1, <1>2 DEF IssuedBelow
      <4>2. issued'[i] = IF i = next THEN issued[i] + 1 ELSE issued[i]
        BY <2>1 DEF IInv, Types
      <4>3. QED
        BY <1>2, <4>1, <4>2
    <3>2. QED
      BY <2>1, <3>1 DEF IssuedBelow
  <2>5. ExchangeInv'
    BY <1>2, <1>3, <2>1, <2>4 DEF ExchangeInv, IInv, Types
  <2>6. QED
    BY <1>2, <2>1, <2>3, <2>5 DEF IInv, DecrementInv, WrapInv
<1>5. ASSUME Load(t) \/ TooManyIds(t) \/ \E v \in Loadable(t) : Retry(t, v)
      PROVE  IInv'
  <2>1. how' = how /\ next' = next /\ issued' = issued
    BY <1>5 DEF Load, TooManyIds, Retry
  <2>2. \A u \in Threads : id'[u] \in Nat /\ id'[u] <= next
    BY <1>2, <1>3, <1>5 DEF Load, TooManyIds, Retry, Loadable, IInv, Types
  <2>3. id' \in [Threads -> Nat]
    BY <1>2, <1>3, <1>5 DEF Load, TooManyIds, Retry, Loadable, IInv, Types
  <2>4. /\ pc' \in [Threads -> {"call", "undo", "exchange", "done"}]
        /\ \A u \in Threads : pc'[u] # "undo"
    BY <1>3, <1>5 DEF Load, TooManyIds, Retry, EndCall, IInv, Types
  <2>5. Types' /\ ExchangeInv'
    BY <1>2, <2>1, <2>2, <2>3, <2>4 DEF IInv, Types, ExchangeInv, IssuedBelow
  <2>6. QED
    BY <1>2, <2>1, <2>5 DEF IInv, DecrementInv, WrapInv
<1>6. QED
  BY <1>4, <1>5

\* The invariant says at least what callers rely on.
LEMMA Exactness == IInv => IdsAreExact
<1> SUFFICES ASSUME IInv
             PROVE  IdsAreExact
  OBVIOUS
<1>1. Modulus \in Nat /\ Limit < Modulus
  BY FS_CardinalityType
<1>2. CASE how = "exchange"
  <2>1. next \in Nat /\ next <= Limit /\ IssuedBelow(next)
    BY <1>1, <1>2 DEF IInv, Types, ExchangeInv
  <2>2. ASSUME NEW t \in Threads, id[t] >= Limit
        PROVE  Exhausted
    BY <1>1, <1>2, <2>1, <2>2 DEF IInv, Types, ExchangeInv, IssuedBelow, Exhausted
  <2>3. QED
    BY <1>1, <1>2, <2>1, <2>2 DEF IdsAreExact, IssuedBelow, IInv, ExchangeInv
<1>3. CASE how = "decrement"
  <2>1. /\ Settled \in Nat /\ Settled <= Limit /\ IssuedBelow(Settled)
        /\ \A t \in Threads : pc[t] # "exchange"
    BY <1>1, <1>3 DEF IInv, Types, DecrementInv, Settled
  <2>2. ASSUME NEW t \in Threads, pc[t] = "undo"
        PROVE  Exhausted
    <3>1. Settled = Limit
      BY <2>2 DEF Settled, Pending
    <3>2. QED
      BY <1>1, <2>1, <3>1 DEF IssuedBelow, Exhausted
  <2>3. QED
    BY <1>1, <1>3, <2>1, <2>2 DEF IdsAreExact, IssuedBelow
<1>4. CASE how \in {"wrap_around", "problem"}
  <2>1. PICK c \in Nat : InRound(c)
    BY <1>4 DEF IInv, WrapInv
  <2>2. next \in Nat
    BY <1>1 DEF IInv, Types
  <2>3. ASSUME NEW i \in Ids, NEW j \in Ids, i < Bound, j < Bound
        PROVE  issued[i] <= issued[j] + 1
    BY <1>1, <1>4, <2>1, <2>2, <2>3 DEF InRound, Bound
  <2>4. QED
    BY <1>1, <1>4, <2>1, <2>2, <2>3 DEF IdsAreExact, InRound, Bound
<1>5. QED
  BY <1>2, <1>3, <1>4 DEF IInv, Types

\* The four allocators issue the ids they promise: no duplicates and none at or
\* above the limit from the exchange and the decrement, a panic only when all
\* are gone, and even use of the ids where the counter wraps around.
THEOREM IdsExact == IdSpec => []IdsAreExact
<1>1. IInv /\ [IdNext]_idVars => IInv'
  <2> SUFFICES ASSUME IInv, [IdNext]_idVars
               PROVE  IInv'
    OBVIOUS
  <2>1. CASE UNCHANGED idVars
    BY <2>1 DEF idVars, IInv, Types, ExchangeInv, DecrementInv, WrapInv, IssuedBelow,
                Settled, Pending, InRound, Bound
  <2>2. QED
    BY <2>1, WrapStep, DecrementStep, ExchangeStep DEF IdNext, IdStep, Straight
<1>2. QED
  BY InitInv, <1>1, Exactness, PTL DEF IdSpec
=============================================================================
