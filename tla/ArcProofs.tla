----------------------------- MODULE ArcProofs ------------------------------
(***************************************************************************)
(* Proofs about modules BasicArc (06-01) and WeakArc (06-02), for any      *)
(* finite set of threads, any size of usize that RefCountAssumption allows *)
(* and any number of calls.  The steps are in module ArcStepProofs; here   *)
(* are the facts of counting that they rest on, and the theorems.          *)
(***************************************************************************)
EXTENDS ArcStepProofs, FiniteSetTheorems, WellFoundedInduction, TLAPS

-----------------------------------------------------------------------------
(* Numbers and counting. *)

\* A set of numbers has a least one.
LEMMA LeastNumber == LeastLaw
<1> SUFFICES ASSUME NEW S \in SUBSET Nat, S # {}
             PROVE  Least(S) \in S /\ \A y \in S : Least(S) <= y
  BY Zenon DEF LeastLaw
<1> DEFINE T == {1..x : x \in S}
<1>1. \A x \in S : 1..x \in FiniteSubsetsOf(Nat)
  <2> TAKE x \in S
  <2>1. x \in Int /\ 1 \in Int
    OBVIOUS
  <2>2. IsFiniteSet(1..x)
    BY <2>1, FS_Interval, Zenon
  <2>3. QED
    BY <2>2 DEF FiniteSubsetsOf
<1>2. T \subseteq FiniteSubsetsOf(Nat) /\ T # {}
  BY <1>1, Zenon
<1>3. IsWellFoundedOn(StrictSubsetOrdering(Nat), FiniteSubsetsOf(Nat))
  BY FS_StrictSubsetOrderingWellFounded, Zenon
<1>4. PICK s \in T : \A u \in T : ~(<<u, s>> \in StrictSubsetOrdering(Nat))
  <2> HIDE DEF T
  <2> QED
    BY <1>2, <1>3, WFMin, Zenon
<1>5. PICK x \in S : s = 1..x
  BY Zenon
<1>6. \A y \in S : x <= y
  <2> SUFFICES ASSUME NEW y \in S, ~(x <= y)
               PROVE  FALSE
    BY Zenon
  <2>1. 1..y \subseteq s /\ 1..y # s
    <3>1. x \in s /\ x \notin 1..y
      BY <1>5
    <3>2. QED
      BY <1>5, <3>1
  <2>2. <<1..y, s>> \in StrictSubsetOrdering(Nat)
    BY <2>1, <1>5 DEF StrictSubsetOrdering
  <2>3. QED
    BY <2>2, <1>4, Zenon
<1>7. QED
  BY <1>6, Zenon DEF Least

\* What it is to be a token.
LEMMA TokenMember ==
  ASSUME NEW w \in [Threads -> Nat]
  PROVE  \A h : h \in Tokens(w) <=> \E t \in Threads : \E k \in 1..w[t] : h = <<t, k>>
BY DEF Tokens

\* There are finitely many tokens.
LEMMA TokensFinite ==
  ASSUME NEW w \in [Threads -> Nat]
  PROVE  IsFiniteSet(Tokens(w)) /\ Total(w) \in Nat
<1> DEFINE F == [t \in Threads |-> {t} \X (1..w[t])]
           S == {F[t] : t \in Threads}
<1>1. IsFiniteSet(Threads)
  BY RefCountAssumption, Zenon
<1>2. IsFiniteSet(S)
  <2>1. F \in Surjection(Threads, S)
    BY Zenon DEF Surjection
  <2> HIDE DEF F, S
  <2>2. QED
    BY <1>1, <2>1, FS_Surjection, Zenon
<1>3. ASSUME NEW t \in Threads
      PROVE  IsFiniteSet(F[t])
  <2>1. w[t] \in Int /\ 1 \in Int
    OBVIOUS
  <2>2. IsFiniteSet(1..w[t]) /\ IsFiniteSet({t})
    BY <2>1, FS_Interval, FS_Singleton, Zenon
  <2>3. QED
    BY <2>2, FS_Product, Zenon
<1>4. Tokens(w) = UNION S
  BY Zenon DEF Tokens
<1> HIDE DEF F
<1>5. \A T \in S : IsFiniteSet(T)
  BY <1>3, Zenon
<1> HIDE DEF S
<1>6. IsFiniteSet(UNION S)
  BY <1>2, <1>5, FS_UNION, Zenon
<1>7. QED
  BY <1>4, <1>6, FS_CardinalityType, Zenon DEF Total

\* One token more.
LEMMA GainToken ==
  ASSUME NEW w \in [Threads -> Nat], NEW t \in Threads, NEW v, v = [w EXCEPT ![t] = @ + 1]
  PROVE  Total(v) = Total(w) + 1
<1> DEFINE h == <<t, w[t] + 1>>
<1>1. v \in [Threads -> Nat] /\ w[t] \in Nat /\ IsFiniteSet(Tokens(w))
  BY TokensFinite
<1>2. \A g : g \in Tokens(v) <=> \E u \in Threads : \E k \in 1..v[u] : g = <<u, k>>
  BY <1>1, TokenMember, Zenon
<1>3. Tokens(v) = Tokens(w) \cup {h}
  <2>1. ASSUME NEW g \in Tokens(v)
        PROVE  g \in Tokens(w) \cup {h}
    <3>1. PICK u \in Threads : \E k \in 1..v[u] : g = <<u, k>>
      BY <1>2, <2>1, Zenon
    <3>0. PICK k \in 1..v[u] : g = <<u, k>>
      BY <3>1, Zenon
    <3>2. k \in 1..w[u] \/ (u = t /\ k = w[t] + 1)
      BY <1>1
    <3>3. QED
      BY <3>0, <3>2, TokenMember, Zenon
  <2>2. ASSUME NEW g \in Tokens(w)
        PROVE  g \in Tokens(v)
    <3>1. PICK u \in Threads, k \in Nat : k \in 1..w[u] /\ g = <<u, k>>
      BY <2>2, TokenMember
    <3>2. k \in 1..v[u]
      BY <1>1, <3>1
    <3>3. QED
      BY <3>1, <3>2, <1>2, Zenon
  <2>3. h \in Tokens(v)
    <3>1. w[t] + 1 \in 1..v[t]
      BY <1>1
    <3>2. QED
      BY <3>1, <1>2, Zenon
  <2>4. QED
    BY <2>1, <2>2, <2>3, Zenon
<1>4. h \notin Tokens(w)
  <2> SUFFICES ASSUME h \in Tokens(w)
               PROVE  FALSE
    BY Zenon
  <2>1. PICK u \in Threads, k \in Nat : k \in 1..w[u] /\ h = <<u, k>>
    BY TokenMember
  <2>2. QED
    BY <1>1, <2>1
<1> HIDE DEF h
<1>5. QED
  BY <1>1, <1>3, <1>4, FS_AddElement, Zenon DEF Total

\* Who has a token is counted.
LEMMA SomeToken ==
  ASSUME NEW w \in [Threads -> Nat], NEW t \in Threads, w[t] > 0
  PROVE  /\ Total(w) \in Nat /\ Total(w) > 0
         /\ Total(w) = 1 => w[t] = 1 /\ \A u \in Threads \ {t} : w[u] = 0
<1> DEFINE h == <<t, 1>>
           rest == Tokens(w) \ {h}
<1>0. IsFiniteSet(Tokens(w))
  BY TokensFinite, Zenon
<1>1. h \in Tokens(w)
  <2>1. 1 \in 1..w[t]
    OBVIOUS
  <2>2. QED
    BY <2>1, TokenMember, Zenon
<1>2. IsFiniteSet(rest) /\ Cardinality(rest) = Total(w) - 1 /\ Total(w) \in Nat
  <2> HIDE DEF h
  <2> QED
    BY <1>0, <1>1, FS_RemoveElement, FS_CardinalityType, Zenon DEF Total
<1>3. Cardinality(rest) \in Nat
  <2> HIDE DEF rest
  <2> QED
    BY <1>2, FS_CardinalityType, Zenon
<1>4. ASSUME Total(w) = 1
      PROVE  w[t] = 1 /\ \A u \in Threads \ {t} : w[u] = 0
  <2>1. rest = {}
    <3> HIDE DEF rest
    <3>1. Cardinality(rest) = 0
      BY <1>2, <1>4
    <3>2. QED
      BY <1>2, <3>1, FS_EmptySet, Zenon
  <2>2. ASSUME NEW u \in Threads, NEW k \in 1..w[u]
        PROVE  u = t /\ k = 1
    <3>1. <<u, k>> \in Tokens(w)
      BY TokenMember, Zenon
    <3>2. QED
      BY <2>1, <3>1
  <2>3. \A u \in Threads : w[u] > 0 => w[u] \in 1..w[u]
    OBVIOUS
  <2>4. w[t] = 1
    BY <2>2, <2>3, Zenon
  <2>5. ASSUME NEW u \in Threads \ {t}
        PROVE  w[u] = 0
    BY <2>2, <2>3
  <2>6. QED
    BY <2>4, <2>5, Zenon
<1> HIDE DEF rest
<1>5. QED
  BY <1>2, <1>3, <1>4

\* How many threads are about to abort.
LEMMA StuckCount ==
  ASSUME DOMAIN pc = Threads, NEW t \in Threads, pc[t] # "abort"
  PROVE  /\ Cardinality(Stuck) \in Nat /\ Cardinality(Stuck) < Cardinality(Threads)
         /\ pc' = [pc EXCEPT ![t] = "abort"] => Cardinality(Stuck') = Cardinality(Stuck) + 1
         /\ \A next : pc' = [pc EXCEPT ![t] = next] /\ next # "abort" => Stuck' = Stuck
<1>1. Stuck \subseteq Threads /\ t \notin Stuck /\ IsFiniteSet(Threads)
  BY RefCountAssumption, Zenon DEF Stuck
<1>2. IsFiniteSet(Stuck) /\ Cardinality(Stuck) \in Nat
  BY <1>1, FS_Subset, FS_CardinalityType, Zenon
<1>3. Cardinality(Stuck \cup {t}) = Cardinality(Stuck) + 1
  BY <1>1, <1>2, FS_AddElement, Zenon
<1>4. Cardinality(Stuck \cup {t}) <= Cardinality(Threads) /\ Cardinality(Threads) \in Nat
  <2>1. Stuck \cup {t} \subseteq Threads
    BY <1>1, Zenon
  <2>2. QED
    BY <1>1, <2>1, FS_Subset, FS_CardinalityType, Zenon
<1>5. ASSUME pc' = [pc EXCEPT ![t] = "abort"]
      PROVE  Stuck' = Stuck \cup {t}
  BY <1>5, Zenon DEF Stuck
<1>6. ASSUME NEW next, pc' = [pc EXCEPT ![t] = next], next # "abort"
      PROVE  Stuck' = Stuck
  BY <1>6, Zenon DEF Stuck
<1>7. Cardinality(Stuck) < Cardinality(Threads)
  BY <1>2, <1>3, <1>4
<1>8. pc' = [pc EXCEPT ![t] = "abort"] => Cardinality(Stuck') = Cardinality(Stuck) + 1
  BY <1>3, <1>5, Zenon
<1>9. QED
  BY <1>2, <1>6, <1>7, <1>8, Zenon

\* Within its limit, the counter does not wrap around.
LEMMA NoWrap ==
  ASSUME NEW c \in Nat, NEW s \in Nat, s < Cardinality(Threads), c <= MaxUsize \div 2 + 1 + s
  PROVE  (c + 1) % (MaxUsize + 1) = c + 1
<1> DEFINE half == MaxUsize \div 2
           size == Cardinality(Threads)
<1>1. half \in Nat /\ MaxUsize \in Nat
  BY RefCountAssumption
<1>2. size \in Nat
  BY RefCountAssumption, FS_CardinalityType, Zenon
<1>3. half + 1 + size < MaxUsize
  BY RefCountAssumption, Zenon
<1> HIDE DEF half, size
<1>4. s < size /\ c <= half + 1 + s
  BY Zenon DEF half, size
<1>5. c + 1 < MaxUsize + 1
  BY <1>1, <1>2, <1>3, <1>4
<1>6. QED
  BY <1>1, <1>5

\* One thread has one token more or less.
LEMMA ChangeTotal ==
  ASSUME NEW w \in [Threads -> Nat], NEW v \in [Threads -> Nat], NEW t \in Threads,
         \A u \in Threads \ {t} : v[u] = w[u]
  PROVE  /\ Total(w) \in Nat /\ Total(v) \in Nat
         /\ v[t] = w[t] => Total(v) = Total(w)
         /\ v[t] = w[t] + 1 => Total(v) = Total(w) + 1
         /\ w[t] = v[t] + 1 => Total(v) = Total(w) - 1
<1>1. Total(w) \in Nat /\ Total(v) \in Nat
  BY TokensFinite, Zenon
<1>2. v[t] = w[t] => v = w
  OBVIOUS
<1>3. ASSUME v[t] = w[t] + 1
      PROVE  Total(v) = Total(w) + 1
  <2>1. v = [w EXCEPT ![t] = @ + 1]
    BY <1>3, Zenon
  <2>2. QED
    BY <2>1, GainToken, Zenon
<1>4. ASSUME w[t] = v[t] + 1
      PROVE  Total(v) = Total(w) - 1
  <2>1. w = [v EXCEPT ![t] = @ + 1]
    BY <1>4, Zenon
  <2>2. Total(w) = Total(v) + 1
    BY <2>1, GainToken, Zenon
  <2>3. QED
    BY <1>1, <2>2
<1>5. QED
  BY <1>1, <1>2, <1>3, <1>4, Zenon

\* More tokens for each thread are more tokens.
LEMMA MoreTokens ==
  ASSUME NEW w \in [Threads -> Nat], NEW v \in [Threads -> Nat], \A t \in Threads : w[t] <= v[t]
  PROVE  Total(w) \in Nat /\ Total(v) \in Nat /\ Total(w) <= Total(v)
<1>1. Total(w) \in Nat /\ Total(v) \in Nat /\ IsFiniteSet(Tokens(v))
  BY TokensFinite, Zenon
<1>2. Tokens(w) \subseteq Tokens(v)
  <2> SUFFICES ASSUME NEW h \in Tokens(w)
               PROVE  h \in Tokens(v)
    BY Zenon
  <2>1. PICK t \in Threads : \E k \in 1..w[t] : h = <<t, k>>
    BY TokenMember
  <2>2. PICK k \in 1..w[t] : h = <<t, k>>
    BY <2>1, Zenon
  <2>3. k \in 1..v[t]
    BY <2>2
  <2>4. QED
    BY <2>2, <2>3, TokenMember, Zenon
<1>3. QED
  BY <1>1, <1>2, FS_Subset, Zenon DEF Total

\* The tokens of threads that have one for being in A and one for being in B.
LEMMA TwoTokens ==
  ASSUME NEW A \in SUBSET Threads, NEW B \in SUBSET Threads, NEW w \in [Threads -> Nat],
         \A t \in Threads : w[t] = (IF t \in A THEN 1 ELSE 0) + (IF t \in B THEN 1 ELSE 0)
  PROVE  /\ Cardinality(A) \in Nat /\ Cardinality(B) \in Nat
         /\ Total(w) = Cardinality(A) + Cardinality(B)
<1> DEFINE first == (A \cup B) \X {1}
           second == (A \cap B) \X {2}
<1>1. IsFiniteSet(A) /\ IsFiniteSet(B) /\ Cardinality(A) \in Nat /\ Cardinality(B) \in Nat
  BY RefCountAssumption, FS_Subset, FS_CardinalityType, Zenon
<1>2. /\ IsFiniteSet(A \cup B) /\ IsFiniteSet(A \cap B)
      /\ Cardinality(A \cup B) = Cardinality(A) + Cardinality(B) - Cardinality(A \cap B)
  BY <1>1, FS_Union, FS_Intersection, Zenon
<1>3. Cardinality(A \cup B) \in Nat /\ Cardinality(A \cap B) \in Nat
  BY <1>2, FS_CardinalityType, Zenon
<1>4. IsFiniteSet({1}) /\ Cardinality({1}) = 1 /\ IsFiniteSet({2}) /\ Cardinality({2}) = 1
  BY FS_Singleton, Zenon
<1>5. /\ IsFiniteSet(first) /\ Cardinality(first) = Cardinality(A \cup B) * 1
      /\ IsFiniteSet(second) /\ Cardinality(second) = Cardinality(A \cap B) * 1
  BY <1>2, <1>4, FS_Product
<1>6. first \cap second = {}
  OBVIOUS
<1>7. Tokens(w) = first \cup second
  <2>1. ASSUME NEW h
        PROVE  h \in Tokens(w) <=> h \in first \cup second
    <3>1. h \in Tokens(w) <=> \E t \in Threads : \E k \in 1..w[t] : h = <<t, k>>
      BY TokenMember
    <3>2. \A t \in Threads : \A k : k \in 1..w[t] <=> (k = 1 /\ t \in A \cup B) \/ (k = 2 /\ t \in A \cap B)
      OBVIOUS
    <3>3. QED
      BY <3>1, <3>2
  <2>2. QED
    BY <2>1, Zenon
<1> HIDE DEF first, second
<1>8. Cardinality(first \cup second) = Cardinality(first) + Cardinality(second) - Cardinality({})
  BY <1>5, <1>6, FS_Union
<1>9. Cardinality({}) = 0
  BY FS_EmptySet, Zenon
<1>10. QED
  BY <1>1, <1>2, <1>3, <1>5, <1>7, <1>8, <1>9 DEF Total

\* What is counted are numbers of tokens, and there is a Weak for each Arc.
LEMMA CountTypes ==
  ASSUME WeakTypes
  PROVE  /\ Held \in [Threads -> Nat] /\ Sure \in [Threads -> Nat] /\ Possible \in [Threads -> Nat]
         /\ Total(Held) \in Nat /\ Total(Sure) \in Nat /\ Total(Possible) \in Nat
         /\ WeakLocal => Total(Possible) <= Total(Held)
<1>1. Held \in [Threads -> Nat] /\ Sure \in [Threads -> Nat] /\ Possible \in [Threads -> Nat]
  BY DEF WeakTypes, Held, Sure, Possible
<1>2. ASSUME WeakLocal, NEW t \in Threads
      PROVE  Possible[t] <= Held[t]
  <2>1. /\ Held[t] = arcs[t] + weaks[t] + (IF pc[t] \in {"clone_data", "drop_value", "drop_weak", "abort"} THEN 1 ELSE 0)
        /\ Possible[t] = arcs[t] + (IF pc[t] \in {"upgrade_clone", "abort"} THEN 1 ELSE 0)
        /\ arcs[t] \in Nat /\ weaks[t] \in Nat
        /\ pc[t] = "upgrade_clone" => weaks[t] > 0
    BY <1>2, Zenon DEF WeakTypes, Held, Possible, WeakLocal
  <2>2. QED
    BY <2>1
<1>3. QED
  BY <1>1, <1>2, TokensFinite, MoreTokens, Zenon

\* One thread has k tokens more or less.
LEMMA ShiftTotal ==
  ASSUME NEW w \in [Threads -> Nat], NEW v \in [Threads -> Nat], NEW t \in Threads, NEW k \in {-1, 0, 1},
         \A u \in Threads \ {t} : v[u] = w[u], v[t] = w[t] + k
  PROVE  Total(v) = Total(w) + k /\ Total(w) \in Nat /\ Total(v) \in Nat
<1>1. /\ Total(w) \in Nat /\ Total(v) \in Nat
      /\ v[t] = w[t] => Total(v) = Total(w)
      /\ v[t] = w[t] + 1 => Total(v) = Total(w) + 1
      /\ w[t] = v[t] + 1 => Total(v) = Total(w) - 1
  BY ChangeTotal, Zenon
<1>2. \A h, g \in Nat : g = h + k => (k = 0 /\ g = h) \/ (k = 1 /\ g = h + 1) \/ (k = -1 /\ h = g + 1)
  OBVIOUS
<1>3. (k = 0 /\ v[t] = w[t]) \/ (k = 1 /\ v[t] = w[t] + 1) \/ (k = -1 /\ w[t] = v[t] + 1)
  BY <1>2, Zenon
<1>4. QED
  BY <1>1, <1>3

-----------------------------------------------------------------------------
(* The initial states. *)

\* The threads in owners have an Arc each, and the counter is their number.
LEMMA BasicStart == BasicInit => BasicInv
<1> SUFFICES ASSUME NEW owners \in (SUBSET Threads) \ {{}}, BasicInitWith(owners)
             PROVE  BasicInv
  BY Zenon DEF BasicInit
<1> DEFINE all == Kinds \X Threads
<1>1. IsFiniteSet(owners) /\ Cardinality(owners) \in Nat /\ Cardinality(owners) <= Cardinality(Threads)
      /\ Cardinality(owners) > 0 /\ Cardinality(Threads) \in Nat
  <2>1. IsFiniteSet(owners) /\ Cardinality(owners) \in Nat /\ Cardinality(owners) <= Cardinality(Threads)
        /\ Cardinality(Threads) \in Nat
    BY RefCountAssumption, FS_Subset, FS_CardinalityType, Zenon
  <2>2. Cardinality(owners) # 0
    BY <2>1, FS_EmptySet, Zenon
  <2>3. QED
    BY <2>1, <2>2
<1>2. FirstResult(Cardinality(owners), 0, mem)
  <2>1. mem = FirstMemory([data_ref_count |-> Cardinality(owners), alloc_ref_count |-> 0], Kinds \X Threads)
    BY Zenon DEF BasicInitWith, RefCountInit, Kinds
  <2>2. QED
    BY <1>1, <2>1, FirstMemoryData, Zenon
<1>3. mem \in Memory /\ Current(Data) = Cardinality(owners) /\ Newest(mem, Data).view.hb = all
  BY <1>2, Zenon DEF FirstResult, Current, Data, Locations
<1>4. /\ pc = [t \in Threads |-> "idle"]
       /\ arcs = [t \in Threads |-> IF t \in owners THEN 1 ELSE 0]
       /\ weaks = [t \in Threads |-> 0]
  BY Zenon DEF BasicInitWith, RefCountInit
<1>5. Types
  BY <1>3, <1>4, Zenon DEF Types, Labels
<1>6. Stuck = {}
  BY <1>4, Zenon DEF Stuck
<1>7. Tokens(arcs) = owners \X {1}
  <2>1. arcs \in [Threads -> Nat]
    BY <1>4, Zenon
  <2>2. ASSUME NEW h
        PROVE  h \in Tokens(arcs) <=> h \in owners \X {1}
    <3>1. h \in Tokens(arcs) <=> \E t \in Threads : \E k \in 1..arcs[t] : h = <<t, k>>
      BY <2>1, TokenMember
    <3>2. \A t \in Threads : \A k : k \in 1..arcs[t] <=> t \in owners /\ k = 1
      BY <1>4
    <3>3. QED
      BY <3>1, <3>2
  <2>3. QED
    BY <2>2, Zenon
<1>8. Counted
  <2>1. IsFiniteSet({1}) /\ Cardinality({1}) = 1
    BY FS_Singleton, Zenon
  <2>2. IsFiniteSet(owners \X {1}) /\ Cardinality(owners \X {1}) = Cardinality(owners) * Cardinality({1})
    BY <1>1, <2>1, FS_Product, Zenon
  <2>3. Cardinality({}) = 0
    BY FS_EmptySet, Zenon
  <2>4. Cardinality(owners) * 1 = Cardinality(owners) /\ Cardinality(owners) + 0 = Cardinality(owners)
    BY <1>1
  <2>5. QED
    BY <1>3, <1>6, <1>7, <2>1, <2>2, <2>3, <2>4, Zenon DEF Counted, Total
<1>9. CountWithinLimit
  <2> DEFINE half == MaxUsize \div 2
  <2>1. half \in Nat /\ MaxUsize \in Nat /\ MaxUsize <= half + half + 1
    BY RefCountAssumption
  <2>2. half + 1 + Cardinality(Threads) < MaxUsize
    BY RefCountAssumption, Zenon
  <2> HIDE DEF half
  <2>3. Cardinality(owners) <= half + 1 + 0
    BY <1>1, <2>1, <2>2
  <2>4. {t \in Threads : pc[t] = "abort"} = {} /\ Cardinality({}) = 0
    BY <1>6, FS_EmptySet, Zenon DEF Stuck
  <2>5. QED
    BY <1>3, <2>3, <2>4, Zenon DEF CountWithinLimit, half, Data
<1>10. Phase /\ Alone
  BY <1>1, <1>3, <1>4, SMTT(30) DEF Phase, Alone, BasicInitWith, RefCountInit
<1>11. Loads
  BY <1>2, Zenon DEF FirstResult, Loads, Data, Locations
<1>12. Ordered
  <2>1. \A t \in Threads : mem.view[t].hb = all /\ Accesses(t) \subseteq all
    BY <1>2, Zenon DEF FirstResult, Accesses
  <2>2. Live \subseteq Threads
    BY Zenon DEF Live
  <2> HIDE DEF all
  <2>3. QED
    BY <1>3, <1>4, <2>1, <2>2, Zenon DEF Ordered
<1>13. QED
  BY <1>5, <1>8, <1>9, <1>10, <1>11, <1>12 DEF BasicInv, BasicRest

\* It holds when the threads have got their handles.
LEMMA WeakStart == Init => WeakInv
<1> SUFFICES ASSUME NEW owners \in (SUBSET Threads) \ {{}}, NEW weakOwners \in SUBSET Threads,
                    InitWith(owners, weakOwners)
             PROVE  WeakInv
  BY Zenon DEF Init
<1> DEFINE d == Cardinality(owners)
           w == Cardinality(weakOwners)
<1>1. /\ pc = [t \in Threads |-> "idle"]
      /\ arcs = [t \in Threads |-> IF t \in owners THEN 1 ELSE 0]
      /\ weaks = [t \in Threads |-> IF t \in weakOwners THEN 1 ELSE 0]
      /\ dropped = 0 /\ freed = 0
      /\ d + w <= MaxUsize \div 2 + 1
  BY Zenon DEF InitWith, RefCountInit
<1>2. /\ d \in Nat /\ d > 0 /\ w \in Nat
  <2>1. IsFiniteSet(owners) /\ IsFiniteSet(weakOwners)
    BY RefCountAssumption, FS_Subset, Zenon
  <2>2. d \in Nat /\ w \in Nat /\ d # 0
    BY <2>1, FS_CardinalityType, FS_EmptySet, Zenon
  <2>3. QED
    BY <2>2
<1>3. FirstResult(d, d + w, mem)
  <2>1. mem = FirstMemory([data_ref_count |-> d, alloc_ref_count |-> d + w], Kinds \X Threads)
    BY Zenon DEF InitWith, RefCountInit, Kinds
  <2>2. d + w \in Nat
    BY <1>2
  <2> HIDE DEF d, w
  <2>3. QED
    BY <1>2, <2>1, <2>2, FirstMemoryData, Zenon
<1>4. /\ mem \in Memory /\ Current(Data) = d /\ Current(Alloc) = d + w
      /\ Newest(mem, Data).view.hb = Kinds \X Threads /\ Newest(mem, Alloc).view.hb = Kinds \X Threads
      /\ \A t \in Threads : mem.view[t].hb = Kinds \X Threads /\ Fresh(mem, t, Alloc)
  BY <1>3, Zenon DEF FirstResult, Current, Data, Alloc, Locations
<1>5. WeakTypes
  BY <1>1, <1>4, Zenon DEF WeakTypes, WeakLabels
<1>6. /\ Held \in [Threads -> Nat] /\ Sure \in [Threads -> Nat] /\ Possible \in [Threads -> Nat]
  BY <1>5, CountTypes, Zenon
<1>7. Total(Held) = d + w
  <2>1. \A t \in Threads : Held[t] = (IF t \in owners THEN 1 ELSE 0) + (IF t \in weakOwners THEN 1 ELSE 0)
    BY <1>1 DEF Held
  <2> HIDE DEF Held
  <2>2. QED
    BY <1>6, <2>1, TwoTokens, Zenon
<1>8. Total(Sure) = d /\ Total(Possible) = d
  <2>1. \A t \in Threads : /\ Sure[t] = (IF t \in owners THEN 1 ELSE 0) + (IF t \in {} THEN 1 ELSE 0)
                           /\ Possible[t] = (IF t \in owners THEN 1 ELSE 0) + (IF t \in {} THEN 1 ELSE 0)
    BY <1>1, Zenon DEF Sure, Possible
  <2> HIDE DEF Sure, Possible
  <2>2. Total(Sure) = d + Cardinality({}) /\ Total(Possible) = d + Cardinality({})
    BY <1>6, <2>1, TwoTokens
  <2>3. Cardinality({}) = 0
    BY FS_EmptySet, Zenon
  <2>4. QED
    BY <1>2, <2>2, <2>3
<1>9. WeakCounted
  <2>1. Stuck = {} /\ Cardinality({}) = 0
    BY <1>1, FS_EmptySet, Zenon DEF Stuck
  <2>2. d <= d /\ d + w <= MaxUsize \div 2 + 1 + 0
    BY <1>1, <1>2, RefCountAssumption
  <2> HIDE DEF d, w
  <2>3. QED
    BY <1>4, <1>7, <1>8, <2>1, <2>2, Zenon DEF WeakCounted
<1>10. d + w > 0
  BY <1>2
<1> HIDE DEF d, w
<1>11. WeakLocal /\ WeakAlone /\ WeakLoads
  BY <1>1, <1>4, Zenon DEF WeakLocal, WeakAlone, WeakLoads
<1>12. ValuePhase /\ BoxPhase
  BY <1>1, <1>2, <1>4, <1>10, SMTT(30) DEF ValuePhase, BoxPhase
<1>13. WeakOrdered
  <2>1. \A t \in Threads : Accesses(t) \subseteq Kinds \X Threads
    BY Zenon DEF Accesses
  <2>2. \A t \in Threads : pc[t] = "idle"
    BY <1>1, Zenon
  <2>3. QED
    BY <1>4, <2>1, <2>2, Zenon DEF WeakOrdered, InOrder
<1>14. QED
  BY <1>5, <1>9, <1>11, <1>12, <1>13, Zenon DEF WeakInv, WeakRest

-----------------------------------------------------------------------------
(* The Arc of 06-01. *)

\* What the steps use of the counting: before the last Arc is dropped, the others
\* have theirs, or are done with it, and the counter does not wrap around.
LEMMA BasicKnows ==
  ASSUME BasicInv
  PROVE  BasicFacts
<1>1. /\ Types /\ Counted /\ CountWithinLimit /\ Phase /\ Alone
      /\ mem \in Memory /\ arcs \in [Threads -> Nat] /\ pc \in [Threads -> Labels]
  BY Zenon DEF BasicInv, BasicRest, Types
<1>2. IsFiniteSet(Stuck) /\ Cardinality(Stuck) \in Nat
  BY RefCountAssumption, FS_Subset, FS_CardinalityType, Zenon DEF Stuck
<1>3. Current(Data) \in Nat
  BY <1>1, MemoryParts, Zenon DEF Current, Data, Locations, Messages
<1>4. ASSUME NEW t \in Threads, arcs[t] > 0
      PROVE  LastOne(t)
  <2>1. /\ Total(arcs) \in Nat /\ Total(arcs) > 0
        /\ Total(arcs) = 1 => arcs[t] = 1 /\ \A u \in Threads \ {t} : arcs[u] = 0
    BY <1>1, <1>4, SomeToken, Zenon
  <2>2. Current(Data) > 0 /\ (Current(Data) = 1 => Total(arcs) = 1 /\ Cardinality(Stuck) = 0)
    BY <1>1, <1>2, <2>1 DEF Counted
  <2>3. \A u \in Threads : pc[u] \in {"idle", "abort", "mut"}
    BY <1>1, <2>2, Zenon DEF Phase, Labels
  <2>4. \A u \in Threads \ {t} : pc[u] # "mut"
    BY <1>1, <1>4 DEF Alone
  <2>5. Cardinality(Stuck) = 0 => \A u \in Threads : pc[u] # "abort"
    <3>1. Cardinality(Stuck) = 0 => Stuck = {}
      BY <1>2, FS_EmptySet, Zenon
    <3>2. QED
      BY <3>1, Zenon DEF Stuck
  <2>6. QED
    BY <2>1, <2>2, <2>3, <2>4, <2>5, Zenon DEF LastOne
<1>5. ASSUME NEW t \in Threads, pc[t] # "abort"
      PROVE  (Current(Data) + 1) % (MaxUsize + 1) = Current(Data) + 1
  <2>1. Cardinality(Stuck) \in Nat /\ Cardinality(Stuck) < Cardinality(Threads)
    BY <1>1, <1>5, StuckCount, Zenon
  <2>2. Current(Data) <= MaxUsize \div 2 + 1 + Cardinality(Stuck)
    BY <1>1, Zenon DEF CountWithinLimit, Stuck, Data
  <2>3. QED
    BY <1>3, <2>1, <2>2, NoWrap, Zenon
<1>6. ASSUME NEW t \in Threads, pc[t] = "abort"
      PROVE  Current(Data) > 0
  <2>1. Stuck # {}
    BY <1>6, Zenon DEF Stuck
  <2>2. Cardinality(Stuck) # 0 /\ Total(arcs) \in Nat
    BY <1>1, <1>2, <2>1, FS_EmptySet, TokensFinite
  <2>3. QED
    BY <1>1, <1>2, <2>2 DEF Counted
<1>7. QED
  BY <1>3, <1>4, <1>5, <1>6, Zenon DEF BasicFacts

\* A step of t that counts what it does keeps the counter exact.
LEMMA BasicRecount ==
  ASSUME BasicInv, NEW t \in Threads, NEW next, NEW d \in {-1, 0, 1}, BasicCounts(t, next, d)
  PROVE  Counted' /\ CountWithinLimit'
<1>1. arcs \in [Threads -> Nat] /\ DOMAIN pc = Threads /\ mem \in Memory
  BY Zenon DEF BasicInv, BasicRest, Types
<1>2. Current(Data) = Total(arcs) + Cardinality(Stuck)
  BY Zenon DEF BasicInv, Counted
<1>3. /\ Cardinality(Stuck) \in Nat
      /\ next = "abort" => Cardinality(Stuck') = Cardinality(Stuck) + 1
      /\ next # "abort" => Stuck' = Stuck
  BY <1>1, StuckCount, Zenon DEF BasicCounts
<1>4. /\ Total(arcs) \in Nat
      /\ next = "abort" => d = 1 /\ Total(arcs') = Total(arcs)
      /\ next # "abort" => Total(arcs') = Total(arcs) + d
  <2>1. CASE next = "abort"
    <3>1. Total(arcs) \in Nat
      BY <1>1, TokensFinite, Zenon
    <3>2. d = 1 /\ arcs' = arcs
      BY <2>1, Zenon DEF BasicCounts
    <3>3. QED
      BY <2>1, <3>1, <3>2, Zenon
  <2>2. CASE next # "abort"
    <3>1. arcs' \in [Threads -> Nat] /\ arcs'[t] = arcs[t] + d /\ \A u \in Threads \ {t} : arcs'[u] = arcs[u]
      BY <2>2, Zenon DEF BasicCounts
    <3>2. QED
      BY <1>1, <2>2, <3>1, ShiftTotal
  <2>3. QED
    BY <2>1, <2>2, Zenon
<1>5. Current(Data)' = Total(arcs') + Cardinality(Stuck')
  <2>1. Current(Data)' = Current(Data) + d
    BY Zenon DEF BasicCounts
  <2>2. CASE next = "abort"
    BY <1>2, <1>3, <1>4, <2>1, <2>2
  <2>3. CASE next # "abort"
    BY <1>2, <1>3, <1>4, <2>1, <2>3
  <2>4. QED
    BY <2>2, <2>3, Zenon
<1>6. Current(Data)' <= MaxUsize \div 2 + 1 + Cardinality(Stuck')
  <2> DEFINE half == MaxUsize \div 2
             c == Current(Data)
             k == Cardinality(Stuck)
             k2 == Cardinality(Stuck')
  <2>1. half \in Nat /\ c \in Nat /\ k \in Nat
    BY <1>2, <1>3, <1>4, RefCountAssumption
  <2>2. c <= half + 1 + k
    BY Zenon DEF BasicInv, CountWithinLimit, Stuck, Data
  <2>3. Current(Data)' = c + d /\ (d = 1 => next = "abort" \/ c <= half)
    BY Zenon DEF BasicCounts
  <2>4. /\ next = "abort" => k2 = k + 1
        /\ next # "abort" => k2 = k
    BY <1>3, Zenon
  <2> HIDE DEF half, c, k, k2
  <2>5. c + d <= half + 1 + k2
    BY <2>1, <2>2, <2>3, <2>4
  <2>6. QED
    BY <2>3, <2>5, Zenon DEF half, k2
<1>7. CountWithinLimit'
  BY <1>6, Zenon DEF CountWithinLimit, Stuck, Data
<1>8. QED
  BY <1>5, <1>7, Zenon DEF Counted, Total, Tokens

\* Every step of every thread of 06-01 keeps the invariant.
THEOREM BasicInvariance == BasicSpec => []BasicInv
<1>1. BasicInv /\ [BasicNext]_rcVars => BasicInv'
  <2> SUFFICES ASSUME BasicInv, [BasicNext]_rcVars
               PROVE  BasicInv'
    BY Zenon
  <2>1. BasicRest /\ BasicFacts /\ RmwLaw /\ LoadLaw /\ AccessLaw /\ FencedLaw /\ ContinueLaw
    BY BasicKnows, LeastNumber, MemoryLaws, Zenon DEF BasicInv
  <2>2. ASSUME NEW t \in Threads, BasicStep(t), ~Abort(t)
        PROVE  BasicRest' /\ \E next \in Labels, d \in {-1, 0, 1} : BasicCounts(t, next, d)
    <3>1. CASE BasicClone(t)
      BY <2>1, <3>1, ClonePreserves, Zenon
    <3>2. CASE BasicGetMut(t)
      BY <2>1, <3>2, GetMutPreserves, Zenon
    <3>3. CASE Mutate(t) \/ DropValue(t, "free") \/ Free(t)
      BY <2>1, <3>3, WritePreserves, Zenon
    <3>4. CASE DropArc(t, "idle")
      BY <2>1, <3>4, DropArcPreserves, Zenon
    <3>5. QED
      BY <2>2, <3>1, <3>2, <3>3, <3>4 DEF BasicStep
  <2>3. ASSUME NEW t \in Threads, BasicStep(t)
        PROVE  BasicInv'
    <3>1. CASE Abort(t)
      BY <3>1, QuietPreserves, Zenon DEF Abort, handleVars
    <3>2. CASE ~Abort(t)
      <4>1. PICK next \in Labels, d \in {-1, 0, 1} : BasicRest' /\ BasicCounts(t, next, d)
        BY <2>2, <2>3, <3>2, Zenon
      <4>2. QED
        BY <4>1, BasicRecount, Zenon DEF BasicInv
    <3>3. QED
      BY <3>1, <3>2, Zenon
  <2>4. CASE UNCHANGED rcVars
    BY <2>4, QuietPreserves, Zenon DEF rcVars, handleVars, endVars
  <2>5. QED
    BY <2>3, <2>4, Zenon DEF BasicNext, BasicProgress
<1>2. QED
  BY <1>1, BasicStart, PTL DEF BasicSpec

\* The writes through get_mut(), the drop of the value and the release of the
\* memory in 06-01 race with nothing.
THEOREM BasicRaceFree == BasicSpec => []NoDataRace
BY BasicInvariance, BasicKnows, BasicSafe, PTL

\* get_mut() of 06-01 hands out a reference only if its Arc is the only one and
\* no other thread is inside an operation.
THEOREM BasicGetMutExclusive == BasicSpec => []GetMutIsExclusive
BY BasicInvariance, BasicKnows, BasicSafe, PTL

\* The value of 06-01 and its memory live as long as an Arc does, and go once.
THEOREM BasicAlive == BasicSpec => []AliveWhileOwned
BY BasicInvariance, BasicKnows, BasicSafe, PTL

\* However often clone() is called, the counter of 06-01 stays within its limit
\* and one for each thread on its way to abort().
THEOREM BasicCountWithinLimit == BasicSpec => []CountWithinLimit
BY BasicInvariance, BasicKnows, BasicSafe, PTL

-----------------------------------------------------------------------------
(* The Arc and the Weak of 06-02. *)

\* There is memory as long as a thread has to do with it; the last one is
\* alone.
LEMMA Holders ==
  ASSUME WeakInv
  PROVE  HolderFacts
<1> SUFFICES ASSUME NEW t \in Threads, pc[t] # "idle" \/ arcs[t] + weaks[t] > 0, pc[t] # "free"
             PROVE  /\ Held[t] > 0
                    /\ Current(Alloc) > 0
                    /\ freed = 0 /\ \A u \in Threads : pc[u] # "free"
                    /\ pc[t] # "mut" => \A u \in Threads : pc[u] # "mut"
                    /\ Current(Alloc) = 1 =>
                         /\ Held[t] = 1
                         /\ \A u \in Threads \ {t} : pc[u] = "idle" /\ arcs[u] = 0 /\ weaks[u] = 0
  BY Zenon DEF HolderFacts
<1>1. WeakTypes /\ WeakLocal /\ BoxPhase /\ WeakAlone /\ Current(Alloc) = Total(Held)
  BY Zenon DEF WeakInv, WeakRest, WeakCounted
<1>2. Held \in [Threads -> Nat]
  BY <1>1, CountTypes, Zenon
<1>3. \A u \in Threads : /\ arcs[u] \in Nat /\ weaks[u] \in Nat /\ pc[u] \in WeakLabels
                         /\ Held[u] = arcs[u] + weaks[u] +
                              (IF pc[u] \in {"clone_data", "drop_value", "drop_weak", "abort"} THEN 1 ELSE 0)
  BY <1>1, Zenon DEF WeakTypes, Held
<1>4. \A u \in Threads : Held[u] = 0 => arcs[u] = 0 /\ weaks[u] = 0 /\ pc[u] \in {"idle", "free"}
  <2> SUFFICES ASSUME NEW u \in Threads, Held[u] = 0
               PROVE  arcs[u] = 0 /\ weaks[u] = 0 /\ pc[u] \in {"idle", "free"}
    BY Zenon
  <2>1. arcs[u] = 0 /\ weaks[u] = 0 /\ pc[u] \notin {"clone_data", "drop_value", "drop_weak", "abort"}
    <3> HIDE DEF Held
    <3> QED
      BY <1>3
  <2>2. pc[u] \notin {"mut", "upgrade", "upgrade_clone"}
    BY <1>1, <2>1 DEF WeakAlone, WeakLocal
  <2>3. QED
    BY <1>3, <2>1, <2>2, Zenon DEF WeakLabels
<1> HIDE DEF Held
<1>5. Held[t] > 0
  <2>1. Held[t] \in Nat
    BY <1>2, Zenon
  <2>2. Held[t] # 0
    BY <1>4
  <2>3. QED
    BY <2>1, <2>2
<1>6. /\ Total(Held) \in Nat /\ Total(Held) > 0
      /\ Total(Held) = 1 => Held[t] = 1 /\ \A u \in Threads \ {t} : Held[u] = 0
  BY <1>2, <1>5, SomeToken, Zenon
<1>7. freed = 0 /\ \A u \in Threads : pc[u] # "free"
  BY <1>1, <1>6, Zenon DEF BoxPhase
<1>8. pc[t] # "mut" => \A u \in Threads : pc[u] # "mut"
  <2> SUFFICES ASSUME pc[t] # "mut", NEW u \in Threads, pc[u] = "mut"
               PROVE  FALSE
    BY Zenon
  <2>1. pc[t] = "idle" /\ arcs[t] = 0 /\ weaks[t] = 0
    BY <1>1, Zenon DEF WeakAlone
  <2>2. QED
    BY <2>1
<1>9. QED
  BY <1>1, <1>4, <1>5, <1>6, <1>7, <1>8

\* The value is there as long as a thread has an Arc or is about to, and the
\* last of them is alone with it.
LEMMA Owners ==
  ASSUME WeakInv
  PROVE  OwnerFacts
<1> SUFFICES ASSUME NEW t \in Threads, arcs[t] > 0 \/ pc[t] = "upgrade_clone"
             PROVE  /\ Current(Data) > 0
                    /\ dropped = 0 /\ \A u \in Threads : pc[u] # "drop_value"
                    /\ Current(Data) = 1 /\ arcs[t] > 0 => arcs[t] = 1 /\ \A u \in Threads \ {t} : arcs[u] = 0
  BY Zenon DEF OwnerFacts
<1>1. WeakTypes /\ ValuePhase /\ Total(Sure) <= Current(Data)
  BY Zenon DEF WeakInv, WeakRest, WeakCounted
<1>2. Sure \in [Threads -> Nat]
  BY <1>1, CountTypes, Zenon
<1>3. \A u \in Threads : arcs[u] \in Nat /\ Sure[u] = arcs[u] + (IF pc[u] = "upgrade_clone" THEN 1 ELSE 0)
  BY <1>1, Zenon DEF WeakTypes, Sure
<1> HIDE DEF Sure
<1>4. Sure[t] > 0
  BY <1>3
<1>5. /\ Total(Sure) \in Nat /\ Total(Sure) > 0
      /\ Total(Sure) = 1 => Sure[t] = 1 /\ \A u \in Threads \ {t} : Sure[u] = 0
  BY <1>2, <1>4, SomeToken, Zenon
<1>6. Current(Data) \in Nat
  BY <1>1, MemoryParts, Zenon DEF WeakTypes, Current, Data, Locations, Messages
<1>7. Current(Data) > 0 /\ (Current(Data) = 1 => Total(Sure) = 1)
  BY <1>1, <1>5, <1>6
<1>8. dropped = 0 /\ \A u \in Threads : pc[u] # "drop_value"
  BY <1>1, <1>7, Zenon DEF ValuePhase
<1>9. ASSUME Current(Data) = 1, arcs[t] > 0
      PROVE  arcs[t] = 1 /\ \A u \in Threads \ {t} : arcs[u] = 0
  <2>1. Sure[t] = 1 /\ \A u \in Threads \ {t} : Sure[u] = 0
    BY <1>5, <1>7, <1>9, Zenon
  <2>2. arcs[t] = 1
    BY <1>3, <1>9, <2>1
  <2>3. \A u \in Threads \ {t} : arcs[u] = 0
    BY <1>3, <2>1
  <2>4. QED
    BY <2>2, <2>3, Zenon
<1>10. QED
  BY <1>7, <1>8, <1>9, Zenon

\* The counters are numbers, and do not wrap around when a thread that is not
\* about to abort adds one.
LEMMA CountersExact ==
  ASSUME WeakInv
  PROVE  CounterFacts
<1>1. /\ WeakTypes /\ WeakLocal
      /\ Current(Alloc) = Total(Held) /\ Current(Data) <= Total(Possible)
      /\ Current(Alloc) <= MaxUsize \div 2 + 1 + Cardinality(Stuck)
  BY Zenon DEF WeakInv, WeakRest, WeakCounted
<1>2. Current(Data) \in Nat
  BY <1>1, MemoryParts, Zenon DEF WeakTypes, Current, Data, Locations, Messages
<1>3. Total(Held) \in Nat /\ Total(Possible) \in Nat /\ Total(Possible) <= Total(Held)
  BY <1>1, CountTypes, Zenon
<1>4. Current(Alloc) \in Nat /\ Current(Data) <= Current(Alloc)
  BY <1>1, <1>2, <1>3
<1>5. ASSUME NEW t \in Threads, pc[t] # "abort"
      PROVE  /\ (Current(Alloc) + 1) % (MaxUsize + 1) = Current(Alloc) + 1
             /\ (Current(Data) + 1) % (MaxUsize + 1) = Current(Data) + 1
  <2>1. Cardinality(Stuck) \in Nat /\ Cardinality(Stuck) < Cardinality(Threads)
    BY <1>1, <1>5, StuckCount, Zenon DEF WeakTypes
  <2>2. Current(Data) <= MaxUsize \div 2 + 1 + Cardinality(Stuck)
    <3> DEFINE limit == MaxUsize \div 2 + 1 + Cardinality(Stuck)
    <3>1. limit \in Int
      BY <2>1, RefCountAssumption
    <3> HIDE DEF limit
    <3>2. Current(Alloc) <= limit
      BY <1>1, Zenon DEF limit
    <3>3. Current(Data) <= limit
      BY <1>2, <1>4, <3>1, <3>2
    <3>4. QED
      BY <3>3, Zenon DEF limit
  <2>3. QED
    BY <1>1, <1>2, <1>4, <2>1, <2>2, NoWrap, Zenon
<1>6. QED
  BY <1>2, <1>4, <1>5, Zenon DEF CounterFacts

\* What the steps use of the counting.
LEMMA WeakKnows ==
  ASSUME WeakInv
  PROVE  WeakFacts
BY Holders, Owners, CountersExact, Zenon DEF WeakFacts

\* A step of t that counts what it does keeps the counters exact.
LEMMA WeakRecount ==
  ASSUME WeakInv, WeakTypes', NEW t \in Threads, Recounted(t)
  PROVE  WeakCounted'
<1>0. PICK next : \E a, d, s, p \in {-1, 0, 1} : WeakCounts(t, next, a, d, s, p)
  BY Zenon DEF Recounted
<1>1. PICK a \in {-1, 0, 1}, d \in {-1, 0, 1}, s \in {-1, 0, 1}, p \in {-1, 0, 1} :
        WeakCounts(t, next, a, d, s, p)
  BY <1>0, Zenon
<1>2. /\ \A u \in Threads \ {t} : pc'[u] = pc[u] /\ arcs'[u] = arcs[u] /\ weaks'[u] = weaks[u]
      /\ Held'[t] = Held[t] + a /\ Sure'[t] = Sure[t] + s /\ Possible'[t] = Possible[t] + p
  BY <1>1, Zenon DEF WeakCounts, WeakInv, WeakRest, WeakTypes
<1>3. /\ Held \in [Threads -> Nat] /\ Sure \in [Threads -> Nat] /\ Possible \in [Threads -> Nat]
      /\ Held' \in [Threads -> Nat] /\ Sure' \in [Threads -> Nat] /\ Possible' \in [Threads -> Nat]
  BY DEF WeakInv, WeakRest, WeakTypes, Held, Sure, Possible
<1>4. \A u \in Threads \ {t} : Held'[u] = Held[u] /\ Sure'[u] = Sure[u] /\ Possible'[u] = Possible[u]
  BY <1>2, Zenon DEF Held, Sure, Possible
<1>5. /\ Total(Held') = Total(Held) + a /\ Total(Held) \in Nat
      /\ Total(Sure') = Total(Sure) + s /\ Total(Sure) \in Nat
      /\ Total(Possible') = Total(Possible) + p /\ Total(Possible) \in Nat
  <2> HIDE DEF Held, Sure, Possible
  <2>1. Total(Held') = Total(Held) + a /\ Total(Held) \in Nat
    BY <1>2, <1>3, <1>4, ShiftTotal
  <2>2. Total(Sure') = Total(Sure) + s /\ Total(Sure) \in Nat
    BY <1>2, <1>3, <1>4, ShiftTotal
  <2>3. Total(Possible') = Total(Possible) + p /\ Total(Possible) \in Nat
    BY <1>2, <1>3, <1>4, ShiftTotal
  <2>4. QED
    BY <2>1, <2>2, <2>3, Zenon
<1>6. /\ Current(Alloc) = Total(Held)
      /\ Total(Sure) <= Current(Data) /\ Current(Data) <= Total(Possible)
      /\ Current(Alloc) <= MaxUsize \div 2 + 1 + Cardinality(Stuck)
  BY Zenon DEF WeakInv, WeakCounted
<1>7. Current(Data) \in Nat
  BY MemoryParts, Zenon
     DEF WeakInv, WeakRest, WeakTypes, Current, Data, Locations, Messages
<1>8. /\ Current(Alloc)' = Current(Alloc) + a /\ Current(Data)' = Current(Data) + d /\ s <= d /\ d <= p
      /\ a = 1 => next = "abort" \/ Current(Alloc) <= MaxUsize \div 2
  BY <1>1, Zenon DEF WeakCounts
<1>9. /\ Cardinality(Stuck) \in Nat
      /\ next = "abort" => Cardinality(Stuck') = Cardinality(Stuck) + 1
      /\ next # "abort" => Stuck' = Stuck
  <2>1. DOMAIN pc = Threads /\ pc[t] # "abort" /\ pc' = [pc EXCEPT ![t] = next]
    BY <1>1, Zenon DEF WeakCounts, WeakInv, WeakRest, WeakTypes
  <2>2. QED
    BY <2>1, StuckCount, Zenon
<1>10. Total(Sure') <= Current(Data)' /\ Current(Data)' <= Total(Possible') /\ Current(Alloc)' = Total(Held')
  BY <1>5, <1>6, <1>7, <1>8
<1>11. Current(Alloc)' <= MaxUsize \div 2 + 1 + Cardinality(Stuck')
  <2> DEFINE half == MaxUsize \div 2
             c == Current(Alloc)
             k == Cardinality(Stuck)
             k2 == Cardinality(Stuck')
  <2>1. /\ half \in Nat /\ c \in Nat /\ k \in Nat /\ c <= half + 1 + k
        /\ a = 1 => next = "abort" \/ c <= half
        /\ next = "abort" => k2 = k + 1
        /\ next # "abort" => k2 = k
    BY <1>5, <1>6, <1>8, <1>9, RefCountAssumption
  <2> HIDE DEF half, c, k, k2
  <2>2. c + a <= half + 1 + k2
    BY <2>1
  <2>3. QED
    BY <1>8, <2>2, Zenon DEF half, c, k2
<1>12. QED
  BY <1>10, <1>11, Zenon DEF WeakCounted

\* Every step of every thread of 06-02 keeps the invariant.
THEOREM WeakInvariance == Spec => []WeakInv
<1>1. WeakInv /\ [Next]_rcVars => WeakInv'
  <2> SUFFICES ASSUME WeakInv, [Next]_rcVars
               PROVE  WeakInv'
    BY Zenon
  <2>1. WeakRest /\ WeakFacts /\ RmwLaw /\ LoadLaw /\ AccessLaw /\ FencedLaw /\ ContinueLaw
    BY WeakKnows, LeastNumber, MemoryLaws, Zenon DEF WeakInv
  <2>2. ASSUME NEW t \in Threads, WeakRest', Recounted(t)
        PROVE  WeakInv'
    BY <2>2, WeakRecount, Zenon DEF WeakInv, WeakRest
  <2>3. ASSUME NEW t \in Threads, Straight(t)
        PROVE  WeakInv'
    <3>1. CASE Clone(t) \/ CloneWeak(t) \/ Downgrade(t) \/ UpgradeClone(t)
      BY <2>1, <2>2, <3>1, AllocAddPreserves, Zenon
    <3>2. CASE CloneData(t) \/ UpgradeExchange(t, 0, "upgrade_clone")
      BY <2>1, <2>2, <3>2, DataAddPreserves, Zenon
    <3>3. CASE Upgrade(t) \/ UpgradeFails(t)
      BY <2>1, <2>2, <3>3, UpgradeLoadPreserves, Zenon
    <3>4. CASE Abort(t)
      BY <3>4, WeakQuiet, Zenon DEF Abort, handleVars
    <3>5. CASE GetMut(t)
      BY <2>1, <2>2, <3>5, WeakGetMutPreserves, Zenon
    <3>6. CASE Mutate(t) \/ DropValue(t, "drop_weak") \/ Free(t)
      BY <2>1, <2>2, <3>6, WeakWritePreserves, Zenon
    <3>7. CASE DropArc(t, "drop_weak")
      BY <2>1, <2>2, <3>7, WeakDropArcPreserves, Zenon
    <3>8. CASE DropWeak(t) \/ DropInnerWeak(t)
      BY <2>1, <2>2, <3>8, WeakDropPreserves, Zenon
    <3>9. QED
      BY <2>3, <3>1, <3>2, <3>3, <3>4, <3>5, <3>6, <3>7, <3>8 DEF Straight
  <2>4. ASSUME NEW t \in Threads, \E i \in Loadable(mem, t, "data_ref_count", Relaxed) : UpgradeRetry(t, i)
        PROVE  WeakInv'
    BY <2>1, <2>2, <2>4, UpgradeLoadPreserves DEF Data
  <2>5. CASE UNCHANGED rcVars
    BY <2>5, WeakQuiet, Zenon DEF rcVars, handleVars, endVars
  <2>6. QED
    BY <2>3, <2>4, <2>5, Zenon DEF Next, Step
<1>2. QED
  BY <1>1, WeakStart, PTL DEF Spec

\* The writes through get_mut(), the drop of the value and the release of the
\* memory in 06-02 race with nothing.
THEOREM WeakRaceFree == Spec => []NoDataRace
BY WeakInvariance, WeakKnows, WeakSafe, PTL

\* get_mut() in 06-02 returns a reference only to the owner of the only handle,
\* Arc or Weak.
THEOREM WeakGetMutExclusive == Spec => []GetMutIsExclusive
BY WeakInvariance, WeakKnows, WeakSafe, PTL

\* The value of 06-02 is dropped once, after the last Arc, and its memory is
\* freed once, after the last handle, whatever upgrade() does in between.
THEOREM WeakAlive == Spec => []AliveWhileOwned
BY WeakInvariance, WeakKnows, WeakSafe, PTL

\* data_ref_count and alloc_ref_count of 06-02 stay below usize::MAX.
THEOREM WeakCountsWithinLimit == Spec => []CountsWithinLimit
BY WeakInvariance, WeakKnows, WeakSafe, PTL

=============================================================================
