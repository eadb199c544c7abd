--------------------------- MODULE SpinLockProofs ---------------------------
(***************************************************************************)
(* The spin locks of chapter 4 exclude, order and make atomic what is done *)
(* under a guard, for any number of workers and of pushes.                 *)
(***************************************************************************)
EXTENDS SpinLock, TLAPS

Labels == {"join", "lock", "push", "store", "assert", "unlock", "done"}

Vectors == Seq(Workers \X Nat)

Types ==
  /\ locked \in BOOLEAN
  /\ value \in Vectors
  /\ pc \in [Threads -> Labels]
  /\ tmp \in [Workers -> Vectors]
  /\ pushed \in [Workers -> Nat]
  /\ hb \in [Threads -> SUBSET Threads]
  /\ view \subseteq Threads

Holds(t) == pc[t] \in {"push", "store", "assert", "unlock"}

\* At most one thread has a guard, and locked is set while one does.
Exclusive ==
  /\ \A t, u \in Threads : Holds(t) /\ Holds(u) => t = u
  /\ locked <=> \E t \in Threads : Holds(t)

\* The owner is ordered after every access; without one, the last store to
\* locked publishes every access.
Ordered ==
  /\ \A t \in Threads : Holds(t) => hb[t] = Threads
  /\ (\A t \in Threads : ~Holds(t)) => view = Threads

\* From index k on, the vector has the items 1 to n of w.
Block(w, k, n) ==
  /\ k + n <= Len(value)
  /\ \A i \in 1..n : value[k + i] = <<w, i>>

\* What a worker has pushed so far stands at the end of the vector while it
\* pushes, and somewhere in it when it is done.
Blocks ==
  \A w \in Workers :
    /\ pc[w] = "lock" => pushed[w] = 0
    /\ pc[w] = "store" => tmp[w] = value
    /\ pc[w] \in {"push", "store"} =>
         /\ pushed[w] < Pushes[w]
         /\ \E k \in Nat : k + pushed[w] = Len(value) /\ Block(w, k, pushed[w])
    /\ pc[w] \in {"unlock", "done"} => \E k \in Nat : Block(w, k, Pushes[w])
    /\ pc[w] \notin {"join", "assert"}

MainLabels == pc[Main] \notin {"push", "store"}

IInv == Types /\ Exclusive /\ Ordered /\ Blocks /\ MainLabels

\* Either lock.
AnyNext == SwapNext \/ ExchangeNext

USE SpinLockAssumption DEF Threads, Goto

\* SpinLock::new(): the lock is free and the vector empty.
LEMMA InitInv == Init => IInv
<1> SUFFICES ASSUME Init
             PROVE  IInv
  OBVIOUS
<1>1. \A t \in Threads : pc[t] \in {"join", "lock"}
  BY DEF Init
<1>2. Types
  <2>1. <<>> \in Vectors
    BY DEF Vectors
  <2>2. QED
    BY <2>1 DEF Init, Types, Labels
<1>3. Exclusive /\ Ordered
  BY <1>1 DEF Init, Exclusive, Ordered, Holds
<1>4. Blocks /\ MainLabels
  BY <1>1 DEF Init, Blocks, MainLabels
<1>5. QED
  BY <1>2, <1>3, <1>4 DEF IInv

\* Steps that leave the vector alone keep the blocks, unless they move a worker
\* between the labels that Blocks tells apart.
LEMMA SameBlocks ==
  ASSUME IInv, Types', value' = value, pushed' = pushed, tmp' = tmp,
         NEW t \in Threads,
         pc' = [pc EXCEPT ![t] = pc'[t]],
         \/ t = Main /\ pc'[Main] \notin {"push", "store"}
         \/ pc'[t] = pc[t]
         \/ pc[t] = "unlock" /\ pc'[t] = "done"
         \/ pc[t] = "lock" /\ t # Main /\ pc'[t] = "push"
  PROVE  Blocks' /\ MainLabels'
<1>1. \A w \in Workers, k, n \in Nat : Block(w, k, n)' <=> Block(w, k, n)
  BY DEF Block
<1>2. ASSUME NEW w \in Workers, w = t, pc[w] = "lock", pc'[w] = "push"
      PROVE  \E k \in Nat : k + pushed'[w] = Len(value') /\ Block(w, k, pushed[w])'
  <2>1. pushed[w] = 0 /\ Len(value) \in Nat
    BY <1>2 DEF IInv, Blocks, Types, Vectors
  <2>2. Block(w, Len(value), 0)'
    BY <2>1 DEF Block
  <2>3. QED
    BY <2>1, <2>2
<1>3. MainLabels'
  BY DEF IInv, MainLabels, Types
<1>4. ASSUME NEW w \in Workers
      PROVE  /\ pc'[w] = "lock" => pushed'[w] = 0
             /\ pc'[w] = "store" => tmp'[w] = value'
             /\ pc'[w] \in {"push", "store"} =>
                  /\ pushed'[w] < Pushes[w]
                  /\ \E k \in Nat : k + pushed'[w] = Len(value') /\ Block(w, k, pushed[w])'
             /\ pc'[w] \in {"unlock", "done"} => \E k \in Nat : Block(w, k, Pushes[w])'
             /\ pc'[w] \notin {"join", "assert"}
  <2>1. CASE pc'[w] = pc[w]
    BY <1>1, <2>1 DEF IInv, Blocks, Types
  <2>2. CASE w = t /\ pc[w] = "lock" /\ pc'[w] = "push"
    BY <1>2, <2>2 DEF IInv, Blocks, Types
  <2>3. CASE w = t /\ pc[w] = "unlock" /\ pc'[w] = "done"
    BY <1>1, <2>3 DEF IInv, Blocks
  <2>4. QED
    BY <2>1, <2>2, <2>3 DEF IInv, Types
<1>5. QED
  BY <1>3, <1>4 DEF Blocks

\* while locked.swap(true, Acquire), or compare_exchange_weak: whoever finds
\* false is alone and acquires a view of all accesses.
LEMMA LockStep ==
  ASSUME IInv, NEW t \in Threads, Swap(t) \/ Exchange(t)
  PROVE  IInv'
<1>1. Types'
  <2>1. pc' \in [Threads -> Labels]
    BY DEF IInv, Types, Labels, Swap, Exchange, Guarded
  <2>2. hb' \in [Threads -> SUBSET Threads]
    BY DEF IInv, Types, Swap, Exchange, AfterAcquire
  <2>3. QED
    BY <2>1, <2>2 DEF IInv, Types, Swap, Exchange
<1>2. Exclusive' /\ Ordered'
  BY DEF IInv, Types, Labels, Exclusive, Ordered, Holds, Swap, Exchange, Guarded,
     AfterAcquire
<1>3. Blocks' /\ MainLabels'
  BY <1>1, SameBlocks DEF IInv, Types, Swap, Exchange, Guarded
<1>4. QED
  BY <1>1, <1>2, <1>3 DEF IInv

\* The halves of Vec::push.
LEMMA PushStep ==
  ASSUME IInv, NEW w \in Workers, PushRead(w) \/ PushStore(w)
  PROVE  IInv'
<1>1. CASE PushRead(w)
  <2> USE <1>1 DEF PushRead, Deref, AfterAccess, ViewAfterAccess
  <2>1. Types'
    BY DEF IInv, Types, Labels
  <2>2. Exclusive' /\ Ordered'
    BY DEF IInv, Types, Labels, Exclusive, Ordered, Holds
  <2>3. Blocks'
    <3>1. \A v \in Workers, k, n \in Nat : Block(v, k, n)' <=> Block(v, k, n)
      BY DEF Block
    <3>2. /\ pc[w] = "push" /\ pc'[w] = "store" /\ tmp'[w] = value /\ value' = value
          /\ \A v \in Workers \ {w} : pc'[v] = pc[v] /\ tmp'[v] = tmp[v]
      BY DEF IInv, Types
    <3>3. QED
      BY <3>1, <3>2 DEF IInv, Types, Blocks
  <2>4. QED
    BY <2>1, <2>2, <2>3 DEF IInv, MainLabels, Types
<1>2. CASE PushStore(w)
  <2> USE <1>2 DEF PushStore, Deref, AfterAccess, ViewAfterAccess
  <2>1. tmp[w] = value /\ value \in Vectors /\ pushed[w] \in Nat
    BY DEF IInv, Types, Blocks
  <2>2. /\ value' = Append(value, <<w, pushed[w] + 1>>)
        /\ value' \in Vectors
        /\ Len(value') = Len(value) + 1
        /\ value'[Len(value) + 1] = <<w, pushed[w] + 1>>
        /\ \A i \in 1..Len(value) : value'[i] = value[i]
    BY <2>1 DEF Vectors
  <2>3. Types'
    BY <2>2 DEF IInv, Types, Labels
  <2>4. Exclusive' /\ Ordered'
    BY DEF IInv, Types, Labels, Exclusive, Ordered, Holds
  <2>5. \A v \in Workers, k, n \in Nat : Block(v, k, n) => Block(v, k, n)'
    <3>1. SUFFICES ASSUME NEW v \in Workers, NEW k \in Nat, NEW n \in Nat, Block(v, k, n)
                   PROVE  Block(v, k, n)'
      OBVIOUS
    <3>2. Len(value) \in Nat /\ k + n <= Len(value)
      BY <2>1, <3>1 DEF Block, Vectors
    <3>3. \A i \in 1..n : k + i \in 1..Len(value)
      BY <3>2
    <3>4. \A i \in 1..n : value'[k + i] = <<v, i>>
      BY <2>2, <3>1, <3>3 DEF Block
    <3>5. k + n <= Len(value')
      BY <2>2, <3>2
    <3>6. QED
      BY <3>4, <3>5 DEF Block
  <2>6. PICK k \in Nat : k + pushed[w] = Len(value) /\ Block(w, k, pushed[w])
    BY DEF IInv, Blocks
  <2>7. pushed'[w] = pushed[w] + 1 /\ pushed[w] < Pushes[w] /\ Pushes[w] \in Nat
    BY DEF IInv, Types, Blocks
  <2>8. \A v \in Workers \ {w} : pc'[v] = pc[v] /\ pushed'[v] = pushed[v] /\ ~Holds(v)
    BY DEF IInv, Types, Exclusive, Holds
  <2>9. k + pushed'[w] = Len(value') /\ Block(w, k, pushed[w])'
    <3>1. Len(value) \in Nat
      BY <2>1 DEF Vectors
    <3>2. \A i \in 1..pushed[w] : k + i \in 1..Len(value)
      BY <2>1, <2>6, <3>1
    <3>3. \A i \in 1..pushed[w] : value'[k + i] = <<w, i>>
      BY <2>2, <2>6, <3>2 DEF Block
    <3>4. value'[k + (pushed[w] + 1)] = <<w, pushed[w] + 1>>
      <4>1. k + (pushed[w] + 1) = Len(value) + 1
        BY <2>1, <2>6, <3>1
      <4>2. QED
        BY <2>2, <4>1
    <3>5. \A i \in 1..(pushed[w] + 1) : i \in 1..pushed[w] \/ i = pushed[w] + 1
      BY <2>1
    <3>6. QED
      <4>1. \A i \in 1..pushed'[w] : value'[k + i] = <<w, i>>
        BY <2>7, <3>3, <3>4, <3>5
      <4>2. k + pushed'[w] = Len(value') /\ k + pushed'[w] <= Len(value')
        BY <2>1, <2>2, <2>6, <2>7, <3>1
      <4>3. QED
        BY <4>1, <4>2 DEF Block
  <2>10. Blocks'
    <3>1. ASSUME NEW v \in Workers, v # w
          PROVE  /\ pc'[v] = "lock" => pushed'[v] = 0
                 /\ pc'[v] \notin {"push", "store", "unlock", "join", "assert"}
                 /\ pc'[v] = "done" => \E j \in Nat : Block(v, j, Pushes[v])'
      BY <2>5, <2>8, <3>1 DEF IInv, Blocks, Holds
    <3>2. pc'[w] = IF pushed[w] + 1 < Pushes[w] THEN "push" ELSE "unlock"
      BY DEF IInv, Types
    <3>3. CASE pushed[w] + 1 < Pushes[w]
      <4>1. pc'[w] = "push" /\ pushed'[w] < Pushes[w]
        BY <2>7, <3>2, <3>3
      <4>2. QED
        BY <2>9, <3>1, <4>1 DEF Blocks
    <3>4. CASE ~(pushed[w] + 1 < Pushes[w])
      <4>1. Pushes[w] = pushed'[w]
        BY <2>1, <2>7, <3>4
      <4>2. Block(w, k, Pushes[w])'
        BY <2>9, <4>1 DEF Block
      <4>3. QED
        BY <3>1, <3>2, <3>4, <4>2 DEF Blocks
    <3>5. QED
      BY <3>3, <3>4
  <2>11. QED
    BY <2>3, <2>4, <2>10 DEF IInv, MainLabels, Types
<1>3. QED
  BY <1>1, <1>2

\* main() joins and asserts, and whoever has a guard drops it.
LEMMA EndStep ==
  ASSUME IInv, NEW t \in Threads, (t = Main /\ (Join \/ Assert)) \/ Unlock(t)
  PROVE  IInv'
<1>1. Types'
  <2>1. pc' \in [Threads -> Labels]
    BY DEF IInv, Types, Labels, Join, Assert, Unlock
  <2>2. hb' \in [Threads -> SUBSET Threads] /\ view' \subseteq Threads
    BY DEF IInv, Types, Join, Assert, Unlock, Deref, AfterAccess, ViewAfterAccess,
       AfterJoin,
           ReleaseStoreView
  <2>3. QED
    BY <2>1, <2>2 DEF IInv, Types, Join, Assert, Unlock
<1>2. Exclusive' /\ Ordered'
  BY DEF IInv, Types, Labels, Exclusive, Ordered, Holds, Join, Assert, Unlock, Deref,
         AfterAccess, ViewAfterAccess, AfterJoin, ReleaseStoreView
<1>3. Blocks' /\ MainLabels'
  BY <1>1, SameBlocks DEF IInv, Types, Join, Assert, Unlock
<1>4. QED
  BY <1>1, <1>2, <1>3 DEF IInv

\* The invariant of both locks.
LEMMA StepInv == IInv /\ [AnyNext]_vars => IInv'
<1>1. ASSUME IInv, UNCHANGED vars
      PROVE  IInv'
  <2> USE <1>1 DEF vars
  <2>1. Types' /\ MainLabels'
    BY DEF IInv, Types, MainLabels
  <2>2. Exclusive' /\ Ordered'
    BY DEF IInv, Exclusive, Ordered, Holds
  <2>3. \A w \in Workers, k, n \in Nat : Block(w, k, n)' <=> Block(w, k, n)
    BY DEF Block
  <2>4. Blocks'
    BY <2>3 DEF IInv, Types, Blocks
  <2>5. QED
    BY <2>1, <2>2, <2>4 DEF IInv
<1>2. QED
  BY <1>1, LockStep, PushStep, EndStep
     DEF AnyNext, SwapNext, ExchangeNext, GuardStep, ExchangeFails, Terminated

\* It contains what is asked of the locks.
LEMMA SafeInv == IInv => NoDataRace /\ GuardIsAtomic
<1> SUFFICES ASSUME IInv
             PROVE  NoDataRace /\ GuardIsAtomic
  OBVIOUS
<1>1. NoDataRace
  BY DEF IInv, Ordered, Holds, NoDataRace
<1>2. ASSUME NEW w \in Workers, pc[w] \in {"unlock", "done"}
      PROVE  \E k \in 0..Len(value) :
               /\ k + Pushes[w] <= Len(value)
               /\ \A i \in 1..Pushes[w] : value[k + i] = <<w, i>>
  <2>1. PICK k \in Nat : Block(w, k, Pushes[w])
    BY <1>2 DEF IInv, Blocks
  <2>2. k \in 0..Len(value)
    BY <2>1 DEF Block, IInv, Types, Vectors
  <2>3. QED
    BY <2>1, <2>2 DEF Block
<1>3. QED
  BY <1>1, <1>2 DEF GuardIsAtomic

\* No access through a guard of the locks of chapter 4 races.
THEOREM SpinLockRaceFree == SwapSpec \/ ExchangeSpec => []NoDataRace
<1>1. ([SwapNext]_vars => [AnyNext]_vars) /\ ([ExchangeNext]_vars => [AnyNext]_vars)
  BY DEF AnyNext
<1>2. QED
  BY <1>1, InitInv, StepInv, SafeInv, PTL DEF SwapSpec, ExchangeSpec

\* What a thread pushes under one guard stays together, and none of it is lost.
THEOREM SpinLockAtomic == SwapSpec \/ ExchangeSpec => []GuardIsAtomic
<1>1. ([SwapNext]_vars => [AnyNext]_vars) /\ ([ExchangeNext]_vars => [AnyNext]_vars)
  BY DEF AnyNext
<1>2. QED
  BY <1>1, InitInv, StepInv, SafeInv, PTL DEF SwapSpec, ExchangeSpec
=============================================================================
