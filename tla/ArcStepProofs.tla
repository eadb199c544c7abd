--------------------------- MODULE ArcStepProofs ----------------------------
(***************************************************************************)
(* The steps of the Arcs of 06-01 (BasicArc) and 06-02 (WeakArc) keep the  *)
(* inductive invariants that are defined here.  What an operation makes of *)
(* the memory, and what the counters say of the handles, are hypotheses of *)
(* these lemmas.  The former, the laws, are proved at the end; module      *)
(* ArcProofs proves the latter, the facts, and the theorems.               *)
(***************************************************************************)
EXTENDS BasicArc, WeakArc, Integers, TLAPS

-----------------------------------------------------------------------------
(* The memory. *)

Locations == {"data_ref_count", "alloc_ref_count"}
Kinds == {"read", "write"}
Views == [at : [Locations -> Nat \ {0}], hb : SUBSET (Kinds \X Threads)]
Messages == [val : Nat, view : Views]
Memory == [mo : [Locations -> Seq(Messages) \ {<<>>}],
           view : [Threads -> Views], pend : [Threads -> Views]]

Data == "data_ref_count"
Alloc == "alloc_ref_count"

Accesses(t) == Kinds \X {t}

\* Of the messages of x that t may load, only the newest one can be 1.
Fresh(m, t, x) ==
  \A i \in m.view[t].at[x]..Len(m.mo[x]) : m.mo[x][i].val = 1 => i = Len(m.mo[x])

\* r is m after a read-modify-write: there is a new message, which publishes at
\* least what the one before it does.
RmwResult(m, t, x, v, ord, r) ==
  /\ r \in Memory
  /\ Len(r.mo[x]) = Len(m.mo[x]) + 1
  /\ \A i \in 1..Len(m.mo[x]) : r.mo[x][i] = m.mo[x][i]
  /\ Newest(r, x).val = v
  /\ Newest(r, x).view.hb = IF ord = Release THEN m.view[t].hb \cup Newest(m, x).view.hb
                                             ELSE Newest(m, x).view.hb
  /\ \A y \in Locations \ {x} : r.mo[y] = m.mo[y]
  /\ r.view[t].at[x] = Len(r.mo[x])
  /\ \A y \in Locations \ {x} : r.view[t].at[y] = m.view[t].at[y]
  /\ r.view[t].hb = m.view[t].hb
  /\ r.pend[t].hb = m.pend[t].hb \cup Newest(m, x).view.hb
  /\ \A u \in Threads \ {t} : r.view[u] = m.view[u] /\ r.pend[u] = m.pend[u]

\* What may be loaded after it.
RmwLoads(m, t, x, r) ==
  /\ \A u \in Threads : u = t \/ (Fresh(m, u, x) /\ Newest(m, x).val # 1) => Fresh(r, u, x)
  /\ \A u \in Threads, y \in Locations \ {x} : Fresh(m, u, y) => Fresh(r, u, y)

\* r is m after t has loaded the i-th value of x with Relaxed: the accesses of
\* the message are left to the next fence.
LoadResult(m, t, x, i, r) ==
  /\ r \in Memory
  /\ r.mo = m.mo
  /\ r.view[t].at[x] = i
  /\ \A y \in Locations \ {x} : r.view[t].at[y] = m.view[t].at[y]
  /\ r.view[t].hb = m.view[t].hb
  /\ r.pend[t].hb = m.pend[t].hb \cup m.mo[x][i].view.hb
  /\ \A u \in Threads \ {t} : r.view[u] = m.view[u] /\ r.pend[u] = m.pend[u]

\* r is m after the access a of t.
AccessResult(m, t, a, r) ==
  /\ r \in Memory
  /\ \A x \in Locations : /\ Newest(r, x).val = Newest(m, x).val
                          /\ Newest(r, x).view.hb = Newest(m, x).view.hb \ {a}
  /\ r.view[t].hb = m.view[t].hb \cup {a}
  /\ \A u \in Threads : r.pend[u].hb = m.pend[u].hb \ {a}
  /\ \A u \in Threads \ {t} : r.view[u].hb = m.view[u].hb \ {a}
  /\ \A u \in Threads, x \in Locations : Fresh(m, u, x) => Fresh(r, u, x)

\* r is m after a fence and a write of t, which is ordered after what t has read.
FencedResult(m, t, r) ==
  /\ r \in Memory
  /\ \A x \in Locations : /\ Newest(r, x).val = Newest(m, x).val
                          /\ Newest(r, x).view.hb = Newest(m, x).view.hb \ {<<"write", t>>}
  /\ r.view[t].hb = m.view[t].hb \cup m.pend[t].hb \cup {<<"write", t>>}
  /\ \A u \in Threads \ {t} : r.view[u].hb = m.view[u].hb \ {<<"write", t>>}
  /\ \A u \in Threads, x \in Locations : Fresh(m, u, x) => Fresh(r, u, x)

\* What Continue makes of memory m.
ContinueResult(m, t, next) ==
  /\ mem' \in Memory
  /\ \A x \in Locations : /\ Newest(mem', x).val = Newest(m, x).val
                          /\ Newest(mem', x).view.hb = Newest(m, x).view.hb
  /\ \A u \in Live' : /\ mem'.view[u].hb = m.view[u].hb
                      /\ u # t \/ next # "idle" => mem'.pend[u].hb = m.pend[u].hb
                      /\ \A x \in Locations : Fresh(m, u, x) => Fresh(mem', u, x)

\* The operations on the memory have these results.
RmwLaw ==
  \A m \in Memory, t \in Threads, x \in Locations, v \in Nat, ord \in {Relaxed, Release} :
    /\ RmwResult(m, t, x, v, ord, Rmw(m, t, x, v, ord))
    /\ RmwLoads(m, t, x, Rmw(m, t, x, v, ord))

LoadLaw ==
  \A m \in Memory, t \in Threads, x \in Locations : \A i \in Loadable(m, t, x, Relaxed) :
    /\ i \in 1..Len(m.mo[x])
    /\ LoadResult(m, t, x, i, Load(m, t, x, i, Relaxed))
    /\ \A u \in Threads, y \in Locations : Fresh(m, u, y) => Fresh(Load(m, t, x, i, Relaxed), u, y)

AccessLaw ==
  \A m \in Memory, t \in Threads, a \in Kinds \X Threads : AccessResult(m, t, a, Access(m, t, a))

FencedLaw ==
  \A m \in Memory, t \in Threads : FencedResult(m, t, Access(Fence(m, t), t, <<"write", t>>))

ContinueLaw ==
  \A m \in Memory, t \in Threads : \A next : Continue(t, m, next) => ContinueResult(m, t, next)

\* A set of numbers has a least one.
Least(S) == CHOOSE i \in S : \A j \in S : i <= j

LeastLaw == \A S \in SUBSET Nat : S # {} => Least(S) \in S /\ \A y \in S : Least(S) <= y

\* The two counters are different locations.
LEMMA Counters == Data \in Locations /\ Alloc \in Locations /\ Data # Alloc
BY Zenon DEF Data, Alloc, Locations

-----------------------------------------------------------------------------
(* The inductive invariant of BasicArc. *)

\* What each thread t has w[t] of, as pairs of an owner and a number, and how
\* many there are.
Tokens(w) == UNION {{t} \X (1..w[t]) : t \in Threads}
Total(w) == Cardinality(Tokens(w))

\* The threads whose clone() has counted a handle that it will not return.
Stuck == {t \in Threads : pc[t] = "abort"}

Labels == {"idle", "abort", "mut", "drop_value", "free"}

Types ==
  /\ mem \in Memory
  /\ pc \in [Threads -> Labels]
  /\ arcs \in [Threads -> Nat]
  /\ weaks = [t \in Threads |-> 0]

\* The counter counts the Arcs.
Counted == Current(Data) = Total(arcs) + Cardinality(Stuck)

\* The thread that has dropped the last Arc is alone; before that, nothing is
\* dropped, and after it everything is.
Phase ==
  /\ Current(Data) > 0 => /\ dropped = 0 /\ freed = 0
                          /\ \A t \in Threads : pc[t] \notin {"drop_value", "free"}
  /\ \A t, u \in Threads : pc[t] \in {"drop_value", "free"} /\ t # u => pc[u] = "idle"
  /\ \A t \in Threads : /\ pc[t] = "drop_value" => dropped = 0 /\ freed = 0
                        /\ pc[t] = "free" => dropped = 1 /\ freed = 0
  /\ Current(Data) = 0 /\ (\A t \in Threads : pc[t] = "idle") => dropped = 1 /\ freed = 1

\* The thread in get_mut() has the only Arc.
Alone ==
  \A t \in Threads :
    pc[t] = "mut" => arcs[t] = 1 /\ \A u \in Threads \ {t} : pc[u] = "idle" /\ arcs[u] = 0

Loads == \A t \in Threads : arcs[t] > 0 => Fresh(mem, t, Data)

\* The newest message publishes the accesses of the threads that have no Arc any
\* more.  A thread is ordered after its own accesses; one that has or is the
\* last one is, with a fence, ordered after those of the others.
Ordered ==
  /\ Current(Data) > 0 =>
       \A t \in Threads : pc[t] = "idle" /\ arcs[t] = 0 => Accesses(t) \subseteq Newest(mem, Data).view.hb
  /\ \A t \in Live : Accesses(t) \subseteq mem.view[t].hb
  /\ \A t \in Threads :
       pc[t] \in {"mut", "drop_value", "free"} =>
         \A u \in Threads \ {t} : Accesses(u) \subseteq mem.view[t].hb \cup mem.pend[t].hb

BasicRest == Types /\ Phase /\ Alone /\ Loads /\ Ordered

BasicInv == BasicRest /\ Counted /\ CountWithinLimit

\* What Counted says of thread t when it has an Arc: the others have theirs, or
\* are done with it, and if the counter is 1 then they have none.
LastOne(t) ==
  /\ Current(Data) > 0
  /\ \A u \in Threads : pc[u] \in {"idle", "abort", "mut"}
  /\ \A u \in Threads \ {t} : pc[u] # "mut"
  /\ Current(Data) = 1 => /\ arcs[t] = 1
                          /\ \A u \in Threads \ {t} : arcs[u] = 0 /\ pc[u] = "idle"

\* What the steps use of the counting: also, that it does not wrap around.
BasicFacts ==
  /\ Current(Data) \in Nat
  /\ \A t \in Threads : /\ arcs[t] > 0 => LastOne(t)
                        /\ pc[t] = "abort" => Current(Data) > 0
  /\ \A t \in Threads : pc[t] # "abort" => (Current(Data) + 1) % (MaxUsize + 1) = Current(Data) + 1

\* A step of t, to label next, counts by d what it does.
BasicCounts(t, next, d) ==
  /\ pc[t] # "abort" /\ pc' = [pc EXCEPT ![t] = next]
  /\ Current(Data)' = Current(Data) + d
  /\ IF next = "abort" THEN d = 1 /\ arcs' = arcs
                       ELSE arcs' \in [Threads -> Nat] /\ arcs'[t] = arcs[t] + d /\ \A u \in Threads \ {t} : arcs'[u] = arcs[u]
  /\ d = 1 => next = "abort" \/ Current(Data) <= MaxUsize \div 2

\* Memory m after the step has what the invariant says of the loads and of the
\* accesses ...
StepOrdered(m) ==
  /\ \A u \in Threads : arcs'[u] \in Nat /\ weaks'[u] = 0
  /\ \A u \in Threads : arcs'[u] > 0 => Fresh(m, u, Data)
  /\ Newest(m, Data).val > 0 =>
       \A u \in Threads : pc'[u] = "idle" /\ arcs'[u] = 0 => Accesses(u) \subseteq Newest(m, Data).view.hb
  /\ \A u \in Threads : pc'[u] # "idle" \/ arcs'[u] > 0 => Accesses(u) \subseteq m.view[u].hb
  /\ \A u \in Threads :
       pc'[u] \in {"mut", "drop_value", "free"} =>
         \A w \in Threads \ {u} : Accesses(w) \subseteq m.view[u].hb \cup m.pend[u].hb

\* ... and what Continue does to it keeps that.
LEMMA ContinueKeeps ==
  ASSUME ContinueLaw, NEW m \in Memory, NEW t \in Threads, NEW next, Continue(t, m, next),
         pc \in [Threads -> Labels], StepOrdered(m)
  PROVE  /\ mem' \in Memory
         /\ Current(Data)' = Newest(m, Data).val
         /\ Loads' /\ Ordered'
<1> USE DEF StepOrdered
<1>1. ContinueResult(m, t, next)
  BY Zenon DEF ContinueLaw
<1>2. /\ mem' \in Memory
      /\ Newest(mem', Data).val = Newest(m, Data).val
      /\ Newest(mem', Data).view.hb = Newest(m, Data).view.hb
      /\ \A u \in Live' : /\ mem'.view[u].hb = m.view[u].hb
                          /\ u # t \/ next # "idle" => mem'.pend[u].hb = m.pend[u].hb
                          /\ Fresh(m, u, Data) => Fresh(mem', u, Data)
  BY <1>1, Counters, Zenon DEF ContinueResult
<1>3. pc' = [pc EXCEPT ![t] = next]
  BY Zenon DEF Continue
<1>4. \A u \in Threads : u \in Live' <=> pc'[u] # "idle" \/ arcs'[u] > 0
  <2>1. \A u \in Threads : arcs'[u] + weaks'[u] > 0 <=> arcs'[u] > 0
    OBVIOUS
  <2>2. QED
    BY <2>1, Zenon DEF Live
<1>5. Current(Data)' = Newest(m, Data).val
  BY <1>2, Zenon DEF Current
<1>6. Loads'
  BY <1>2, <1>4, Zenon DEF Loads
<1>7. \A u \in Live' : Accesses(u) \subseteq mem'.view[u].hb
  <2>1. Live' \subseteq Threads
    BY Zenon DEF Live
  <2>2. QED
    BY <1>2, <1>4, <2>1, Zenon
<1>8. ASSUME NEW u \in Threads, pc'[u] \in {"mut", "drop_value", "free"}
      PROVE  \A w \in Threads \ {u} : Accesses(w) \subseteq mem'.view[u].hb \cup mem'.pend[u].hb
  <2>1. u \in Live' /\ (u # t \/ next # "idle")
    BY <1>3, <1>4, <1>8, Zenon
  <2>2. QED
    BY <1>2, <1>8, <2>1, Zenon
<1>9. QED
  BY <1>2, <1>5, <1>6, <1>7, <1>8, Zenon DEF Ordered, Accesses

\* Arc::clone()
LEMMA ClonePreserves ==
  ASSUME RmwLaw, ContinueLaw, BasicRest, BasicFacts, NEW t \in Threads, BasicClone(t)
  PROVE  BasicRest' /\ \E next \in Labels, d \in {-1, 0, 1} : BasicCounts(t, next, d)
<1> DEFINE c == Current(Data)
           m == Rmw(mem, t, Data, c + 1, Relaxed)
           next == IF OverLimit(Data) THEN "abort" ELSE "idle"
<1>1. /\ pc[t] = "idle" /\ arcs[t] > 0
      /\ arcs' = [arcs EXCEPT ![t] = @ + (IF OverLimit(Data) THEN 0 ELSE 1)]
      /\ UNCHANGED <<weaks, dropped, freed>>
      /\ Continue(t, Rmw(mem, t, Data, (c + 1) % (MaxUsize + 1), Relaxed), next)
  BY Zenon DEF BasicClone, Call, Gain, FetchAdd, endVars, Data
<1>2. /\ arcs \in [Threads -> Nat] /\ pc \in [Threads -> Labels] /\ mem \in Memory
      /\ weaks = [u \in Threads |-> 0] /\ Phase /\ Loads /\ Ordered
  BY Zenon DEF BasicRest, Types
<1>3. /\ c \in Nat /\ c > 0
      /\ \A u \in Threads : pc[u] \in {"idle", "abort"}
      /\ c = 1 => \A u \in Threads \ {t} : arcs[u] = 0
  BY <1>1, Zenon DEF BasicFacts, LastOne
<1>4. Continue(t, m, next)
  <2>1. (c + 1) % (MaxUsize + 1) = c + 1
    BY <1>1, Zenon DEF BasicFacts
  <2> HIDE DEF c
  <2>2. QED
    BY <1>1, <2>1, Zenon
<1>5. pc' = [pc EXCEPT ![t] = next]
  BY <1>4, Zenon DEF Continue
<1>6. c + 1 \in Nat /\ Relaxed \in {Relaxed, Release} /\ Relaxed # Release
  BY <1>3 DEF Relaxed, Release
<1>7. RmwResult(mem, t, Data, c + 1, Relaxed, m) /\ RmwLoads(mem, t, Data, m)
  <2> HIDE DEF c
  <2> QED
    BY <1>2, <1>6, Counters, Zenon DEF RmwLaw
<1> HIDE DEF m
<1>8. /\ m \in Memory /\ Newest(m, Data).val = c + 1
      /\ Newest(m, Data).view.hb = Newest(mem, Data).view.hb
      /\ \A u \in Threads : m.view[u].hb = mem.view[u].hb
  BY <1>6, <1>7, Zenon DEF RmwResult
<1>9. \A u \in Threads : arcs[u] > 0 => Fresh(m, u, Data)
  <2> SUFFICES ASSUME NEW u \in Threads, arcs[u] > 0
               PROVE  Fresh(m, u, Data)
    BY Zenon
  <2>1. u = t \/ (Fresh(mem, u, Data) /\ Newest(mem, Data).val # 1)
    BY <1>2, <1>3 DEF Loads, Current
  <2>2. QED
    BY <1>7, <2>1, Zenon DEF RmwLoads
<1> HIDE DEF c
<1>10. \A u \in Threads : /\ arcs'[u] \in Nat /\ weaks'[u] = 0
                          /\ arcs[u] > 0 <=> arcs'[u] > 0
  BY <1>1, <1>2
<1>11. pc' \in [Threads -> Labels] /\ \A u \in Threads : pc'[u] \notin {"mut", "drop_value", "free"}
  BY <1>2, <1>3, <1>5, Zenon DEF Labels
<1>12. mem' \in Memory /\ Current(Data)' = c + 1 /\ Loads' /\ Ordered'
  <2>1. \A u \in Threads : arcs'[u] > 0 => Fresh(m, u, Data)
    BY <1>9, <1>10, Zenon
  <2>2. \A u \in Threads : pc'[u] = "idle" /\ arcs'[u] = 0 => Accesses(u) \subseteq Newest(m, Data).view.hb
    <3> SUFFICES ASSUME NEW u \in Threads, pc'[u] = "idle", arcs'[u] = 0
                 PROVE  Accesses(u) \subseteq Newest(m, Data).view.hb
      BY Zenon
    <3>1. u # t /\ arcs[u] = 0 /\ pc[u] = "idle"
      BY <1>1, <1>2, <1>5, <1>10
    <3>2. QED
      BY <1>2, <1>3, <1>8, <3>1, Zenon DEF Ordered, c
  <2>3. \A u \in Threads : pc'[u] # "idle" \/ arcs'[u] > 0 => Accesses(u) \subseteq m.view[u].hb
    <3> SUFFICES ASSUME NEW u \in Threads, pc'[u] # "idle" \/ arcs'[u] > 0
                 PROVE  Accesses(u) \subseteq m.view[u].hb
      BY Zenon
    <3>1. u \in Live
      BY <1>1, <1>2, <1>5, <1>10 DEF Live
    <3>2. QED
      BY <1>2, <1>8, <3>1, Zenon DEF Ordered
  <2> HIDE DEF next
  <2>4. StepOrdered(m)
    BY <1>2, <1>4, <1>8, <1>10, <1>11, <2>1, <2>2, <2>3, Zenon DEF StepOrdered
  <2>5. QED
    BY <1>2, <1>4, <1>8, <2>4, ContinueKeeps, Zenon
<1>13. Types'
  <2>1. arcs' \in [Threads -> Nat] /\ weaks' = [u \in Threads |-> 0]
    BY <1>1, <1>2
  <2>2. QED
    BY <1>11, <1>12, <2>1, Zenon DEF Types
<1>14. Phase' /\ Alone'
  <2>1. dropped' = 0 /\ freed' = 0
    BY <1>1, <1>2, <1>3, Zenon DEF Phase, c
  <2>2. c + 1 # 0
    BY <1>3
  <2>3. Phase'
    BY <1>11, <1>12, <2>1, <2>2, Zenon DEF Phase
  <2>4. Alone'
    BY <1>11, Zenon DEF Alone
  <2>5. QED
    BY <2>3, <2>4, Zenon
<1>15. BasicCounts(t, next, 1)
  <2>1. OverLimit(Data) \/ c <= MaxUsize \div 2
    <3> DEFINE half == MaxUsize \div 2
    <3>1. half \in Nat /\ (OverLimit(Data) <=> c > half)
      BY RefCountAssumption DEF OverLimit, c
    <3> HIDE DEF half
    <3>2. QED
      BY <1>3, <3>1 DEF half
  <2>2. CASE OverLimit(Data)
    <3>1. arcs' = arcs
      BY <1>1, <1>2, <2>2
    <3>2. QED
      BY <1>1, <1>5, <1>12, <2>2, <3>1, Zenon DEF BasicCounts, c
  <2>3. CASE ~OverLimit(Data)
    <3>1. arcs' \in [Threads -> Nat] /\ arcs'[t] = arcs[t] + 1 /\ \A u \in Threads \ {t} : arcs'[u] = arcs[u]
      BY <1>1, <1>2, <2>3
    <3>2. QED
      BY <1>1, <1>5, <1>12, <2>1, <2>3, <3>1, Zenon DEF BasicCounts, c
  <2>4. QED
    BY <2>2, <2>3, Zenon
<1>16. QED
  <2>1. next \in Labels
    BY Zenon DEF Labels
  <2>2. \E d \in {-1, 0, 1} : BasicCounts(t, next, d)
    BY <1>15, Zenon
  <2> HIDE DEF next
  <2>3. QED
    BY <1>12, <1>13, <1>14, <2>1, <2>2, Zenon DEF BasicRest

\* Arc::drop()
LEMMA DropArcPreserves ==
  ASSUME AccessLaw, RmwLaw, ContinueLaw, BasicRest, BasicFacts, NEW t \in Threads, DropArc(t, "idle")
  PROVE  BasicRest' /\ \E next \in Labels, d \in {-1, 0, 1} : BasicCounts(t, next, d)
<1> DEFINE c == Current(Data)
           a == <<"read", t>>
           m == Access(mem, t, a)
           r == Rmw(m, t, Data, c - 1, Release)
           next == IF c = 1 THEN "drop_value" ELSE "idle"
<1>1. /\ pc[t] = "idle" /\ arcs[t] > 0
      /\ arcs' = [arcs EXCEPT ![t] = @ - 1]
      /\ UNCHANGED <<weaks, dropped, freed>>
      /\ Continue(t, r, next)
  BY Zenon DEF DropArc, Lose, Deref, endVars, Data
<1>2. /\ arcs \in [Threads -> Nat] /\ pc \in [Threads -> Labels] /\ mem \in Memory
      /\ weaks = [u \in Threads |-> 0] /\ Phase /\ Loads /\ Ordered
  BY Zenon DEF BasicRest, Types
<1>3. /\ c \in Nat /\ c > 0
      /\ \A u \in Threads : pc[u] \in {"idle", "abort"}
      /\ c = 1 => arcs[t] = 1 /\ \A u \in Threads \ {t} : arcs[u] = 0 /\ pc[u] = "idle"
  BY <1>1, Zenon DEF BasicFacts, LastOne
<1>4. pc' = [pc EXCEPT ![t] = next]
  BY <1>1, Zenon DEF Continue
<1>5. AccessResult(mem, t, a, m)
  <2>1. a \in Kinds \X Threads
    BY Zenon DEF Kinds
  <2> HIDE DEF a
  <2>2. QED
    BY <1>2, <2>1, Zenon DEF AccessLaw
<1> HIDE DEF m
<1>6. RmwResult(m, t, Data, c - 1, Release, r) /\ RmwLoads(m, t, Data, r)
  <2>1. c - 1 \in Nat /\ m \in Memory /\ Release \in {Relaxed, Release}
    BY <1>3, <1>5 DEF AccessResult
  <2> HIDE DEF c
  <2>2. QED
    BY <2>1, Counters, Zenon DEF RmwLaw
<1> HIDE DEF r
<1>7. /\ r \in Memory /\ Newest(r, Data).val = c - 1
      /\ Newest(r, Data).view.hb = mem.view[t].hb \cup {a} \cup (Newest(mem, Data).view.hb \ {a})
      /\ r.view[t].hb = mem.view[t].hb \cup {a}
      /\ Newest(mem, Data).view.hb \ {a} \subseteq r.pend[t].hb
      /\ \A u \in Threads \ {t} : r.view[u].hb = mem.view[u].hb \ {a}
  <2> HIDE DEF a, c
  <2>1. /\ Newest(m, Data).view.hb = Newest(mem, Data).view.hb \ {a}
        /\ m.view[t].hb = mem.view[t].hb \cup {a}
        /\ \A u \in Threads \ {t} : m.view[u].hb = mem.view[u].hb \ {a}
    BY <1>5, Counters, Zenon DEF AccessResult
  <2>2. QED
    BY <1>6, <2>1, Zenon DEF RmwResult
<1>8. \A u \in Threads \ {t} : a \notin Accesses(u)
  BY Zenon DEF Accesses
<1>9. \A u \in Threads : /\ arcs'[u] \in Nat /\ weaks'[u] = 0
                         /\ u # t => arcs'[u] = arcs[u]
  BY <1>1, <1>2
<1>10. \A u \in Threads : arcs'[u] > 0 => Fresh(r, u, Data)
  <2> SUFFICES ASSUME NEW u \in Threads, arcs'[u] > 0
               PROVE  Fresh(r, u, Data)
    BY Zenon
  <2>1. u = t \/ (Fresh(m, u, Data) /\ Newest(m, Data).val # 1)
    <3>1. CASE u # t
      <4>1. arcs[u] > 0 /\ c # 1
        BY <1>3, <1>9, <3>1
      <4>2. Fresh(mem, u, Data) /\ Newest(mem, Data).val # 1
        BY <1>2, <4>1, Zenon DEF Loads, Current
      <4>3. QED
        BY <1>5, <4>2, Counters, Zenon DEF AccessResult
    <3>2. QED
      BY <3>1, Zenon
  <2>2. QED
    BY <1>6, <2>1, Zenon DEF RmwLoads
<1>11. pc' \in [Threads -> Labels] /\ \A u \in Threads \ {t} : pc'[u] = pc[u]
  BY <1>2, <1>4, Zenon DEF Labels
<1>12. pc'[t] = next /\ (next = "drop_value" <=> c = 1) /\ (next = "idle" <=> c # 1)
  BY <1>2, <1>4, Zenon
<1> HIDE DEF c, a, next
<1>13. mem' \in Memory /\ Current(Data)' = c - 1 /\ Loads' /\ Ordered'
  <2>1. ASSUME c - 1 > 0, NEW u \in Threads, pc'[u] = "idle", arcs'[u] = 0
        PROVE  Accesses(u) \subseteq Newest(r, Data).view.hb
    <3>1. CASE u = t
      <4>1. t \in Live
        BY <1>1, <1>2 DEF Live
      <4>2. Accesses(t) \subseteq mem.view[t].hb
        BY <1>2, <4>1, Zenon DEF Ordered
      <4>3. QED
        BY <1>7, <3>1, <4>2, Zenon
    <3>2. CASE u # t
      <4>1. Accesses(u) \subseteq Newest(mem, Data).view.hb
        BY <1>2, <1>3, <1>9, <1>11, <2>1, <3>2, Zenon DEF Ordered, c
      <4>2. QED
        BY <1>7, <1>8, <3>2, <4>1, Zenon
    <3>3. QED
      BY <3>1, <3>2, Zenon
  <2>2. ASSUME NEW u \in Threads, pc'[u] # "idle" \/ arcs'[u] > 0
        PROVE  Accesses(u) \subseteq r.view[u].hb
    <3>1. u \in Live
      BY <1>1, <1>2, <1>9, <1>11, <2>2 DEF Live
    <3>2. Accesses(u) \subseteq mem.view[u].hb
      BY <1>2, <3>1, Zenon DEF Ordered
    <3>3. QED
      BY <1>7, <1>8, <3>2, Zenon
  <2>3. ASSUME NEW u \in Threads, pc'[u] \in {"mut", "drop_value", "free"}, NEW w \in Threads \ {u}
        PROVE  Accesses(w) \subseteq r.view[u].hb \cup r.pend[u].hb
    <3>1. u = t /\ c = 1
      BY <1>3, <1>11, <1>12, <2>3, Zenon
    <3>2. Accesses(w) \subseteq Newest(mem, Data).view.hb
      BY <1>2, <1>3, <3>1, Zenon DEF Ordered, c
    <3>3. QED
      BY <1>7, <1>8, <3>1, <3>2, Zenon
  <2>4. StepOrdered(r)
    BY <1>1, <1>2, <1>7, <1>9, <1>10, <2>1, <2>2, <2>3, Zenon DEF StepOrdered
  <2>5. QED
    BY <1>1, <1>2, <1>7, <2>4, ContinueKeeps, Zenon
<1>14. arcs' \in [Threads -> Nat] /\ weaks' = [u \in Threads |-> 0]
  BY <1>1, <1>2
<1>15. Types'
  BY <1>11, <1>13, <1>14, Zenon DEF Types
<1>16. Phase' /\ Alone'
  <2>1. dropped' = 0 /\ freed' = 0
    BY <1>1, <1>2, <1>3, Zenon DEF Phase, c
  <2>2. (c - 1 > 0 <=> c # 1) /\ (c - 1 = 0 <=> c = 1)
    BY <1>3
  <2>3. /\ c # 1 => \A u \in Threads : pc'[u] \notin {"mut", "drop_value", "free"}
        /\ c = 1 => pc'[t] = "drop_value" /\ \A u \in Threads \ {t} : pc'[u] = "idle"
    BY <1>3, <1>11, <1>12, Zenon
  <2>4. Phase'
    BY <1>13, <2>1, <2>2, <2>3, SMTT(30) DEF Phase
  <2>5. Alone'
    BY <2>3, Zenon DEF Alone
  <2>6. QED
    BY <2>4, <2>5, Zenon
<1>17. next \in Labels /\ BasicCounts(t, next, -1)
  <2>1. next # "abort" /\ next \in Labels
    BY <1>12, Zenon DEF Labels
  <2>2. arcs'[t] = arcs[t] + (-1) /\ c - 1 = c + (-1)
    BY <1>1, <1>2, <1>3, Zenon
  <2>3. QED
    BY <1>1, <1>4, <1>9, <1>13, <1>14, <2>1, <2>2 DEF BasicCounts, c
<1>18. QED
  <2>1. \E d \in {-1, 0, 1} : BasicCounts(t, next, d)
    BY <1>17, Zenon
  <2>2. QED
    BY <1>13, <1>15, <1>16, <1>17, <2>1, Zenon DEF BasicRest

\* get_mut()
LEMMA GetMutPreserves ==
  ASSUME LoadLaw, ContinueLaw, BasicRest, BasicFacts, NEW t \in Threads, BasicGetMut(t)
  PROVE  BasicRest' /\ \E next \in Labels, d \in {-1, 0, 1} : BasicCounts(t, next, d)
<1> DEFINE c == Current(Data)
           l == Len(mem.mo[Data])
<1>1. PICK i \in Loadable(mem, t, Data, Relaxed) :
        Continue(t, Load(mem, t, Data, i, Relaxed), IF mem.mo[Data][i].val = 1 THEN "mut" ELSE "idle")
  BY Zenon DEF BasicGetMut, Data
<1> DEFINE r == Load(mem, t, Data, i, Relaxed)
           next == IF mem.mo[Data][i].val = 1 THEN "mut" ELSE "idle"
<1>2. pc[t] = "idle" /\ arcs[t] > 0 /\ UNCHANGED <<arcs, weaks, dropped, freed>>
  BY Zenon DEF BasicGetMut, Call, handleVars, endVars
<1>3. /\ arcs \in [Threads -> Nat] /\ pc \in [Threads -> Labels] /\ mem \in Memory
      /\ weaks = [u \in Threads |-> 0] /\ Phase /\ Loads /\ Ordered
  BY Zenon DEF BasicRest, Types
<1>4. /\ c \in Nat /\ c > 0
      /\ \A u \in Threads : pc[u] \in {"idle", "abort"}
      /\ c = 1 => arcs[t] = 1 /\ \A u \in Threads \ {t} : arcs[u] = 0 /\ pc[u] = "idle"
  BY <1>2, Zenon DEF BasicFacts, LastOne
<1>5. LoadResult(mem, t, Data, i, r) /\ \A u \in Threads : Fresh(mem, u, Data) => Fresh(r, u, Data)
  BY <1>3, Counters, Zenon DEF LoadLaw
<1>6. next = "mut" => i = l /\ c = 1 /\ Newest(mem, Data) = mem.mo[Data][i]
  <2>1. Fresh(mem, t, Data)
    BY <1>2, <1>3, Zenon DEF Loads
  <2>2. i \in mem.view[t].at[Data]..l
    BY Zenon DEF Loadable, Relaxed
  <2>3. mem.mo[Data][i].val = 1 => i = l
    BY <2>1, <2>2, Zenon DEF Fresh
  <2>4. QED
    BY <2>3, Zenon DEF Newest, Current
<1>7. next \in {"mut", "idle"} /\ Continue(t, r, next)
  BY <1>1, Zenon
<1> HIDE DEF r, next, c, l
<1>8. /\ r \in Memory /\ Newest(r, Data) = Newest(mem, Data)
      /\ r.view[t].hb = mem.view[t].hb
      /\ mem.mo[Data][i].view.hb \subseteq r.pend[t].hb
      /\ \A u \in Threads \ {t} : r.view[u] = mem.view[u]
  BY <1>5, Zenon DEF LoadResult, Newest
<1>9. pc' = [pc EXCEPT ![t] = next]
  BY <1>7, Zenon DEF Continue
<1>10. pc' \in [Threads -> Labels] /\ pc'[t] = next /\ \A u \in Threads \ {t} : pc'[u] = pc[u]
  BY <1>3, <1>7, <1>9, Zenon DEF Labels
<1>11. \A u \in Threads : arcs'[u] = arcs[u] /\ arcs'[u] \in Nat /\ weaks'[u] = 0
  BY <1>2, <1>3, Zenon
<1>12. mem' \in Memory /\ Current(Data)' = c /\ Loads' /\ Ordered'
  <2>1. ASSUME NEW u \in Threads, pc'[u] = "idle", arcs'[u] = 0
        PROVE  Accesses(u) \subseteq Newest(r, Data).view.hb
    <3>1. u # t
      BY <1>2, <1>11, <2>1, SMTT(30)
    <3>2. QED
      BY <1>3, <1>4, <1>8, <1>10, <1>11, <2>1, <3>1, Zenon DEF Ordered, c
  <2>2. ASSUME NEW u \in Threads, pc'[u] # "idle" \/ arcs'[u] > 0
        PROVE  Accesses(u) \subseteq r.view[u].hb
    <3>1. u \in Live
      BY <1>2, <1>3, <1>10, <1>11, <2>2 DEF Live
    <3>2. QED
      BY <1>3, <1>8, <3>1, Zenon DEF Ordered
  <2>3. ASSUME NEW u \in Threads, pc'[u] \in {"mut", "drop_value", "free"}, NEW w \in Threads \ {u}
        PROVE  Accesses(w) \subseteq r.view[u].hb \cup r.pend[u].hb
    <3>1. u = t /\ next = "mut"
      BY <1>4, <1>7, <1>10, <2>3, Zenon
    <3>2. Accesses(w) \subseteq Newest(mem, Data).view.hb
      BY <1>3, <1>4, <1>6, <3>1, Zenon DEF Ordered, c
    <3>3. QED
      BY <1>6, <1>8, <3>1, <3>2, Zenon
  <2>4. Newest(r, Data).val = c
    BY <1>8, Zenon DEF Current, c
  <2>5. \A u \in Threads : arcs'[u] > 0 => Fresh(r, u, Data)
    BY <1>3, <1>5, <1>11, Zenon DEF Loads
  <2>6. StepOrdered(r)
    BY <1>3, <1>7, <1>8, <1>11, <2>1, <2>2, <2>3, <2>4, <2>5, Zenon DEF StepOrdered
  <2>7. QED
    BY <1>3, <1>7, <1>8, <2>4, <2>6, ContinueKeeps, Zenon
<1>13. Types'
  BY <1>2, <1>3, <1>10, <1>12, Zenon DEF Types
<1>14. Phase' /\ Alone'
  <2>1. dropped' = 0 /\ freed' = 0
    BY <1>2, <1>3, <1>4, Zenon DEF Phase, c
  <2>2. \A u \in Threads : pc'[u] \notin {"drop_value", "free"} /\ (pc'[u] = "mut" => u = t /\ next = "mut")
    BY <1>4, <1>7, <1>10, Zenon
  <2>3. Phase'
    BY <1>4, <1>12, <2>1, <2>2, SMTT(30) DEF Phase
  <2>4. next = "mut" => arcs'[t] = 1 /\ \A u \in Threads \ {t} : pc'[u] = "idle" /\ arcs'[u] = 0
    BY <1>4, <1>6, <1>10, <1>11, Zenon
  <2>5. Alone'
    BY <2>2, <2>4, Zenon DEF Alone
  <2>6. QED
    BY <2>3, <2>5, Zenon
<1>15. next \in Labels /\ BasicCounts(t, next, 0)
  <2>1. next # "abort" /\ next \in Labels
    BY <1>7, Zenon DEF Labels
  <2>2. c = c + 0 /\ arcs' \in [Threads -> Nat] /\ arcs'[t] = arcs[t] + 0
    BY <1>2, <1>3, <1>4
  <2>3. QED
    BY <1>2, <1>9, <1>11, <1>12, <2>1, <2>2 DEF BasicCounts, c
<1>16. QED
  <2>1. \E d \in {-1, 0, 1} : BasicCounts(t, next, d)
    BY <1>15, Zenon
  <2>2. QED
    BY <1>12, <1>13, <1>14, <1>15, <2>1, Zenon DEF BasicRest

\* A fenced write, by the thread that is the only one left.
LEMMA FencedWritePreserves ==
  ASSUME FencedLaw, ContinueLaw, BasicRest, Current(Data) \in Nat,
         NEW t \in Threads, NEW next \in {"idle", "free"}, FencedWrite(t, next),
         pc[t] \in {"mut", "drop_value", "free"}, UNCHANGED <<arcs, weaks>>,
         next = "idle" => arcs[t] > 0 \/ Current(Data) = 0,
         next = "free" => Current(Data) = 0,
         \A u \in Threads \ {t} : pc[u] = "idle"
  PROVE  /\ Types' /\ Loads' /\ Ordered'
         /\ \E d \in {-1, 0, 1} : BasicCounts(t, next, d)
         /\ Current(Data)' = Current(Data)
         /\ pc'[t] = next /\ \A u \in Threads \ {t} : pc'[u] = "idle"
<1> DEFINE c == Current(Data)
           a == <<"write", t>>
           r == Access(Fence(mem, t), t, a)
<1>1. Continue(t, r, next)
  BY Zenon DEF FencedWrite
<1>2. /\ arcs \in [Threads -> Nat] /\ pc \in [Threads -> Labels] /\ mem \in Memory
      /\ weaks = [u \in Threads |-> 0] /\ Loads /\ Ordered
  BY Zenon DEF BasicRest, Types
<1>3. /\ r \in Memory
      /\ Newest(r, Data).val = Newest(mem, Data).val
      /\ Newest(r, Data).view.hb = Newest(mem, Data).view.hb \ {a}
      /\ r.view[t].hb = mem.view[t].hb \cup mem.pend[t].hb \cup {a}
      /\ \A u \in Threads \ {t} : r.view[u].hb = mem.view[u].hb \ {a}
      /\ \A u \in Threads : Fresh(mem, u, Data) => Fresh(r, u, Data)
  <2>1. FencedResult(mem, t, r)
    BY <1>2, Zenon DEF FencedLaw
  <2> HIDE DEF r
  <2>2. QED
    BY <2>1, Counters, Zenon DEF FencedResult
<1>4. \A u \in Threads \ {t} : a \notin Accesses(u)
  BY Zenon DEF Accesses
<1>5. Newest(r, Data).val = c
  BY <1>3, Zenon DEF Current
<1> HIDE DEF r, a, c
<1>6. pc' = [pc EXCEPT ![t] = next]
  BY <1>1, Zenon DEF Continue
<1>7. pc' \in [Threads -> Labels] /\ pc'[t] = next /\ \A u \in Threads \ {t} : pc'[u] = "idle"
  BY <1>2, <1>6, Zenon DEF Labels
<1>8. \A u \in Threads : arcs'[u] = arcs[u] /\ arcs'[u] \in Nat /\ weaks'[u] = 0
  BY <1>2, Zenon
<1>9. mem' \in Memory /\ Current(Data)' = c /\ Loads' /\ Ordered'
  <2>1. ASSUME c > 0, NEW u \in Threads, pc'[u] = "idle", arcs'[u] = 0
        PROVE  Accesses(u) \subseteq Newest(r, Data).view.hb
    <3>1. u # t
      BY <1>7, <1>8, <2>1, SMTT(30) DEF c
    <3>2. Accesses(u) \subseteq Newest(mem, Data).view.hb
      BY <1>2, <1>8, <2>1, <3>1, Zenon DEF Ordered, c
    <3>3. QED
      BY <1>3, <1>4, <3>1, <3>2, Zenon
  <2>2. ASSUME NEW u \in Threads, pc'[u] # "idle" \/ arcs'[u] > 0
        PROVE  Accesses(u) \subseteq r.view[u].hb
    <3>1. u \in Live
      BY <1>2, <1>7, <1>8, <2>2 DEF Live
    <3>2. Accesses(u) \subseteq mem.view[u].hb
      BY <1>2, <3>1, Zenon DEF Ordered
    <3>3. QED
      BY <1>3, <1>4, <3>2, Zenon
  <2>3. ASSUME NEW u \in Threads, pc'[u] \in {"mut", "drop_value", "free"}, NEW w \in Threads \ {u}
        PROVE  Accesses(w) \subseteq r.view[u].hb \cup r.pend[u].hb
    <3>1. u = t
      BY <1>7, <2>3, Zenon
    <3>2. Accesses(w) \subseteq mem.view[t].hb \cup mem.pend[t].hb
      BY <1>2, <3>1, Zenon DEF Ordered
    <3>3. QED
      BY <1>3, <3>1, <3>2, Zenon
  <2>4. \A u \in Threads : arcs'[u] > 0 => Fresh(r, u, Data)
    BY <1>2, <1>3, <1>8, Zenon DEF Loads
  <2>5. StepOrdered(r)
    BY <1>1, <1>2, <1>3, <1>5, <1>8, <2>1, <2>2, <2>3, <2>4, Zenon DEF StepOrdered
  <2>6. QED
    BY <1>1, <1>2, <1>3, <1>5, <2>5, ContinueKeeps, Zenon
<1>10. Types'
  BY <1>2, <1>7, <1>9, Zenon DEF Types
<1>11. BasicCounts(t, next, 0)
  <2>1. next # "abort" /\ c = c + 0 /\ arcs' \in [Threads -> Nat] /\ arcs'[t] = arcs[t] + 0
    BY <1>2 DEF c
  <2>2. QED
    BY <1>6, <1>8, <1>9, <2>1 DEF BasicCounts, c
<1>12. QED
  <2>1. \E d \in {-1, 0, 1} : BasicCounts(t, next, d)
    BY <1>11, Zenon
  <2>2. QED
    BY <1>7, <1>9, <1>10, <2>1, Zenon DEF c

\* The write through the reference that get_mut() returns, the drop of the
\* value, and the release of the memory.
LEMMA WritePreserves ==
  ASSUME FencedLaw, ContinueLaw, BasicRest, BasicFacts, NEW t \in Threads,
         Mutate(t) \/ DropValue(t, "free") \/ Free(t)
  PROVE  BasicRest' /\ \E next \in Labels, d \in {-1, 0, 1} : BasicCounts(t, next, d)
<1>1. Phase /\ Alone /\ Current(Data) \in Nat /\ "idle" \in Labels /\ "free" \in Labels
  BY Zenon DEF BasicRest, BasicFacts, Labels
<1>2. CASE Mutate(t)
  <2>1. pc[t] = "mut" /\ FencedWrite(t, "idle") /\ UNCHANGED <<arcs, weaks, dropped, freed>>
    BY <1>2, Zenon DEF Mutate, handleVars, endVars
  <2>2. arcs[t] > 0 /\ \A u \in Threads \ {t} : pc[u] = "idle" /\ arcs[u] = 0
    BY <1>1, <2>1 DEF Alone
  <2>3. /\ Types' /\ Loads' /\ Ordered'
        /\ \E d \in {-1, 0, 1} : BasicCounts(t, "idle", d)
        /\ Current(Data)' = Current(Data)
        /\ \A u \in Threads : pc'[u] = "idle"
    BY <1>1, <2>1, <2>2, FencedWritePreserves, Zenon
  <2>4. Current(Data) > 0
    BY <2>2, Zenon DEF BasicFacts, LastOne
  <2>5. Phase' /\ Alone'
    BY <1>1, <2>1, <2>3, <2>4, SMTT(30) DEF Phase, Alone
  <2>6. QED
    BY <1>1, <2>3, <2>5, Zenon DEF BasicRest
<1>3. ASSUME pc[t] \in {"drop_value", "free"}
      PROVE  Current(Data) = 0 /\ \A u \in Threads \ {t} : pc[u] = "idle"
  BY <1>1, <1>3 DEF Phase
<1>4. CASE DropValue(t, "free")
  <2>1. /\ pc[t] = "drop_value" /\ FencedWrite(t, "free") /\ UNCHANGED <<arcs, weaks, freed>>
        /\ dropped' = dropped + 1
    BY <1>4, Zenon DEF DropValue, handleVars
  <2>2. /\ Types' /\ Loads' /\ Ordered'
        /\ \E d \in {-1, 0, 1} : BasicCounts(t, "free", d)
        /\ Current(Data)' = 0
        /\ pc'[t] = "free" /\ \A u \in Threads \ {t} : pc'[u] = "idle"
    BY <1>1, <1>3, <2>1, FencedWritePreserves, Zenon
  <2>3. dropped' = 1 /\ freed' = 0
    BY <1>1, <2>1 DEF Phase
  <2>4. Phase' /\ Alone'
    BY <2>2, <2>3, SMTT(30) DEF Phase, Alone
  <2>5. QED
    BY <1>1, <2>2, <2>4, Zenon DEF BasicRest
<1>5. CASE Free(t)
  <2>1. /\ pc[t] = "free" /\ FencedWrite(t, "idle") /\ UNCHANGED <<arcs, weaks, dropped>>
        /\ freed' = freed + 1
    BY <1>5, Zenon DEF Free, handleVars
  <2>2. /\ Types' /\ Loads' /\ Ordered'
        /\ \E d \in {-1, 0, 1} : BasicCounts(t, "idle", d)
        /\ Current(Data)' = 0
        /\ \A u \in Threads : pc'[u] = "idle"
    BY <1>1, <1>3, <2>1, FencedWritePreserves, Zenon
  <2>3. dropped' = 1 /\ freed' = 1
    BY <1>1, <2>1 DEF Phase
  <2>4. Phase' /\ Alone'
    BY <2>2, <2>3, SMTT(30) DEF Phase, Alone
  <2>5. QED
    BY <1>1, <2>2, <2>4, Zenon DEF BasicRest
<1>6. QED
  BY <1>2, <1>4, <1>5, Zenon

\* The invariant says nothing of aborted.
LEMMA QuietPreserves ==
  ASSUME BasicInv, UNCHANGED <<mem, pc, arcs, weaks, dropped, freed>>
  PROVE  BasicInv'
<1>1. Live' = Live /\ Stuck' = Stuck
  BY Zenon DEF Live, Stuck
<1>2. Types' /\ Counted'
  BY <1>1, Zenon DEF BasicInv, BasicRest, Types, Counted, Current
<1>3. CountWithinLimit'
  BY Zenon DEF BasicInv, CountWithinLimit, Current
<1>4. Phase' /\ Alone'
  BY Zenon DEF BasicInv, BasicRest, Phase, Alone, Current
<1>5. Loads' /\ Ordered'
  BY <1>1, Zenon DEF BasicInv, BasicRest, Loads, Ordered, Current
<1>6. QED
  BY <1>2, <1>3, <1>4, <1>5, Zenon DEF BasicInv, BasicRest

-----------------------------------------------------------------------------
(* The inductive invariant of WeakArc. *)

WeakLabels == {"idle", "abort", "mut", "drop_value", "drop_weak", "free",
               "clone_data", "upgrade", "upgrade_clone"}

WeakTypes == /\ mem \in Memory
             /\ pc \in [Threads -> WeakLabels]
             /\ arcs \in [Threads -> Nat]
             /\ weaks \in [Threads -> Nat]

\* What alloc_ref_count counts for each thread: its handles, and the Weak in an
\* Arc that it is about to make or to drop.
Held == [t \in Threads |-> arcs[t] + weaks[t] +
           (IF pc[t] \in {"clone_data", "drop_value", "drop_weak", "abort"} THEN 1 ELSE 0)]

\* What data_ref_count counts for each thread at least, and at most: a thread on
\* its way to abort() may or may not have counted an Arc.
Sure == [t \in Threads |-> arcs[t] + (IF pc[t] = "upgrade_clone" THEN 1 ELSE 0)]
Possible == [t \in Threads |-> arcs[t] + (IF pc[t] \in {"upgrade_clone", "abort"} THEN 1 ELSE 0)]

\* The counters count that.
WeakCounted ==
  /\ Current(Alloc) = Total(Held)
  /\ Total(Sure) <= Current(Data) /\ Current(Data) <= Total(Possible)
  /\ Current(Alloc) <= MaxUsize \div 2 + 1 + Cardinality(Stuck)

\* Where a thread has a handle.
WeakLocal ==
  \A t \in Threads : /\ pc[t] \in {"upgrade", "upgrade_clone"} => weaks[t] > 0
                     /\ pc[t] = "clone_data" => arcs[t] > 0

\* The life of the value, and that of its memory.
ValuePhase ==
  /\ Current(Data) > 0 => dropped = 0 /\ \A t \in Threads : pc[t] # "drop_value"
  /\ \A t, u \in Threads : pc[t] = "drop_value" => dropped = 0 /\ (pc[u] = "drop_value" => t = u)
  /\ Current(Data) = 0 /\ (\A t \in Threads : pc[t] # "drop_value") => dropped = 1

BoxPhase ==
  /\ Current(Alloc) > 0 => freed = 0 /\ \A t \in Threads : pc[t] # "free"
  /\ \A t, u \in Threads : pc[t] = "free" => freed = 0 /\ (pc[u] = "free" => t = u)
  /\ Current(Alloc) = 0 /\ (\A t \in Threads : pc[t] # "free") => freed = 1

WeakAlone ==
  \A t \in Threads :
    pc[t] = "mut" =>
      /\ arcs[t] = 1 /\ weaks[t] = 0
      /\ \A u \in Threads \ {t} : pc[u] = "idle" /\ arcs[u] = 0 /\ weaks[u] = 0

\* A 1 that the owner of an Arc may load is the newest value of alloc_ref_count.
WeakLoads == \A t \in Threads : arcs[t] > 0 => Fresh(mem, t, Alloc)

\* data_ref_count publishes the accesses of those who have no Arc, and
\* alloc_ref_count those of the ones among them that have dropped the Weak in
\* it.  The one who gets the value for itself has read all of them.
InOrder(m, p, a, w) ==
  /\ Newest(m, Data).val > 0 =>
       \A t \in Threads : a[t] = 0 => Accesses(t) \subseteq Newest(m, Data).view.hb
  /\ Newest(m, Alloc).val > 0 =>
       \A t \in Threads : a[t] = 0 /\ p[t] \notin {"drop_value", "drop_weak"} =>
                            Accesses(t) \subseteq Newest(m, Alloc).view.hb
  /\ \A t \in Threads : p[t] # "idle" \/ a[t] + w[t] > 0 => Accesses(t) \subseteq m.view[t].hb
  /\ \A t \in Threads :
       p[t] \in {"mut", "drop_value", "free"} =>
         \A u \in Threads \ {t} : Accesses(u) \subseteq m.view[t].hb \cup m.pend[t].hb

WeakOrdered == InOrder(mem, pc, arcs, weaks)

WeakRest == /\ WeakTypes /\ WeakLocal /\ ValuePhase /\ BoxPhase
            /\ WeakAlone /\ WeakLoads /\ WeakOrdered

WeakInv == WeakRest /\ WeakCounted

\* What the steps use of the counting.  There is memory as long as a thread has
\* to do with it, and the last one is alone ...
HolderFacts ==
  \A t \in Threads :
    (pc[t] # "idle" \/ arcs[t] + weaks[t] > 0) /\ pc[t] # "free" =>
      /\ Held[t] > 0
      /\ Current(Alloc) > 0
      /\ freed = 0 /\ \A u \in Threads : pc[u] # "free"
      /\ pc[t] # "mut" => \A u \in Threads : pc[u] # "mut"
      /\ Current(Alloc) = 1 =>
           /\ Held[t] = 1
           /\ \A u \in Threads \ {t} : pc[u] = "idle" /\ arcs[u] = 0 /\ weaks[u] = 0

\* ... there is a value as long as a thread has an Arc ...
OwnerFacts ==
  \A t \in Threads :
    arcs[t] > 0 \/ pc[t] = "upgrade_clone" =>
      /\ Current(Data) > 0
      /\ dropped = 0 /\ \A u \in Threads : pc[u] # "drop_value"
      /\ Current(Data) = 1 /\ arcs[t] > 0 => arcs[t] = 1 /\ \A u \in Threads \ {t} : arcs[u] = 0

\* ... and the counters do not wrap around.
CounterFacts ==
  /\ Current(Alloc) \in Nat /\ Current(Data) \in Nat /\ Current(Data) <= Current(Alloc)
  /\ \A t \in Threads : pc[t] # "abort" =>
       /\ (Current(Alloc) + 1) % (MaxUsize + 1) = Current(Alloc) + 1
       /\ (Current(Data) + 1) % (MaxUsize + 1) = Current(Data) + 1

WeakFacts == HolderFacts /\ OwnerFacts /\ CounterFacts

\* A step of t, to label next, counts what it does: by a and d in the counters,
\* and by s and p in what data_ref_count counts at least and at most.
WeakCounts(t, next, a, d, s, p) ==
  /\ pc[t] # "abort" /\ pc' = [pc EXCEPT ![t] = next]
  /\ \A u \in Threads \ {t} : arcs'[u] = arcs[u] /\ weaks'[u] = weaks[u]
  /\ Held'[t] = Held[t] + a /\ Current(Alloc)' = Current(Alloc) + a
  /\ a = 1 => next = "abort" \/ Current(Alloc) <= MaxUsize \div 2
  /\ Current(Data)' = Current(Data) + d
  /\ s <= d /\ Sure'[t] = Sure[t] + s
  /\ d <= p /\ Possible'[t] = Possible[t] + p

Recounted(t) == \E next : \E a, d, s, p \in {-1, 0, 1} : WeakCounts(t, next, a, d, s, p)

\* Memory r after the step of t, and what Continue does to it, keep the
\* invariant of the loads and of the accesses.
LEMMA WeakContinue ==
  ASSUME ContinueLaw, NEW r \in Memory, NEW t \in Threads, NEW next, Continue(t, r, next),
         pc \in [Threads -> WeakLabels], arcs' \in [Threads -> Nat], weaks' \in [Threads -> Nat],
         \A u \in Threads : arcs'[u] > 0 => Fresh(r, u, Alloc),
         InOrder(r, pc', arcs', weaks')
  PROVE  /\ mem' \in Memory
         /\ Current(Data)' = Newest(r, Data).val
         /\ Current(Alloc)' = Newest(r, Alloc).val
         /\ WeakLoads' /\ WeakOrdered'
<1>0. ContinueResult(r, t, next)
  BY Zenon DEF ContinueLaw
<1>1. /\ mem' \in Memory
      /\ Newest(mem', Data).val = Newest(r, Data).val
      /\ Newest(mem', Data).view.hb = Newest(r, Data).view.hb
      /\ Newest(mem', Alloc).val = Newest(r, Alloc).val
      /\ Newest(mem', Alloc).view.hb = Newest(r, Alloc).view.hb
      /\ \A u \in Live' : /\ mem'.view[u].hb = r.view[u].hb
                          /\ u # t \/ next # "idle" => mem'.pend[u].hb = r.pend[u].hb
                          /\ Fresh(r, u, Alloc) => Fresh(mem', u, Alloc)
  BY <1>0, Counters, Zenon DEF ContinueResult
<1>2. pc' = [pc EXCEPT ![t] = next]
  BY Zenon DEF Continue
<1>3. \A u \in Threads : u \in Live' <=> pc'[u] # "idle" \/ arcs'[u] + weaks'[u] > 0
  BY Zenon DEF Live
<1>4. \A u \in Threads : arcs'[u] > 0 => u \in Live'
  BY <1>3
<1>5. WeakLoads'
  BY <1>1, <1>4, Zenon DEF WeakLoads
<1>6. ASSUME NEW u \in Threads, pc'[u] # "idle" \/ arcs'[u] + weaks'[u] > 0
      PROVE  Accesses(u) \subseteq mem'.view[u].hb
  BY <1>1, <1>3, <1>6, Zenon DEF InOrder
<1>7. ASSUME NEW u \in Threads, pc'[u] \in {"mut", "drop_value", "free"}
      PROVE  \A w \in Threads \ {u} : Accesses(w) \subseteq mem'.view[u].hb \cup mem'.pend[u].hb
  <2>1. u \in Live' /\ (u # t \/ next # "idle")
    BY <1>2, <1>3, <1>7, Zenon
  <2>2. \A w \in Threads \ {u} : Accesses(w) \subseteq r.view[u].hb \cup r.pend[u].hb
    BY <1>7, Zenon DEF InOrder
  <2>3. QED
    BY <1>1, <2>1, <2>2, Zenon
<1>8. /\ Newest(mem', Data).val > 0 =>
           \A u \in Threads : arcs'[u] = 0 => Accesses(u) \subseteq Newest(mem', Data).view.hb
      /\ Newest(mem', Alloc).val > 0 =>
           \A u \in Threads : arcs'[u] = 0 /\ pc'[u] \notin {"drop_value", "drop_weak"} =>
                                Accesses(u) \subseteq Newest(mem', Alloc).view.hb
  BY <1>1, Zenon DEF InOrder
<1>9. InOrder(mem', pc', arcs', weaks')
  BY <1>6, <1>7, <1>8, Zenon DEF InOrder
<1>10. QED
  BY <1>1, <1>5, <1>9, Zenon DEF WeakOrdered, Current, Data, Alloc, Accesses, InOrder

\* In memory r, after an operation of t, the same accesses happen before as in
\* mem; only fences of t may bring more.
SameOrder(r, t) ==
  /\ r \in Memory
  /\ Newest(r, Data).view.hb = Newest(mem, Data).view.hb
  /\ Newest(r, Alloc).view.hb = Newest(mem, Alloc).view.hb
  /\ \A u \in Threads : r.view[u].hb = mem.view[u].hb
  /\ \A u \in Threads \ {t} : r.pend[u].hb = mem.pend[u].hb

\* A step that only does that keeps the invariant of the accesses.
LEMMA KeepsOrder ==
  ASSUME ContinueLaw, WeakRest, NEW t \in Threads, NEW next, NEW r, SameOrder(r, t), Continue(t, r, next),
         pc[t] # "idle" \/ arcs[t] + weaks[t] > 0, pc[t] \notin {"drop_value", "drop_weak"},
         arcs' \in [Threads -> Nat], weaks' \in [Threads -> Nat],
         \A u \in Threads \ {t} : arcs'[u] = arcs[u] /\ weaks'[u] = weaks[u],
         arcs'[t] = 0 => arcs[t] = 0,
         Newest(r, Data).val > 0 => Current(Data) > 0,
         Newest(r, Alloc).val > 0 => Current(Alloc) > 0,
         \A u \in Threads : arcs'[u] > 0 => Fresh(r, u, Alloc),
         next \in {"mut", "drop_value", "free"} =>
           \A u \in Threads \ {t} : Accesses(u) \subseteq r.view[t].hb \cup r.pend[t].hb
  PROVE  /\ mem' \in Memory
         /\ Current(Data)' = Newest(r, Data).val
         /\ Current(Alloc)' = Newest(r, Alloc).val
         /\ WeakLoads' /\ WeakOrdered'
<1>1. pc \in [Threads -> WeakLabels] /\ InOrder(mem, pc, arcs, weaks)
  BY Zenon DEF WeakRest, WeakTypes, WeakOrdered
<1>2. pc' = [pc EXCEPT ![t] = next]
  BY Zenon DEF Continue
<1>3. pc'[t] = next /\ \A u \in Threads \ {t} : pc'[u] = pc[u]
  BY <1>1, <1>2, Zenon
<1>4. Newest(r, Data).val > 0 =>
        \A u \in Threads : arcs'[u] = 0 => Accesses(u) \subseteq Newest(r, Data).view.hb
  BY <1>1, Zenon DEF InOrder, SameOrder, Current
<1>5. Newest(r, Alloc).val > 0 =>
        \A u \in Threads : arcs'[u] = 0 /\ pc'[u] \notin {"drop_value", "drop_weak"} =>
                             Accesses(u) \subseteq Newest(r, Alloc).view.hb
  BY <1>1, <1>3, Zenon DEF InOrder, SameOrder, Current
<1>6. \A u \in Threads : pc'[u] # "idle" \/ arcs'[u] + weaks'[u] > 0 => Accesses(u) \subseteq r.view[u].hb
  BY <1>1, <1>3, Zenon DEF InOrder, SameOrder
<1>7. ASSUME NEW u \in Threads, pc'[u] \in {"mut", "drop_value", "free"}
      PROVE  \A w \in Threads \ {u} : Accesses(w) \subseteq r.view[u].hb \cup r.pend[u].hb
  <2>1. CASE u = t
    BY <1>3, <1>7, <2>1, Zenon
  <2>2. CASE u # t
    <3>1. \A w \in Threads \ {u} : Accesses(w) \subseteq mem.view[u].hb \cup mem.pend[u].hb
      BY <1>1, <1>3, <1>7, <2>2, Zenon DEF InOrder
    <3>2. QED
      BY <2>2, <3>1, Zenon DEF SameOrder
  <2>3. QED
    BY <2>1, <2>2, Zenon
<1>8. InOrder(r, pc', arcs', weaks')
  BY <1>4, <1>5, <1>6, <1>7, Zenon DEF InOrder
<1>9. r \in Memory
  BY Zenon DEF SameOrder
<1>10. QED
  BY <1>1, <1>8, <1>9, WeakContinue, Zenon


\* What a relaxed read-modify-write does: the accesses stay as they are.
LEMMA RelaxedRmw ==
  ASSUME RmwLaw, WeakRest, NEW t \in Threads, NEW x \in Locations, NEW v \in Nat
  PROVE  LET r == Rmw(mem, t, x, v, Relaxed)
         IN  /\ SameOrder(r, t)
             /\ Newest(r, x).val = v
             /\ \A y \in Locations \ {x} : Newest(r, y).val = Current(y)
             /\ \A u \in Threads : arcs[u] > 0 /\ x # Alloc => Fresh(r, u, Alloc)
             /\ \A u \in Threads : u = t \/ (arcs[u] > 0 /\ Current(Alloc) # 1) =>
                  (x = Alloc => Fresh(r, u, Alloc))
<1> DEFINE r == Rmw(mem, t, x, v, Relaxed)
<1>1. mem \in Memory /\ WeakLoads
  BY Zenon DEF WeakRest, WeakTypes
<1>2. Relaxed # Release /\ Relaxed \in {Relaxed, Release}
  BY Zenon DEF Relaxed, Release
<1>3. RmwResult(mem, t, x, v, Relaxed, r) /\ RmwLoads(mem, t, x, r)
  BY <1>1, <1>2, Zenon DEF RmwLaw
<1> HIDE DEF r
<1>4. \A y \in Locations : Newest(r, y).view.hb = Newest(mem, y).view.hb
  BY <1>2, <1>3, Zenon DEF RmwResult, Newest
<1>5. SameOrder(r, t)
  BY <1>3, <1>4, Counters, Zenon DEF RmwResult, SameOrder
<1>6. Newest(r, x).val = v /\ \A y \in Locations \ {x} : Newest(r, y).val = Current(y)
  BY <1>3, Zenon DEF RmwResult, Newest, Current
<1>7. ASSUME NEW u \in Threads, arcs[u] > 0, x # Alloc
      PROVE  Fresh(r, u, Alloc)
  BY <1>1, <1>3, <1>7, Counters, Zenon DEF WeakLoads, RmwLoads
<1>8. ASSUME NEW u \in Threads, u = t \/ (arcs[u] > 0 /\ Current(Alloc) # 1), x = Alloc
      PROVE  Fresh(r, u, Alloc)
  BY <1>1, <1>3, <1>8, Zenon DEF WeakLoads, RmwLoads, Current
<1>9. QED
  BY <1>5, <1>6, <1>7, <1>8, Zenon DEF r

\* What a relaxed load of the i-th value of x does.
LEMMA RelaxedLoad ==
  ASSUME LoadLaw, WeakRest, NEW t \in Threads, NEW x \in Locations, NEW i \in Loadable(mem, t, x, Relaxed)
  PROVE  LET r == Load(mem, t, x, i, Relaxed)
         IN  /\ i \in 1..Len(mem.mo[x])
             /\ SameOrder(r, t)
             /\ \A y \in Locations : Newest(r, y) = Newest(mem, y)
             /\ \A u \in Threads : arcs[u] > 0 => Fresh(r, u, Alloc)
             /\ mem.mo[x][i].view.hb \subseteq r.pend[t].hb
<1> DEFINE r == Load(mem, t, x, i, Relaxed)
<1>1. mem \in Memory /\ WeakLoads
  BY Zenon DEF WeakRest, WeakTypes
<1>2. /\ i \in 1..Len(mem.mo[x]) /\ LoadResult(mem, t, x, i, r)
      /\ \A u \in Threads, y \in Locations : Fresh(mem, u, y) => Fresh(r, u, y)
  BY <1>1, Zenon DEF LoadLaw
<1> HIDE DEF r
<1>3. \A y \in Locations : Newest(r, y) = Newest(mem, y)
  BY <1>2, Zenon DEF LoadResult, Newest
<1>4. SameOrder(r, t)
  BY <1>2, <1>3, Counters, Zenon DEF LoadResult, SameOrder
<1>5. \A u \in Threads : arcs[u] > 0 => Fresh(r, u, Alloc)
  BY <1>1, <1>2, Counters, Zenon DEF WeakLoads
<1>6. mem.mo[x][i].view.hb \subseteq r.pend[t].hb
  BY <1>2, Zenon DEF LoadResult
<1>7. QED
  BY <1>2, <1>3, <1>4, <1>5, <1>6, Zenon DEF r

-----------------------------------------------------------------------------
(* The invariant is inductive: steps after which the same things are left. *)

\* The value and its memory are as they were.
LEMMA SamePhases ==
  ASSUME WeakRest, WeakFacts, NEW t \in Threads, NEW next, pc' = [pc EXCEPT ![t] = next],
         pc[t] \notin {"drop_value", "free"}, next \notin {"drop_value", "free"},
         UNCHANGED <<dropped, freed>>,
         Current(Data)' \in Nat, Current(Data)' > 0 <=> Current(Data) > 0,
         Current(Alloc)' \in Nat, Current(Alloc)' > 0 <=> Current(Alloc) > 0
  PROVE  ValuePhase' /\ BoxPhase'
<1>1. ValuePhase /\ BoxPhase /\ Current(Data) \in Nat /\ Current(Alloc) \in Nat /\ pc \in [Threads -> WeakLabels]
  BY Zenon DEF WeakRest, WeakTypes, WeakFacts, CounterFacts
<1>2. \A u \in Threads : /\ pc'[u] = "drop_value" <=> pc[u] = "drop_value"
                         /\ pc'[u] = "free" <=> pc[u] = "free"
  BY <1>1, Zenon
<1>3. /\ Current(Data)' = 0 <=> Current(Data) = 0
      /\ Current(Alloc)' = 0 <=> Current(Alloc) = 0
  BY <1>1
<1>4. ValuePhase'
  BY <1>1, <1>2, <1>3, Zenon DEF ValuePhase
<1>5. BoxPhase'
  BY <1>1, <1>2, <1>3, Zenon DEF BoxPhase
<1>6. QED
  BY <1>4, <1>5, Zenon

\* A step of a call that makes a handle, or tries to: what it does to the memory
\* and to the handles ...
Making(t, next, r) ==
  /\ SameOrder(r, t) /\ Continue(t, r, next) /\ UNCHANGED <<dropped, freed>>
  /\ pc[t] \in {"idle", "clone_data", "upgrade", "upgrade_clone"}
  /\ pc[t] # "idle" \/ arcs[t] + weaks[t] > 0
  /\ next \in {"idle", "abort", "clone_data", "upgrade", "upgrade_clone"}
  /\ arcs' \in [Threads -> Nat] /\ weaks' \in [Threads -> Nat]
  /\ \A u \in Threads \ {t} : arcs'[u] = arcs[u] /\ weaks'[u] = weaks[u]
  /\ arcs'[t] = 0 => arcs[t] = 0
  /\ next \in {"upgrade", "upgrade_clone"} => weaks'[t] > 0
  /\ next = "clone_data" => arcs'[t] > 0
  /\ \A u \in Threads : arcs'[u] > 0 => Fresh(r, u, Alloc)

\* ... and what it counts.
MakingCounts(t, next, r, a, d, s, p) ==
  /\ Held'[t] = Held[t] + a /\ Newest(r, Alloc).val = Current(Alloc) + a
  /\ a = 1 => next = "abort" \/ Current(Alloc) <= MaxUsize \div 2
  /\ Newest(r, Data).val = Current(Data) + d
  /\ d = 1 => Current(Data) > 0
  /\ s <= d /\ Sure'[t] = Sure[t] + s
  /\ d <= p /\ Possible'[t] = Possible[t] + p

\* Such a step keeps the invariant.
LEMMA MakingPreserves ==
  ASSUME ContinueLaw, WeakRest, WeakFacts, NEW t \in Threads, NEW next, NEW r, Making(t, next, r),
         NEW a \in {0, 1}, NEW d \in {0, 1}, NEW s \in {-1, 0, 1}, NEW p \in {-1, 0, 1},
         MakingCounts(t, next, r, a, d, s, p)
  PROVE  WeakRest' /\ Recounted(t)
<1> USE DEF Making, MakingCounts
<1>1. pc \in [Threads -> WeakLabels] /\ WeakLocal
  BY Zenon DEF WeakRest, WeakTypes
<1>2. pc' = [pc EXCEPT ![t] = next]
  BY Zenon DEF Continue
<1>3. pc' \in [Threads -> WeakLabels] /\ pc'[t] = next /\ \A u \in Threads \ {t} : pc'[u] = pc[u]
  BY <1>1, <1>2, Zenon DEF WeakLabels
<1>4. Current(Alloc) \in Nat /\ Current(Alloc) > 0 /\ \A u \in Threads : pc[u] # "mut"
  BY Zenon DEF WeakFacts, HolderFacts, CounterFacts
<1>5. Current(Data) \in Nat
  BY Zenon DEF WeakFacts, CounterFacts
<1>6. Newest(r, Data).val > 0 => Current(Data) > 0
  BY <1>5, SMTT(30)
<1>7. /\ mem' \in Memory
      /\ Current(Data)' = Newest(r, Data).val
      /\ Current(Alloc)' = Newest(r, Alloc).val
      /\ WeakLoads' /\ WeakOrdered'
  BY <1>4, <1>6, KeepsOrder, Zenon
<1>8. WeakTypes'
  BY <1>3, <1>7, Zenon DEF WeakTypes
<1>9. Current(Alloc)' = Current(Alloc) + a /\ Current(Data)' = Current(Data) + d
  BY <1>7, Zenon
<1>10. Recounted(t)
  <2>1. a \in {-1, 0, 1} /\ d \in {-1, 0, 1} /\ pc[t] # "abort"
    BY Zenon
  <2>2. WeakCounts(t, next, a, d, s, p)
    BY <1>2, <1>9, <2>1, Zenon DEF WeakCounts
  <2>3. QED
    BY <2>1, <2>2, SMTT(30) DEF Recounted
<1>11. WeakLocal'
  BY <1>1, <1>3, Zenon DEF WeakLocal
<1>12. ValuePhase' /\ BoxPhase'
  <2>1. /\ Current(Data)' \in Nat /\ (Current(Data)' > 0 <=> Current(Data) > 0)
        /\ Current(Alloc)' \in Nat /\ (Current(Alloc)' > 0 <=> Current(Alloc) > 0)
    BY <1>4, <1>5, <1>9, SMTT(30)
  <2>2. QED
    BY <1>2, <2>1, SamePhases, Zenon
<1>13. WeakAlone'
  BY <1>3, <1>4, Zenon DEF WeakAlone
<1>14. QED
  BY <1>7, <1>8, <1>10, <1>11, <1>12, <1>13, Zenon DEF WeakRest

\* What is counted for thread t.
LEMMA CountOf ==
  ASSUME NEW t \in Threads
  PROVE  /\ Held[t] = arcs[t] + weaks[t] +
              (IF pc[t] \in {"clone_data", "drop_value", "drop_weak", "abort"} THEN 1 ELSE 0)
         /\ Sure[t] = arcs[t] + (IF pc[t] = "upgrade_clone" THEN 1 ELSE 0)
         /\ Possible[t] = arcs[t] + (IF pc[t] \in {"upgrade_clone", "abort"} THEN 1 ELSE 0)
         /\ Held'[t] = arcs'[t] + weaks'[t] +
              (IF pc'[t] \in {"clone_data", "drop_value", "drop_weak", "abort"} THEN 1 ELSE 0)
         /\ Sure'[t] = arcs'[t] + (IF pc'[t] = "upgrade_clone" THEN 1 ELSE 0)
         /\ Possible'[t] = arcs'[t] + (IF pc'[t] \in {"upgrade_clone", "abort"} THEN 1 ELSE 0)
BY Zenon DEF Held, Sure, Possible

\* A step that has nothing to count.
LEMMA SameRecount ==
  ASSUME WeakTypes, WeakFacts, NEW t \in Threads, NEW next, pc[t] # "abort",
         pc' = [pc EXCEPT ![t] = next], UNCHANGED <<arcs, weaks>>,
         Held'[t] = Held[t], Sure'[t] = Sure[t], Possible'[t] = Possible[t],
         Current(Data)' = Current(Data), Current(Alloc)' = Current(Alloc)
  PROVE  Recounted(t)
<1>1. PICK none \in {-1, 0, 1} : none = 0
  BY Zenon
<1>2. Held[t] \in Nat /\ Sure[t] \in Nat /\ Possible[t] \in Nat /\ Current(Data) \in Nat /\ Current(Alloc) \in Nat
  BY CountOf DEF WeakTypes, WeakFacts, CounterFacts
<1>3. /\ Held'[t] = Held[t] + none /\ Sure'[t] = Sure[t] + none /\ Possible'[t] = Possible[t] + none
      /\ Current(Data)' = Current(Data) + none /\ Current(Alloc)' = Current(Alloc) + none
      /\ none # 1 /\ none <= none
  BY <1>1, <1>2, SMTT(30)
<1>4. WeakCounts(t, next, none, none, none, none)
  BY <1>3, Zenon DEF WeakCounts
<1>5. QED
  BY <1>4, Zenon DEF Recounted

\* alloc_ref_count.fetch_add(1, Relaxed), for a handle that next or abort()
\* counts.
LEMMA AllocAdded ==
  ASSUME RmwLaw, ContinueLaw, WeakRest, WeakFacts, NEW t \in Threads, NEW go \in {"idle", "clone_data"}, FetchAdd(t, Alloc, go),
         pc[t] \in {"idle", "upgrade_clone"}, pc[t] # "idle" \/ arcs[t] + weaks[t] > 0,
         NEW next, next = IF OverLimit(Alloc) THEN "abort" ELSE go,
         arcs' \in [Threads -> Nat], weaks' \in [Threads -> Nat],
         \A u \in Threads \ {t} : arcs'[u] = arcs[u] /\ weaks'[u] = weaks[u],
         arcs'[t] = 0 => arcs[t] = 0,
         go = "clone_data" => arcs'[t] > 0,
         UNCHANGED <<dropped, freed>>,
         pc'[t] = next => /\ Held'[t] = Held[t] + 1
                          /\ \E s \in {-1, 0} : Sure'[t] = Sure[t] + s
                          /\ \E p \in {0, 1} : Possible'[t] = Possible[t] + p
  PROVE  WeakRest' /\ Recounted(t)
<1> DEFINE c == Current(Alloc)
           r == Rmw(mem, t, Alloc, c + 1, Relaxed)
<1>1. /\ c \in Nat /\ Current(Data) \in Nat /\ (c + 1) % (MaxUsize + 1) = c + 1
  BY Zenon DEF WeakFacts, CounterFacts
<1>2. Continue(t, r, next)
  BY <1>1, Zenon DEF FetchAdd
<1>3. /\ SameOrder(r, t) /\ Newest(r, Alloc).val = c + 1 /\ Newest(r, Data).val = Current(Data)
      /\ \A u \in Threads : u = t \/ (arcs[u] > 0 /\ c # 1) => Fresh(r, u, Alloc)
  <2>1. c + 1 \in Nat
    BY <1>1, SMTT(30)
  <2> HIDE DEF c
  <2>2. QED
    BY <2>1, Counters, RelaxedRmw, SMTT(30) DEF c
<1> HIDE DEF r, c
<1>4. c = 1 => \A u \in Threads \ {t} : arcs[u] = 0
  BY Zenon DEF c, WeakFacts, HolderFacts
<1>5. ASSUME NEW u \in Threads, arcs'[u] > 0
      PROVE  Fresh(r, u, Alloc)
  <2>1. CASE u # t
    <3>1. arcs[u] > 0 /\ c # 1
      BY <1>4, <1>5, <2>1
    <3>2. QED
      BY <1>3, <3>1, Zenon
  <2>2. QED
    BY <1>3, <2>1, Zenon
<1>6. pc'[t] = next
  BY <1>2, Zenon DEF Continue, WeakRest, WeakTypes
<1>7. PICK s \in {-1, 0} : Sure'[t] = Sure[t] + s
  BY <1>6, Zenon
<1>8. PICK p \in {0, 1} : Possible'[t] = Possible[t] + p
  BY <1>6, Zenon
<1>9. next = "abort" \/ c <= MaxUsize \div 2
  <2> DEFINE half == MaxUsize \div 2
  <2>1. half \in Nat
    BY RefCountAssumption
  <2>2. OverLimit(Alloc) <=> c > half
    BY Zenon DEF OverLimit, c
  <2> HIDE DEF half
  <2>3. QED
    BY <1>1, <2>1, <2>2, SMTT(30) DEF half
<1>10. QED
  <2>1. /\ next \in {"idle", "abort", "clone_data"}
        /\ next = "clone_data" => arcs'[t] > 0
    BY Zenon
  <2>2. Newest(r, Data).val = Current(Data) + 0
    BY <1>1, <1>3, SMTT(30)
  <2>3. Held'[t] = Held[t] + 1 /\ Newest(r, Alloc).val = Current(Alloc) + 1
    BY <1>3, <1>6, Zenon DEF c
  <2>4. Current(Alloc) <= MaxUsize \div 2 \/ next = "abort"
    BY <1>9, Zenon DEF c
  <2>5. /\ s \in {-1, 0, 1} /\ s <= 0 /\ p \in {-1, 0, 1} /\ 0 <= p
    OBVIOUS
  <2>6. Making(t, next, r)
    BY <1>2, <1>3, <1>5, <2>1, Zenon DEF Making
  <2>7. MakingCounts(t, next, r, 1, 0, s, p)
    BY <1>7, <1>8, <2>2, <2>3, <2>4, <2>5, SMTT(30) DEF MakingCounts
  <2>8. QED
    BY <2>5, <2>6, <2>7, MakingPreserves, SMTT(30)

\* The clone of the Weak in Arc::clone(), Weak::clone(), Arc::downgrade(), and
\* the clone of the Weak in upgrade().
LEMMA AllocAddPreserves ==
  ASSUME RmwLaw, ContinueLaw, WeakRest, WeakFacts, NEW t \in Threads,
         Clone(t) \/ CloneWeak(t) \/ Downgrade(t) \/ UpgradeClone(t)
  PROVE  WeakRest' /\ Recounted(t)
<1>1. /\ arcs \in [Threads -> Nat] /\ weaks \in [Threads -> Nat] /\ WeakLocal
      /\ pc \in [Threads -> WeakLabels]
  BY Zenon DEF WeakRest, WeakTypes
<1> DEFINE over == OverLimit(Alloc)
           Next0(go) == IF over THEN "abort" ELSE go
           k == IF over THEN 0 ELSE 1
<1>2. k \in Nat /\ over \in BOOLEAN
  BY DEF OverLimit
<1>3. CASE Clone(t)
  <2>1. /\ FetchAdd(t, Alloc, "clone_data") /\ pc[t] = "idle" /\ arcs[t] > 0
        /\ UNCHANGED <<arcs, weaks, dropped, freed>>
    BY <1>3, Zenon DEF Clone, Call, handleVars, endVars, Alloc
  <2>2. arcs[t] + weaks[t] > 0
    BY <1>1, <2>1
  <2>3. ASSUME pc'[t] = Next0("clone_data")
        PROVE  Held'[t] = Held[t] + 1 /\ Sure'[t] = Sure[t] + 0 /\ \E p \in {0, 1} : Possible'[t] = Possible[t] + p
    BY <1>1, <1>2, <2>1, <2>3, CountOf, SMTT(30)
  <2> HIDE DEF over
  <2>4. QED
    BY <1>1, <2>1, <2>2, <2>3, AllocAdded, Zenon DEF over
<1>4. CASE CloneWeak(t) \/ Downgrade(t)
  <2>1. /\ FetchAdd(t, Alloc, "idle") /\ pc[t] = "idle" /\ (arcs[t] > 0 \/ weaks[t] > 0)
        /\ weaks' = [weaks EXCEPT ![t] = @ + k]
        /\ UNCHANGED <<arcs, dropped, freed>>
    BY <1>4, Zenon DEF CloneWeak, Downgrade, Gain, Call, endVars, Alloc
  <2>2. arcs[t] + weaks[t] > 0
    BY <1>1, <2>1
  <2>3. weaks' \in [Threads -> Nat] /\ weaks'[t] = weaks[t] + k /\ \A u \in Threads \ {t} : weaks'[u] = weaks[u]
    BY <1>1, <1>2, <2>1
  <2>4. ASSUME pc'[t] = Next0("idle")
        PROVE  Held'[t] = Held[t] + 1 /\ Sure'[t] = Sure[t] + 0 /\ \E p \in {0, 1} : Possible'[t] = Possible[t] + p
    BY <1>1, <1>2, <2>1, <2>3, <2>4, CountOf, SMTT(30)
  <2> HIDE DEF over
  <2>5. QED
    BY <1>1, <2>1, <2>2, <2>3, <2>4, AllocAdded, Zenon DEF over
<1>5. CASE UpgradeClone(t)
  <2>1. /\ FetchAdd(t, Alloc, "idle") /\ pc[t] = "upgrade_clone"
        /\ arcs' = [arcs EXCEPT ![t] = @ + k]
        /\ UNCHANGED <<weaks, dropped, freed>>
    BY <1>5, Zenon DEF UpgradeClone, Gain, endVars, Alloc
  <2>2. /\ arcs' \in [Threads -> Nat] /\ arcs'[t] = arcs[t] + k /\ \A u \in Threads \ {t} : arcs'[u] = arcs[u]
        /\ arcs'[t] = 0 => arcs[t] = 0
    BY <1>1, <1>2, <2>1
  <2>3. ASSUME pc'[t] = Next0("idle")
        PROVE  Held'[t] = Held[t] + 1 /\ (\E s \in {-1, 0} : Sure'[t] = Sure[t] + s) /\ Possible'[t] = Possible[t] + 0
    BY <1>1, <1>2, <2>1, <2>2, <2>3, CountOf, SMTT(30)
  <2> HIDE DEF over
  <2>4. QED
    BY <1>1, <2>1, <2>2, <2>3, AllocAdded, Zenon DEF over
<1>6. QED
  BY <1>3, <1>4, <1>5, Zenon

\* data_ref_count.fetch_add(1, Relaxed) in Arc::clone(), and the exchange in
\* upgrade(): the counter is not zero.
LEMMA DataAddPreserves ==
  ASSUME RmwLaw, ContinueLaw, WeakRest, WeakFacts, NEW t \in Threads, CloneData(t) \/ UpgradeExchange(t, 0, "upgrade_clone")
  PROVE  WeakRest' /\ Recounted(t)
<1> DEFINE c == Current(Data)
           r == Rmw(mem, t, Data, c + 1, Relaxed)
           over == OverLimit(Data)
           k == IF over THEN 0 ELSE 1
<1>1. /\ arcs \in [Threads -> Nat] /\ weaks \in [Threads -> Nat] /\ WeakLocal
      /\ pc \in [Threads -> WeakLabels]
  BY Zenon DEF WeakRest, WeakTypes
<1>2. c \in Nat /\ Current(Alloc) \in Nat /\ over \in BOOLEAN /\ k \in Nat
  BY DEF OverLimit, WeakFacts, CounterFacts
<1>3. pc[t] # "abort" => (c + 1) % (MaxUsize + 1) = c + 1
  BY Zenon DEF WeakFacts, CounterFacts
<1>4. /\ SameOrder(r, t) /\ Newest(r, Data).val = c + 1 /\ Newest(r, Alloc).val = Current(Alloc)
      /\ \A u \in Threads : arcs[u] > 0 => Fresh(r, u, Alloc)
  <2>1. c + 1 \in Nat
    BY <1>2
  <2> HIDE DEF c
  <2>2. QED
    BY <2>1, Counters, RelaxedRmw
<1>5. Newest(r, Alloc).val = Current(Alloc) + 0
  BY <1>2, <1>4
<1>6. CASE CloneData(t)
  <2> DEFINE next == IF over THEN "abort" ELSE "idle"
  <2>1. /\ pc[t] = "clone_data" /\ arcs[t] > 0 /\ arcs' = [arcs EXCEPT ![t] = @ + k]
        /\ UNCHANGED <<weaks, dropped, freed>>
    BY <1>1, <1>6, Zenon DEF CloneData, Gain, endVars, Data, WeakLocal
  <2>2. Continue(t, r, next)
    BY <1>3, <1>6, <2>1, Zenon DEF CloneData, FetchAdd, Data
  <2>3. /\ arcs' \in [Threads -> Nat] /\ arcs'[t] = arcs[t] + k /\ \A u \in Threads \ {t} : arcs'[u] = arcs[u]
        /\ arcs'[t] # 0
    BY <1>1, <1>2, <2>1
  <2>4. c > 0
    BY <2>1, Zenon DEF WeakFacts, OwnerFacts
  <2>5. pc'[t] = next /\ weaks' \in [Threads -> Nat]
    BY <1>1, <2>1, <2>2, Zenon DEF Continue
  <2>6. Held'[t] = Held[t] + 0 /\ Sure'[t] = Sure[t] + k /\ Possible'[t] = Possible[t] + 1
    BY <1>1, <1>2, <2>1, <2>3, <2>5, CountOf, SMTT(30)
  <2>7. \A u \in Threads : arcs'[u] > 0 => Fresh(r, u, Alloc)
    BY <1>4, <2>1, <2>3, Zenon
  <2>8. k \in {-1, 0, 1} /\ k <= 1 /\ next \in {"idle", "abort"}
    BY <1>2
  <2> HIDE DEF r, over, k, next
  <2>9. Making(t, next, r)
    BY <1>4, <2>1, <2>2, <2>3, <2>5, <2>7, <2>8, Zenon DEF Making
  <2>10. MakingCounts(t, next, r, 0, 1, k, 1)
    BY <1>4, <1>5, <2>4, <2>6, <2>8, SMTT(30) DEF MakingCounts, c
  <2>11. QED
    BY <2>8, <2>9, <2>10, MakingPreserves, Zenon
<1>7. CASE UpgradeExchange(t, 0, "upgrade_clone")
  <2>1. /\ pc[t] = "upgrade" /\ n[t] # 0 /\ c = n[t]
        /\ arcs' = [arcs EXCEPT ![t] = @ + 0]
        /\ UNCHANGED <<weaks, dropped, freed>>
    BY <1>7, Zenon DEF UpgradeExchange, Gain, endVars, Data
  <2>2. Continue(t, r, "upgrade_clone")
    BY <1>7, <2>1, Zenon DEF UpgradeExchange, Data
  <2>3. arcs' = arcs
    BY <1>1, <2>1
  <2>4. c > 0 /\ weaks[t] > 0
    BY <1>1, <1>2, <2>1 DEF WeakLocal
  <2>5. pc'[t] = "upgrade_clone"
    BY <1>1, <2>2, Zenon DEF Continue
  <2>6. Held'[t] = Held[t] + 0 /\ Sure'[t] = Sure[t] + 1 /\ Possible'[t] = Possible[t] + 1
    BY <1>1, <2>1, <2>3, <2>5, CountOf, SMTT(30)
  <2>7. arcs' \in [Threads -> Nat] /\ weaks' \in [Threads -> Nat] /\ weaks'[t] > 0
        /\ \A u \in Threads \ {t} : arcs'[u] = arcs[u] /\ weaks'[u] = weaks[u]
    BY <1>1, <2>1, <2>3, <2>4, Zenon
  <2>8. \A u \in Threads : arcs'[u] > 0 => Fresh(r, u, Alloc)
    BY <1>4, <2>3, Zenon
  <2> HIDE DEF r
  <2>9. Making(t, "upgrade_clone", r)
    BY <1>4, <2>1, <2>2, <2>3, <2>7, <2>8, Zenon DEF Making
  <2>10. MakingCounts(t, "upgrade_clone", r, 0, 1, 1, 1)
    BY <1>4, <1>5, <2>4, <2>6, SMTT(30) DEF MakingCounts, c
  <2>11. QED
    BY <2>9, <2>10, MakingPreserves, Zenon
<1>8. QED
  BY <1>6, <1>7, Zenon

\* upgrade(): the loads of data_ref_count, and the return without an Arc.
LEMMA UpgradeLoadPreserves ==
  ASSUME LoadLaw, ContinueLaw, WeakRest, WeakFacts, NEW t \in Threads,
         \/ Upgrade(t)
         \/ UpgradeFails(t)
         \/ \E i \in Loadable(mem, t, Data, Relaxed) : UpgradeRetry(t, i)
  PROVE  WeakRest' /\ Recounted(t)
<1>1. /\ arcs \in [Threads -> Nat] /\ weaks \in [Threads -> Nat] /\ WeakLocal /\ WeakLoads
      /\ pc \in [Threads -> WeakLabels] /\ mem \in Memory
  BY Zenon DEF WeakRest, WeakTypes
<1>2. /\ weaks[t] > 0 /\ UNCHANGED <<arcs, weaks, dropped, freed>> /\ pc[t] \in {"idle", "upgrade"}
      /\ \E r : \E next \in {"idle", "upgrade"} :
           /\ Continue(t, r, next)
           /\ r = mem \/ \E i \in Loadable(mem, t, Data, Relaxed) : r = Load(mem, t, Data, i, Relaxed)
  <2>1. CASE Upgrade(t)
    BY <2>1, Zenon DEF Upgrade, LoadN, Call, handleVars, endVars, Data
  <2>2. CASE UpgradeFails(t)
    BY <1>1, <2>2, Zenon DEF UpgradeFails, WeakLocal, handleVars, endVars
  <2>3. CASE \E i \in Loadable(mem, t, Data, Relaxed) : UpgradeRetry(t, i)
    BY <1>1, <2>3, Zenon DEF UpgradeRetry, LoadN, WeakLocal, handleVars, endVars, Data
  <2>4. QED
    BY <2>1, <2>2, <2>3, Zenon
<1>3. PICK r : \E next \in {"idle", "upgrade"} :
        /\ Continue(t, r, next)
        /\ r = mem \/ \E i \in Loadable(mem, t, Data, Relaxed) : r = Load(mem, t, Data, i, Relaxed)
  BY <1>2, Zenon
<1>4. PICK next \in {"idle", "upgrade"} : Continue(t, r, next)
  BY <1>3, Zenon
<1>5. /\ SameOrder(r, t) /\ Newest(r, Data).val = Current(Data) /\ Newest(r, Alloc).val = Current(Alloc)
      /\ \A u \in Threads : arcs[u] > 0 => Fresh(r, u, Alloc)
  <2>1. CASE r = mem
    BY <1>1, <2>1, Zenon DEF SameOrder, Current, WeakLoads
  <2>2. ASSUME NEW i \in Loadable(mem, t, Data, Relaxed), r = Load(mem, t, Data, i, Relaxed)
        PROVE  /\ SameOrder(r, t) /\ Newest(r, Data) = Newest(mem, Data) /\ Newest(r, Alloc) = Newest(mem, Alloc)
               /\ \A u \in Threads : arcs[u] > 0 => Fresh(r, u, Alloc)
    BY <2>2, Counters, RelaxedLoad, Zenon
  <2>3. QED
    BY <1>3, <2>1, <2>2, Zenon DEF Current
<1>6. Current(Data) \in Nat /\ Current(Alloc) \in Nat
  BY Zenon DEF WeakFacts, CounterFacts
<1>7. Newest(r, Data).val = Current(Data) + 0 /\ Newest(r, Alloc).val = Current(Alloc) + 0
  BY <1>5, <1>6
<1>8. pc'[t] = next
  BY <1>1, <1>4, Zenon DEF Continue
<1>9. Held'[t] = Held[t] + 0 /\ Sure'[t] = Sure[t] + 0 /\ Possible'[t] = Possible[t] + 0
  BY <1>1, <1>2, <1>8, CountOf, SMTT(30)
<1>10. /\ arcs' \in [Threads -> Nat] /\ weaks' \in [Threads -> Nat] /\ weaks'[t] > 0
       /\ arcs[t] + weaks[t] > 0 /\ \A u \in Threads : arcs'[u] = arcs[u] /\ weaks'[u] = weaks[u]
  BY <1>1, <1>2
<1>11. \A u \in Threads : arcs'[u] > 0 => Fresh(r, u, Alloc)
  BY <1>2, <1>5, Zenon
<1>12. Making(t, next, r)
  BY <1>2, <1>4, <1>5, <1>10, <1>11, Zenon DEF Making
<1>13. MakingCounts(t, next, r, 0, 0, 0, 0)
  BY <1>7, <1>9, SMTT(30) DEF MakingCounts
<1>14. QED
  BY <1>12, <1>13, MakingPreserves, Zenon

\* get_mut(): it returns a reference only if it has loaded the newest value of
\* alloc_ref_count.
LEMMA WeakGetMutPreserves ==
  ASSUME LoadLaw, ContinueLaw, WeakRest, WeakFacts, NEW t \in Threads, GetMut(t)
  PROVE  WeakRest' /\ Recounted(t)
<1> DEFINE c == Current(Alloc)
           l == Len(mem.mo[Alloc])
<1>1. PICK i \in Loadable(mem, t, Alloc, Relaxed) :
        Continue(t, Load(mem, t, Alloc, i, Relaxed), IF mem.mo[Alloc][i].val = 1 THEN "mut" ELSE "idle")
  BY Zenon DEF GetMut, Alloc
<1> DEFINE r == Load(mem, t, Alloc, i, Relaxed)
           next == IF mem.mo[Alloc][i].val = 1 THEN "mut" ELSE "idle"
<1>2. pc[t] = "idle" /\ arcs[t] > 0 /\ UNCHANGED <<arcs, weaks, dropped, freed>>
  BY Zenon DEF GetMut, Call, handleVars, endVars
<1>3. /\ arcs \in [Threads -> Nat] /\ weaks \in [Threads -> Nat] /\ WeakLocal /\ WeakLoads
      /\ pc \in [Threads -> WeakLabels] /\ mem \in Memory /\ InOrder(mem, pc, arcs, weaks)
  BY Zenon DEF WeakRest, WeakTypes, WeakOrdered
<1>4. /\ i \in 1..l
      /\ SameOrder(r, t)
      /\ Newest(r, Data) = Newest(mem, Data) /\ Newest(r, Alloc) = Newest(mem, Alloc)
      /\ \A u \in Threads : arcs[u] > 0 => Fresh(r, u, Alloc)
      /\ mem.mo[Alloc][i].view.hb \subseteq r.pend[t].hb
  BY Counters, RelaxedLoad, Zenon
<1>5. Continue(t, r, next) /\ next \in {"mut", "idle"}
  BY <1>1, Zenon
<1>6. next = "mut" => Newest(mem, Alloc) = mem.mo[Alloc][i] /\ c = 1
  <2>1. Fresh(mem, t, Alloc)
    BY <1>2, <1>3, Zenon DEF WeakLoads
  <2>2. i \in mem.view[t].at[Alloc]..l
    BY <1>1, Zenon DEF Loadable, Relaxed
  <2>3. mem.mo[Alloc][i].val = 1 => i = l
    BY <2>1, <2>2, Zenon DEF Fresh
  <2>4. Newest(mem, Alloc) = mem.mo[Alloc][l]
    BY Zenon DEF Newest
  <2>5. QED
    BY <2>3, <2>4, Zenon DEF Current
<1> HIDE DEF r, l, next, c
<1>7. arcs[t] + weaks[t] > 0
  BY <1>2, <1>3
<1>8. /\ c \in Nat /\ c > 0 /\ \A u \in Threads : pc[u] \notin {"mut", "free"}
      /\ c = 1 => /\ Held[t] = 1
                  /\ \A u \in Threads \ {t} : pc[u] = "idle" /\ arcs[u] = 0 /\ weaks[u] = 0
  BY <1>2, <1>7, Zenon DEF c, WeakFacts, HolderFacts, CounterFacts
<1>9. Current(Data) \in Nat
  BY Zenon DEF WeakFacts, CounterFacts
<1>10. pc' = [pc EXCEPT ![t] = next]
  BY <1>5, Zenon DEF Continue
<1>11. pc' \in [Threads -> WeakLabels] /\ pc'[t] = next /\ \A u \in Threads \ {t} : pc'[u] = pc[u]
  BY <1>3, <1>5, <1>10, Zenon DEF WeakLabels
<1>12. ASSUME next \in {"mut", "drop_value", "free"}, NEW u \in Threads \ {t}
       PROVE  Accesses(u) \subseteq r.view[t].hb \cup r.pend[t].hb
  <2>1. next = "mut"
    BY <1>5, <1>12, Zenon
  <2>2. Accesses(u) \subseteq Newest(mem, Alloc).view.hb
    BY <1>3, <1>6, <1>8, <2>1, Zenon DEF InOrder, Current, c
  <2>3. QED
    BY <1>4, <1>6, <2>1, <2>2, Zenon
<1>13. /\ mem' \in Memory /\ Current(Data)' = Current(Data) /\ Current(Alloc)' = c
       /\ WeakLoads' /\ WeakOrdered'
  <2>1. /\ Newest(r, Data).val = Current(Data) /\ Newest(r, Alloc).val = Current(Alloc)
    BY <1>4, Zenon DEF Current
  <2>2. /\ arcs' \in [Threads -> Nat] /\ weaks' \in [Threads -> Nat]
        /\ \A u \in Threads : arcs'[u] = arcs[u] /\ weaks'[u] = weaks[u]
        /\ \A u \in Threads : arcs'[u] > 0 => Fresh(r, u, Alloc)
    BY <1>2, <1>3, <1>4, Zenon
  <2>3. QED
    BY <1>2, <1>4, <1>5, <1>7, <1>12, <2>1, <2>2, KeepsOrder, Zenon DEF c
<1>14. WeakTypes'
  BY <1>2, <1>3, <1>11, <1>13, Zenon DEF WeakTypes
<1>15. Recounted(t)
  <2>1. Held'[t] = Held[t] /\ Sure'[t] = Sure[t] /\ Possible'[t] = Possible[t]
    BY <1>2, <1>5, <1>11, CountOf, Zenon
  <2>2. QED
    BY <1>2, <1>3, <1>10, <1>13, <2>1, SameRecount, Zenon DEF c, WeakTypes
<1>16. WeakLocal'
  BY <1>2, <1>3, <1>5, <1>11, Zenon DEF WeakLocal
<1>17. ValuePhase' /\ BoxPhase'
  BY <1>2, <1>5, <1>8, <1>9, <1>10, <1>13, SamePhases, Zenon DEF c
<1>18. WeakAlone'
  <2>1. ASSUME next = "mut"
        PROVE  arcs'[t] = 1 /\ weaks'[t] = 0 /\ \A u \in Threads \ {t} : pc'[u] = "idle" /\ arcs'[u] = 0 /\ weaks'[u] = 0
    <3>1. Held[t] = 1 /\ \A u \in Threads \ {t} : pc[u] = "idle" /\ arcs[u] = 0 /\ weaks[u] = 0
      BY <1>6, <1>8, <2>1, Zenon
    <3>2. Held[t] = arcs[t] + weaks[t] + 0
      BY <1>2, CountOf, Zenon
    <3>3. arcs[t] = 1 /\ weaks[t] = 0
      <4>1. arcs[t] \in Nat /\ weaks[t] \in Nat
        BY <1>3, Zenon
      <4>2. QED
        BY <1>2, <3>1, <3>2, <4>1, SMTT(30)
    <3>4. QED
      BY <1>2, <1>11, <3>1, <3>3, Zenon
  <2>2. QED
    BY <1>8, <1>11, <2>1, Zenon DEF WeakAlone
<1>19. QED
  BY <1>13, <1>14, <1>15, <1>16, <1>17, <1>18, Zenon DEF WeakRest

-----------------------------------------------------------------------------
(* The invariant is inductive: drops and writes. *)

\* Arc::drop(): what the last one does is ordered after what all others did.
LEMMA WeakDropArcPreserves ==
  ASSUME AccessLaw, RmwLaw, ContinueLaw, WeakRest, WeakFacts, NEW t \in Threads, DropArc(t, "drop_weak")
  PROVE  WeakRest' /\ Recounted(t)
<1> DEFINE c == Current(Data)
           a == <<"read", t>>
           m == Access(mem, t, a)
           r == Rmw(m, t, Data, c - 1, Release)
           next == IF c = 1 THEN "drop_value" ELSE "drop_weak"
<1>1. /\ pc[t] = "idle" /\ arcs[t] > 0
      /\ arcs' = [arcs EXCEPT ![t] = @ - 1]
      /\ UNCHANGED <<weaks, dropped, freed>>
      /\ Continue(t, r, next)
  BY Zenon DEF DropArc, Lose, Deref, endVars, Data
<1>2. /\ arcs \in [Threads -> Nat] /\ weaks \in [Threads -> Nat] /\ WeakLocal /\ WeakLoads
      /\ pc \in [Threads -> WeakLabels] /\ mem \in Memory /\ InOrder(mem, pc, arcs, weaks)
  BY Zenon DEF WeakRest, WeakTypes, WeakOrdered
<1>3. arcs[t] + weaks[t] > 0
  BY <1>1, <1>2
<1>4. /\ c \in Nat /\ c > 0 /\ dropped = 0 /\ Current(Alloc) \in Nat
      /\ \A u \in Threads : pc[u] \notin {"mut", "drop_value", "free"}
      /\ c = 1 => arcs[t] = 1 /\ \A u \in Threads \ {t} : arcs[u] = 0
  <2>1. \A u \in Threads : pc[u] \notin {"mut", "free"}
    BY <1>1, <1>3, Zenon DEF WeakFacts, HolderFacts
  <2>2. /\ c > 0 /\ dropped = 0 /\ \A u \in Threads : pc[u] # "drop_value"
        /\ c = 1 => arcs[t] = 1 /\ \A u \in Threads \ {t} : arcs[u] = 0
    BY <1>1, Zenon DEF WeakFacts, OwnerFacts
  <2>3. QED
    BY <2>1, <2>2, Zenon DEF WeakFacts, CounterFacts
<1>5. AccessResult(mem, t, a, m)
  <2>1. a \in Kinds \X Threads
    BY Zenon DEF Kinds
  <2> HIDE DEF a
  <2>2. QED
    BY <1>2, <2>1, Zenon DEF AccessLaw
<1> HIDE DEF m
<1>6. RmwResult(m, t, Data, c - 1, Release, r) /\ RmwLoads(m, t, Data, r)
  <2>1. c - 1 \in Nat /\ m \in Memory /\ Release \in {Relaxed, Release}
    BY <1>4, <1>5, SMTT(30) DEF AccessResult
  <2> HIDE DEF c
  <2>2. QED
    BY <2>1, Counters, Zenon DEF RmwLaw
<1>7. /\ r \in Memory /\ Newest(r, Data).val = c - 1 /\ Newest(r, Alloc).val = Current(Alloc)
      /\ Newest(r, Data).view.hb = mem.view[t].hb \cup {a} \cup (Newest(mem, Data).view.hb \ {a})
      /\ Newest(r, Alloc).view.hb = Newest(mem, Alloc).view.hb \ {a}
      /\ r.view[t].hb = mem.view[t].hb \cup {a}
      /\ Newest(mem, Data).view.hb \ {a} \subseteq r.pend[t].hb
      /\ \A u \in Threads \ {t} : r.view[u].hb = mem.view[u].hb \ {a}
  <2> HIDE DEF a, c, r
  <2>1. /\ Newest(m, Data).view.hb = Newest(mem, Data).view.hb \ {a}
        /\ Newest(m, Alloc).view.hb = Newest(mem, Alloc).view.hb \ {a}
        /\ Newest(m, Alloc).val = Current(Alloc)
        /\ m.view[t].hb = mem.view[t].hb \cup {a}
        /\ \A u \in Threads \ {t} : m.view[u].hb = mem.view[u].hb \ {a}
    BY <1>5, Counters, Zenon DEF AccessResult, Current
  <2>2. Newest(r, Alloc) = Newest(m, Alloc)
    BY <1>6, Counters, Zenon DEF RmwResult, Newest
  <2>3. QED
    BY <1>6, <2>1, <2>2, Zenon DEF RmwResult
<1>8. \A u \in Threads \ {t} : a \notin Accesses(u)
  BY Zenon DEF Accesses
<1>9. /\ arcs' \in [Threads -> Nat] /\ weaks' = weaks /\ arcs'[t] = arcs[t] - 1
      /\ \A u \in Threads \ {t} : arcs'[u] = arcs[u]
  BY <1>1, <1>2
<1>10. \A u \in Threads : arcs'[u] > 0 => Fresh(r, u, Alloc)
  <2> SUFFICES ASSUME NEW u \in Threads, arcs'[u] > 0
               PROVE  Fresh(r, u, Alloc)
    BY Zenon
  <2>1. arcs[u] > 0
    BY <1>1, <1>9, Zenon
  <2>2. Fresh(m, u, Alloc)
    BY <1>2, <1>5, <2>1, Counters, Zenon DEF WeakLoads, AccessResult
  <2>3. QED
    BY <1>6, <2>2, Counters, Zenon DEF RmwLoads
<1> HIDE DEF r, a
<1>11. pc' = [pc EXCEPT ![t] = next]
  BY <1>1, Zenon DEF Continue
<1>12. /\ pc' \in [Threads -> WeakLabels] /\ pc'[t] = next /\ \A u \in Threads \ {t} : pc'[u] = pc[u]
       /\ next \in {"drop_value", "drop_weak"} /\ (next = "drop_value" <=> c = 1)
  BY <1>2, <1>11, Zenon DEF WeakLabels
<1> HIDE DEF next, c
<1>13. InOrder(r, pc', arcs', weaks')
  <2>1. ASSUME c - 1 > 0, NEW u \in Threads, arcs'[u] = 0
        PROVE  Accesses(u) \subseteq Newest(r, Data).view.hb
    <3>1. CASE u = t
      BY <1>2, <1>3, <1>7, <3>1, Zenon DEF InOrder
    <3>2. CASE u # t
      <4>1. Accesses(u) \subseteq Newest(mem, Data).view.hb
        BY <1>2, <1>4, <1>9, <2>1, <3>2, Zenon DEF InOrder, c, Current
      <4>2. QED
        BY <1>7, <1>8, <3>2, <4>1, Zenon
    <3>3. QED
      BY <3>1, <3>2, Zenon
  <2>2. ASSUME Current(Alloc) > 0, NEW u \in Threads, arcs'[u] = 0, pc'[u] \notin {"drop_value", "drop_weak"}
        PROVE  Accesses(u) \subseteq Newest(r, Alloc).view.hb
    <3>1. u # t
      BY <1>12, <2>2, Zenon
    <3>2. Accesses(u) \subseteq Newest(mem, Alloc).view.hb
      BY <1>2, <1>9, <1>12, <2>2, <3>1, Zenon DEF InOrder, Current
    <3>3. QED
      BY <1>7, <1>8, <3>1, <3>2, Zenon
  <2>3. ASSUME NEW u \in Threads, pc'[u] # "idle" \/ arcs'[u] + weaks'[u] > 0
        PROVE  Accesses(u) \subseteq r.view[u].hb
    <3>1. Accesses(u) \subseteq mem.view[u].hb
      BY <1>2, <1>3, <1>9, <1>12, <2>3, Zenon DEF InOrder
    <3>2. QED
      BY <1>7, <1>8, <3>1, Zenon
  <2>4. ASSUME NEW u \in Threads, pc'[u] \in {"mut", "drop_value", "free"}, NEW w \in Threads \ {u}
        PROVE  Accesses(w) \subseteq r.view[u].hb \cup r.pend[u].hb
    <3>1. u = t /\ c = 1
      BY <1>4, <1>12, <2>4, Zenon
    <3>2. Accesses(w) \subseteq Newest(mem, Data).view.hb
      BY <1>2, <1>4, <3>1, Zenon DEF InOrder, c, Current
    <3>3. QED
      BY <1>7, <1>8, <3>1, <3>2, Zenon
  <2>5. QED
    BY <1>7, <2>1, <2>2, <2>3, <2>4, Zenon DEF InOrder
<1>14. /\ mem' \in Memory /\ Current(Data)' = c - 1 /\ Current(Alloc)' = Current(Alloc)
       /\ WeakLoads' /\ WeakOrdered'
  BY <1>1, <1>2, <1>7, <1>9, <1>10, <1>13, WeakContinue, Zenon
<1>15. WeakTypes'
  BY <1>2, <1>9, <1>12, <1>14, Zenon DEF WeakTypes
<1>16. Recounted(t)
  <2>1. PICK none \in {-1, 0, 1} : none = 0
    BY Zenon
  <2>2. PICK less \in {-1, 0, 1} : less = -1
    BY Zenon
  <2>3. /\ Held'[t] = Held[t] + none /\ Sure'[t] = Sure[t] + less /\ Possible'[t] = Possible[t] + less
    BY <1>1, <1>2, <1>9, <1>12, <2>1, <2>2, CountOf, SMTT(30)
  <2>4. /\ Current(Data)' = Current(Data) + less /\ Current(Alloc)' = Current(Alloc) + none
        /\ none # 1 /\ less <= less
    BY <1>4, <1>14, <2>1, <2>2 DEF c
  <2>5. pc[t] # "abort" /\ \A u \in Threads \ {t} : arcs'[u] = arcs[u] /\ weaks'[u] = weaks[u]
    BY <1>1, <1>9, Zenon
  <2>6. WeakCounts(t, next, none, less, less, less)
    BY <1>11, <2>3, <2>4, <2>5, Zenon DEF WeakCounts
  <2>7. QED
    BY <2>6, Zenon DEF Recounted
<1>17. WeakLocal' /\ WeakAlone'
  BY <1>2, <1>4, <1>9, <1>12, Zenon DEF WeakLocal, WeakAlone
<1>18. ValuePhase'
  <2>1. dropped' = 0 /\ (c - 1 > 0 <=> c # 1) /\ (c - 1 = 0 <=> c = 1)
    BY <1>1, <1>4
  <2>2. \A u \in Threads : pc'[u] = "drop_value" <=> u = t /\ c = 1
    BY <1>4, <1>12, Zenon
  <2>3. QED
    BY <1>14, <2>1, <2>2, Zenon DEF ValuePhase
<1>19. BoxPhase'
  <2>1. \A u \in Threads : pc'[u] = "free" <=> pc[u] = "free"
    BY <1>1, <1>12, Zenon
  <2>2. QED
    BY <1>1, <1>14, <2>1, Zenon DEF BoxPhase, WeakRest
<1>20. QED
  BY <1>14, <1>15, <1>16, <1>17, <1>18, <1>19, Zenon DEF WeakRest

\* Weak::drop(), of a Weak and of the one that stands for an Arc: what the last
\* one does is ordered after what all others did.
LEMMA WeakDropPreserves ==
  ASSUME RmwLaw, ContinueLaw, WeakRest, WeakFacts, NEW t \in Threads, DropWeak(t) \/ DropInnerWeak(t)
  PROVE  WeakRest' /\ Recounted(t)
<1> DEFINE c == Current(Alloc)
           r == Rmw(mem, t, Alloc, c - 1, Release)
           next == IF c = 1 THEN "free" ELSE "idle"
<1>1. /\ arcs \in [Threads -> Nat] /\ weaks \in [Threads -> Nat] /\ WeakLocal /\ WeakLoads
      /\ pc \in [Threads -> WeakLabels] /\ mem \in Memory /\ InOrder(mem, pc, arcs, weaks)
  BY Zenon DEF WeakRest, WeakTypes, WeakOrdered
<1>2. /\ Continue(t, r, next) /\ UNCHANGED <<arcs, dropped, freed>>
      /\ \/ pc[t] = "idle" /\ weaks[t] > 0 /\ weaks' = [weaks EXCEPT ![t] = @ - 1]
         \/ pc[t] = "drop_weak" /\ weaks' = weaks
  BY Zenon DEF DropWeak, DropInnerWeak, Lose, FetchSubAlloc, Alloc, handleVars, endVars
<1>3. /\ weaks' \in [Threads -> Nat] /\ \A u \in Threads \ {t} : weaks'[u] = weaks[u]
      /\ pc[t] # "idle" \/ arcs[t] + weaks[t] > 0
      /\ \/ pc[t] = "idle" /\ weaks'[t] = weaks[t] - 1
         \/ pc[t] = "drop_weak" /\ weaks'[t] = weaks[t]
  BY <1>1, <1>2
<1>4. /\ c \in Nat /\ c > 0 /\ freed = 0 /\ \A u \in Threads : pc[u] \notin {"mut", "free"}
      /\ c = 1 => \A u \in Threads \ {t} : pc[u] = "idle" /\ arcs[u] = 0 /\ weaks[u] = 0
  BY <1>2, <1>3, Zenon DEF WeakFacts, HolderFacts, CounterFacts
<1>5. Current(Data) \in Nat
  BY Zenon DEF WeakFacts, CounterFacts
<1>6. c - 1 \in Nat /\ Release \in {Relaxed, Release}
  BY <1>4
<1>7. RmwResult(mem, t, Alloc, c - 1, Release, r) /\ RmwLoads(mem, t, Alloc, r)
  <2> HIDE DEF c
  <2> QED
    BY <1>1, <1>6, Counters, Zenon DEF RmwLaw
<1>8. /\ r \in Memory /\ Newest(r, Alloc).val = c - 1 /\ Newest(r, Data) = Newest(mem, Data)
      /\ Newest(r, Alloc).view.hb = mem.view[t].hb \cup Newest(mem, Alloc).view.hb
      /\ r.view[t].hb = mem.view[t].hb
      /\ Newest(mem, Alloc).view.hb \subseteq r.pend[t].hb
      /\ \A u \in Threads \ {t} : r.view[u] = mem.view[u] /\ r.pend[u] = mem.pend[u]
  <2> HIDE DEF c, r
  <2>1. Newest(r, Data) = Newest(mem, Data)
    BY <1>7, Counters, Zenon DEF RmwResult, Newest
  <2>2. QED
    BY <1>7, <2>1, Zenon DEF RmwResult
<1>9. \A u \in Threads : arcs'[u] > 0 => Fresh(r, u, Alloc)
  <2> SUFFICES ASSUME NEW u \in Threads, arcs'[u] > 0
               PROVE  Fresh(r, u, Alloc)
    BY Zenon
  <2>1. u = t \/ (Fresh(mem, u, Alloc) /\ Newest(mem, Alloc).val # 1)
    <3>1. CASE u # t
      <4>1. arcs[u] > 0 /\ c # 1
        BY <1>2, <1>4, <3>1, SMTT(30)
      <4>2. QED
        BY <1>1, <4>1, Zenon DEF WeakLoads, Current
    <3>2. QED
      BY <3>1, Zenon
  <2>2. QED
    BY <1>7, <2>1, Zenon DEF RmwLoads
<1> HIDE DEF r
<1>10. pc' = [pc EXCEPT ![t] = next]
  BY <1>2, Zenon DEF Continue
<1>11. /\ pc' \in [Threads -> WeakLabels] /\ pc'[t] = next /\ \A u \in Threads \ {t} : pc'[u] = pc[u]
       /\ next \in {"free", "idle"} /\ (next = "free" <=> c = 1)
  BY <1>1, <1>10, Zenon DEF WeakLabels
<1> HIDE DEF next, c
<1>12. InOrder(r, pc', arcs', weaks')
  <2>1. ASSUME Newest(r, Data).val > 0, NEW u \in Threads, arcs'[u] = 0
        PROVE  Accesses(u) \subseteq Newest(r, Data).view.hb
    BY <1>1, <1>2, <1>8, <2>1, Zenon DEF InOrder
  <2>2. Accesses(t) \subseteq mem.view[t].hb
    BY <1>1, <1>3, Zenon DEF InOrder
  <2>3. ASSUME c - 1 > 0, NEW u \in Threads, arcs'[u] = 0, pc'[u] \notin {"drop_value", "drop_weak"}
        PROVE  Accesses(u) \subseteq Newest(r, Alloc).view.hb
    <3>1. CASE u # t
      <4>1. Accesses(u) \subseteq Newest(mem, Alloc).view.hb
        BY <1>1, <1>2, <1>4, <1>11, <2>3, <3>1, Zenon DEF InOrder, c, Current
      <4>2. QED
        BY <1>8, <4>1, Zenon
    <3>2. QED
      BY <1>8, <2>2, <3>1, Zenon
  <2>4. ASSUME NEW u \in Threads, pc'[u] # "idle" \/ arcs'[u] + weaks'[u] > 0
        PROVE  Accesses(u) \subseteq r.view[u].hb
    <3>1. CASE u # t
      <4>1. Accesses(u) \subseteq mem.view[u].hb
        BY <1>1, <1>2, <1>3, <1>11, <2>4, <3>1, Zenon DEF InOrder
      <4>2. QED
        BY <1>8, <3>1, <4>1, Zenon
    <3>2. QED
      BY <1>8, <2>2, <3>1, Zenon
  <2>5. ASSUME NEW u \in Threads, pc'[u] \in {"mut", "drop_value", "free"}, NEW w \in Threads \ {u}
        PROVE  Accesses(w) \subseteq r.view[u].hb \cup r.pend[u].hb
    <3>1. CASE u = t
      <4>1. c = 1
        BY <1>11, <2>5, <3>1, Zenon
      <4>2. Accesses(w) \subseteq Newest(mem, Alloc).view.hb
        BY <1>1, <1>4, <3>1, <4>1, Zenon DEF InOrder, c, Current
      <4>3. QED
        BY <1>8, <3>1, <4>2, Zenon
    <3>2. CASE u # t
      <4>1. Accesses(w) \subseteq mem.view[u].hb \cup mem.pend[u].hb
        BY <1>1, <1>11, <2>5, <3>2, Zenon DEF InOrder
      <4>2. QED
        BY <1>8, <3>2, <4>1, Zenon
    <3>3. QED
      BY <3>1, <3>2, Zenon
  <2>6. QED
    BY <1>8, <2>1, <2>3, <2>4, <2>5, Zenon DEF InOrder
<1>13. /\ mem' \in Memory /\ Current(Data)' = Current(Data) /\ Current(Alloc)' = c - 1
       /\ WeakLoads' /\ WeakOrdered'
  <2>1. arcs' \in [Threads -> Nat]
    BY <1>1, <1>2, Zenon
  <2>2. /\ mem' \in Memory /\ Current(Data)' = Newest(r, Data).val /\ Current(Alloc)' = Newest(r, Alloc).val
        /\ WeakLoads' /\ WeakOrdered'
    BY <1>1, <1>2, <1>3, <1>8, <1>9, <1>12, <2>1, WeakContinue, Zenon
  <2>3. QED
    BY <1>8, <2>2, Zenon DEF Current
<1>14. WeakTypes'
  BY <1>1, <1>2, <1>3, <1>11, <1>13, Zenon DEF WeakTypes
<1>15. Recounted(t)
  <2>1. PICK none \in {-1, 0, 1} : none = 0
    BY Zenon
  <2>2. PICK less \in {-1, 0, 1} : less = -1
    BY Zenon
  <2>3. Held'[t] = Held[t] + less /\ Sure'[t] = Sure[t] + none /\ Possible'[t] = Possible[t] + none
    BY <1>1, <1>2, <1>3, <1>11, <2>1, <2>2, CountOf, SMTT(30)
  <2>4. /\ Current(Data)' = Current(Data) + none /\ Current(Alloc)' = Current(Alloc) + less
        /\ less # 1 /\ none <= none
    BY <1>4, <1>5, <1>13, <2>1, <2>2, SMTT(30) DEF c
  <2>5. pc[t] # "abort" /\ \A u \in Threads \ {t} : arcs'[u] = arcs[u] /\ weaks'[u] = weaks[u]
    BY <1>2, <1>3, Zenon
  <2>6. WeakCounts(t, next, less, none, none, none)
    BY <1>10, <2>3, <2>4, <2>5, Zenon DEF WeakCounts
  <2>7. QED
    BY <2>6, Zenon DEF Recounted
<1>16. WeakLocal' /\ WeakAlone'
  BY <1>1, <1>2, <1>3, <1>4, <1>11, Zenon DEF WeakLocal, WeakAlone
<1>17. ValuePhase'
  <2>1. \A u \in Threads : pc'[u] = "drop_value" <=> pc[u] = "drop_value"
    BY <1>3, <1>11, Zenon
  <2>2. QED
    BY <1>2, <1>13, <2>1, Zenon DEF ValuePhase, WeakRest
<1>18. BoxPhase'
  <2>1. freed' = 0 /\ (c - 1 > 0 <=> c # 1) /\ (c - 1 = 0 <=> c = 1)
    BY <1>2, <1>4
  <2>2. \A u \in Threads : pc'[u] = "free" <=> u = t /\ c = 1
    BY <1>4, <1>11, Zenon
  <2>3. QED
    BY <1>13, <2>1, <2>2, Zenon DEF BoxPhase
<1>19. QED
  BY <1>13, <1>14, <1>15, <1>16, <1>17, <1>18, Zenon DEF WeakRest

\* The thread that has the value or the memory for itself writes to it and goes
\* on to next ...
Finishing(t, next) ==
  /\ FencedWrite(t, next) /\ UNCHANGED <<arcs, weaks>>
  /\ pc[t] \in {"mut", "drop_value", "free"}
  /\ next = "drop_weak" <=> pc[t] = "drop_value"
  /\ \A u \in Threads \ {t} : pc[u] \notin {"mut", "drop_value", "free"}
  /\ Current(Data) > 0 => arcs[t] > 0
  /\ next = "idle" /\ Current(Alloc) > 0 => arcs[t] > 0

\* ... and no thread has them for itself then.
Written(t) ==
  /\ WeakTypes' /\ Recounted(t) /\ WeakLocal' /\ WeakAlone' /\ WeakLoads' /\ WeakOrdered'
  /\ Current(Data)' = Current(Data) /\ Current(Alloc)' = Current(Alloc)
  /\ \A u \in Threads : pc'[u] \notin {"mut", "drop_value", "free"}

\* A fenced write, by a thread that is the only one to have the value or its
\* memory for itself.
LEMMA WeakFencedWrite ==
  ASSUME FencedLaw, ContinueLaw, WeakRest, WeakFacts, NEW t \in Threads, NEW next \in {"idle", "drop_weak"},
         Finishing(t, next)
  PROVE  Written(t)
<1> USE DEF Finishing, Written
<1> DEFINE a == <<"write", t>>
           r == Access(Fence(mem, t), t, a)
<1>1. Continue(t, r, next)
  BY Zenon DEF FencedWrite
<1>2. /\ arcs \in [Threads -> Nat] /\ weaks \in [Threads -> Nat] /\ WeakLocal /\ WeakLoads
      /\ pc \in [Threads -> WeakLabels] /\ mem \in Memory /\ InOrder(mem, pc, arcs, weaks)
  BY Zenon DEF WeakRest, WeakTypes, WeakOrdered
<1>3. FencedResult(mem, t, r)
  BY <1>2, Zenon DEF FencedLaw
<1> HIDE DEF r
<1>4. /\ r \in Memory
      /\ Newest(r, Data).val = Current(Data) /\ Newest(r, Alloc).val = Current(Alloc)
      /\ Newest(r, Data).view.hb = Newest(mem, Data).view.hb \ {a}
      /\ Newest(r, Alloc).view.hb = Newest(mem, Alloc).view.hb \ {a}
      /\ mem.view[t].hb \subseteq r.view[t].hb
      /\ \A u \in Threads \ {t} : r.view[u].hb = mem.view[u].hb \ {a}
      /\ \A u \in Threads : Fresh(mem, u, Alloc) => Fresh(r, u, Alloc)
  BY <1>3, Counters, Zenon DEF FencedResult, Current
<1>5. \A u \in Threads \ {t} : a \notin Accesses(u)
  BY Zenon DEF Accesses
<1> HIDE DEF a
<1>6. pc' = [pc EXCEPT ![t] = next]
  BY <1>1, Zenon DEF Continue
<1>7. /\ pc' \in [Threads -> WeakLabels] /\ pc'[t] = next /\ \A u \in Threads \ {t} : pc'[u] = pc[u]
      /\ \A u \in Threads : pc'[u] \notin {"mut", "drop_value", "free"}
  BY <1>2, <1>6, Zenon DEF WeakLabels
<1>8. InOrder(r, pc', arcs', weaks')
  <2>1. ASSUME Current(Data) > 0, NEW u \in Threads, arcs'[u] = 0
        PROVE  Accesses(u) \subseteq Newest(r, Data).view.hb
    <3>1. u # t
      BY <1>2, <2>1
    <3>2. Accesses(u) \subseteq Newest(mem, Data).view.hb
      BY <1>2, <2>1, Zenon DEF InOrder, Current
    <3>3. QED
      BY <1>4, <1>5, <3>1, <3>2, Zenon
  <2>2. ASSUME Current(Alloc) > 0, NEW u \in Threads, arcs'[u] = 0, pc'[u] \notin {"drop_value", "drop_weak"}
        PROVE  Accesses(u) \subseteq Newest(r, Alloc).view.hb
    <3>1. u # t
      BY <1>2, <1>7, <2>2
    <3>2. Accesses(u) \subseteq Newest(mem, Alloc).view.hb
      BY <1>2, <1>7, <2>2, <3>1, Zenon DEF InOrder, Current
    <3>3. QED
      BY <1>4, <1>5, <3>1, <3>2, Zenon
  <2>3. ASSUME NEW u \in Threads, pc'[u] # "idle" \/ arcs'[u] + weaks'[u] > 0
        PROVE  Accesses(u) \subseteq r.view[u].hb
    <3>1. Accesses(u) \subseteq mem.view[u].hb
      BY <1>2, <1>7, <2>3, Zenon DEF InOrder
    <3>2. QED
      BY <1>4, <1>5, <3>1, Zenon
  <2>4. QED
    BY <1>4, <1>7, <2>1, <2>2, <2>3, Zenon DEF InOrder
<1>9. /\ mem' \in Memory /\ Current(Data)' = Current(Data) /\ Current(Alloc)' = Current(Alloc)
      /\ WeakLoads' /\ WeakOrdered'
  <2>1. arcs' \in [Threads -> Nat] /\ weaks' \in [Threads -> Nat]
    BY <1>2, Zenon
  <2>2. \A u \in Threads : arcs'[u] > 0 => Fresh(r, u, Alloc)
    BY <1>2, <1>4, Zenon DEF WeakLoads
  <2>3. QED
    BY <1>1, <1>2, <1>4, <1>8, <2>1, <2>2, WeakContinue, Zenon
<1>10. WeakTypes'
  BY <1>2, <1>7, <1>9, Zenon DEF WeakTypes
<1>11. Recounted(t)
  <2>1. Held'[t] = Held[t] /\ Sure'[t] = Sure[t] /\ Possible'[t] = Possible[t]
    <3>1. /\ pc'[t] \in {"clone_data", "drop_value", "drop_weak", "abort"} <=>
               pc[t] \in {"clone_data", "drop_value", "drop_weak", "abort"}
          /\ pc[t] \notin {"upgrade_clone", "abort"} /\ pc'[t] \notin {"upgrade_clone", "abort"}
      BY <1>7, Zenon
    <3>2. QED
      BY <3>1, CountOf, Zenon
  <2>2. pc[t] # "abort"
    BY Zenon
  <2>3. QED
    BY <1>2, <1>6, <1>9, <2>1, <2>2, SameRecount, Zenon DEF WeakTypes
<1>12. WeakLocal' /\ WeakAlone'
  BY <1>2, <1>7, Zenon DEF WeakLocal, WeakAlone
<1>13. QED
  BY <1>7, <1>9, <1>10, <1>11, <1>12, Zenon

\* The write through the reference that get_mut() returns, the drop of the
\* value, and the release of the memory.
LEMMA WeakWritePreserves ==
  ASSUME FencedLaw, ContinueLaw, WeakRest, WeakFacts, NEW t \in Threads, Mutate(t) \/ DropValue(t, "drop_weak") \/ Free(t)
  PROVE  WeakRest' /\ Recounted(t)
<1> USE DEF Written
<1>1. /\ arcs \in [Threads -> Nat] /\ weaks \in [Threads -> Nat] /\ pc \in [Threads -> WeakLabels]
      /\ ValuePhase /\ BoxPhase /\ WeakAlone
  BY Zenon DEF WeakRest, WeakTypes
<1>2. Current(Data) \in Nat /\ Current(Alloc) \in Nat /\ Current(Data) <= Current(Alloc)
  BY Zenon DEF WeakFacts, CounterFacts
<1>3. \A u \in Threads \ {t} : pc[t] \in {"mut", "drop_value"} => pc[u] # "free"
  BY Zenon DEF WeakFacts, HolderFacts
<1>4. CASE Mutate(t)
  <2>1. pc[t] = "mut" /\ FencedWrite(t, "idle") /\ UNCHANGED <<arcs, weaks, dropped, freed>>
    BY <1>4, Zenon DEF Mutate, handleVars, endVars
  <2>2. arcs[t] > 0 /\ \A u \in Threads \ {t} : pc[u] = "idle"
    BY <1>1, <2>1 DEF WeakAlone
  <2>3. Written(t)
    <3>1. Finishing(t, "idle")
      BY <2>1, <2>2, Zenon DEF Finishing
    <3>2. QED
      BY <3>1, WeakFencedWrite, Zenon
  <2>4. \A u \in Threads : pc[u] \notin {"drop_value", "free"}
    BY <2>1, <2>2, Zenon
  <2>5. ValuePhase' /\ BoxPhase'
    BY <1>1, <2>1, <2>3, <2>4, Zenon DEF ValuePhase, BoxPhase
  <2>6. QED
    BY <2>3, <2>5, Zenon DEF WeakRest
<1>5. CASE DropValue(t, "drop_weak")
  <2>1. pc[t] = "drop_value" /\ FencedWrite(t, "drop_weak") /\ UNCHANGED <<arcs, weaks, freed>> /\ dropped' = dropped + 1
    BY <1>5, Zenon DEF DropValue, handleVars
  <2>2. /\ Current(Data) = 0 /\ dropped = 0 /\ \A u \in Threads \ {t} : pc[u] # "drop_value"
    BY <1>1, <1>2, <2>1 DEF ValuePhase
  <2>3. \A u \in Threads : pc[u] \notin {"mut", "free"}
    BY <2>1, Zenon DEF WeakFacts, HolderFacts
  <2>4. Written(t)
    <3>1. \A u \in Threads \ {t} : pc[u] \notin {"mut", "drop_value", "free"}
      BY <2>2, <2>3, Zenon
    <3>2. ~(Current(Data) > 0)
      BY <2>2
    <3>3. Finishing(t, "drop_weak")
      BY <2>1, <3>1, <3>2, Zenon DEF Finishing
    <3>4. QED
      BY <3>3, WeakFencedWrite, Zenon
  <2>5. dropped' = 1 /\ ~(Current(Data) > 0)'
    BY <2>1, <2>2, <2>4, SMTT(30)
  <2>6. ValuePhase'
    <3>1. \A u \in Threads : pc'[u] # "drop_value"
      BY <2>4, Zenon
    <3>2. QED
      BY <2>5, <3>1, Zenon DEF ValuePhase
  <2>7. BoxPhase'
    BY <1>1, <2>1, <2>3, <2>4, Zenon DEF BoxPhase
  <2>8. QED
    BY <2>4, <2>6, <2>7, Zenon DEF WeakRest
<1>6. CASE Free(t)
  <2>1. pc[t] = "free" /\ FencedWrite(t, "idle") /\ UNCHANGED <<arcs, weaks, dropped>> /\ freed' = freed + 1
    BY <1>6, Zenon DEF Free, handleVars
  <2>2. Current(Alloc) = 0 /\ Current(Data) = 0 /\ freed = 0 /\ \A u \in Threads \ {t} : pc[u] # "free"
    BY <1>1, <1>2, <2>1 DEF BoxPhase
  <2>3. \A u \in Threads \ {t} : pc[u] = "idle"
    BY <2>1, <2>2, Zenon DEF WeakFacts, HolderFacts
  <2>4. Written(t)
    <3>1. \A u \in Threads \ {t} : pc[u] \notin {"mut", "drop_value", "free"}
      BY <2>3, Zenon
    <3>2. ~(Current(Data) > 0) /\ ~(Current(Alloc) > 0)
      BY <2>2
    <3>3. Finishing(t, "idle")
      BY <2>1, <3>1, <3>2, Zenon DEF Finishing
    <3>4. QED
      BY <3>3, WeakFencedWrite, Zenon
  <2>5. freed' = 1 /\ \A u \in Threads : pc[u] # "drop_value"
    BY <2>1, <2>2, <2>3
  <2>6. ValuePhase'
    BY <1>1, <2>1, <2>4, <2>5, Zenon DEF ValuePhase
  <2>7. BoxPhase'
    <3>1. (\A u \in Threads : pc'[u] # "free") /\ ~(Current(Alloc) > 0)'
      BY <2>2, <2>4, SMTT(30)
    <3>2. QED
      BY <2>5, <3>1, Zenon DEF BoxPhase
  <2>8. QED
    BY <2>4, <2>6, <2>7, Zenon DEF WeakRest
<1>7. QED
  BY <1>4, <1>5, <1>6, Zenon

\* It says nothing of aborted, n and the budget.
LEMMA WeakQuiet ==
  ASSUME WeakInv, UNCHANGED <<mem, pc, arcs, weaks, dropped, freed>>
  PROVE  WeakInv'
<1>1. /\ WeakTypes' /\ WeakLocal' /\ WeakAlone'
  BY Zenon DEF WeakInv, WeakRest, WeakTypes, WeakLocal, WeakAlone
<1>2. Held' = Held /\ Sure' = Sure /\ Possible' = Possible /\ Stuck' = Stuck
  BY Zenon DEF Held, Sure, Possible, Stuck
<1>3. WeakCounted'
  BY <1>2, Zenon DEF WeakInv, WeakCounted, Current
<1>4. ValuePhase' /\ BoxPhase'
  BY Zenon DEF WeakInv, WeakRest, ValuePhase, BoxPhase, Current
<1>5. WeakLoads' /\ WeakOrdered'
  BY Zenon DEF WeakInv, WeakRest, WeakLoads, WeakOrdered
<1>6. QED
  BY <1>1, <1>3, <1>4, <1>5, Zenon DEF WeakInv, WeakRest

-----------------------------------------------------------------------------
(* The memory: the laws hold. *)

\* Views are closed under Join, which loses nothing.
LEMMA JoinViews ==
  ASSUME NEW v \in Views, NEW w \in Views
  PROVE  /\ Join(v, w) \in Views
         /\ Join(v, w).hb = v.hb \cup w.hb
BY Zenon DEF Join, Views

\* A view that knows nothing.
LEMMA NoViews == NoView(Locations) \in Views
BY DEF NoView, Views, Locations

\* View v after it has seen the k-th message of x.
Seen(v, x, k) == [v EXCEPT !.at[x] = k]

\* It is a view, and knows the same accesses.
LEMMA SeenViews ==
  ASSUME NEW v \in Views, NEW x \in Locations, NEW k \in Nat \ {0}
  PROVE  /\ Seen(v, x, k) \in Views
         /\ Seen(v, x, k).hb = v.hb
         /\ Seen(v, x, k).at[x] = k
         /\ \A y \in Locations \ {x} : Seen(v, x, k).at[y] = v.at[y]
<1> DEFINE w == Seen(v, x, k)
<1>1. v = [at |-> v.at, hb |-> v.hb] /\ v.at \in [Locations -> Nat \ {0}]
      /\ v.hb \in SUBSET (Kinds \X Threads)
  BY Zenon DEF Views
<1>2. w = [at |-> [v.at EXCEPT ![x] = k], hb |-> v.hb]
  BY <1>1 DEF Seen
<1>3. /\ [v.at EXCEPT ![x] = k] \in [Locations -> Nat \ {0}] /\ [v.at EXCEPT ![x] = k][x] = k
      /\ \A y \in Locations \ {x} : [v.at EXCEPT ![x] = k][y] = v.at[y]
  BY <1>1, Zenon
<1> HIDE DEF w
<1>4. w \in Views /\ w.hb = v.hb /\ w.at = [v.at EXCEPT ![x] = k]
  BY <1>1, <1>2, <1>3, Zenon DEF Views
<1>5. QED
  BY <1>3, <1>4, Zenon DEF w

\* What a memory is made of.
LEMMA MemoryParts ==
  ASSUME NEW m \in Memory
  PROVE  /\ DOMAIN m.mo = Locations
         /\ \A x \in Locations :
              /\ m.mo[x] \in Seq(Messages)
              /\ Len(m.mo[x]) \in Nat \ {0}
              /\ \A i \in 1..Len(m.mo[x]) : m.mo[x][i] \in Messages
              /\ Newest(m, x) = m.mo[x][Len(m.mo[x])]
              /\ Newest(m, x) \in Messages
         /\ \A t \in Threads : m.view[t] \in Views /\ m.pend[t] \in Views
<1>1. ASSUME NEW x \in Locations
      PROVE  /\ m.mo[x] \in Seq(Messages)
             /\ Len(m.mo[x]) \in Nat \ {0}
             /\ \A i \in 1..Len(m.mo[x]) : m.mo[x][i] \in Messages
             /\ Newest(m, x) = m.mo[x][Len(m.mo[x])]
             /\ Newest(m, x) \in Messages
  <2>1. m.mo[x] \in Seq(Messages) /\ m.mo[x] # <<>>
    BY Zenon DEF Memory
  <2>2. /\ Len(m.mo[x]) \in Nat \ {0}
        /\ \A i \in 1..Len(m.mo[x]) : m.mo[x][i] \in Messages
    BY <2>1
  <2>3. QED
    BY <2>1, <2>2 DEF Newest
<1>2. QED
  BY <1>1, Zenon DEF Memory

\* Rmw has that result.
LEMMA RmwMemory ==
  ASSUME NEW m \in Memory, NEW t \in Threads, NEW x \in Locations, NEW v \in Nat,
         NEW ord \in {Relaxed, Release}
  PROVE  RmwResult(m, t, x, v, ord, Rmw(m, t, x, v, ord))
<1> DEFINE old == Newest(m, x)
           k == Len(m.mo[x]) + 1
           published == IF ord = Release THEN Join(m.view[t], old.view) ELSE old.view
           pub == Seen(published, x, k)
           own == Seen(m.view[t], x, k)
           new == [val |-> v, view |-> pub]
           r == Rmw(m, t, x, v, ord)
<1>1. "Acquire" \notin ord /\ ("Release" \in ord <=> ord = Release)
  BY Zenon DEF Relaxed, Release
<1>2. r = [mo   |-> [m.mo EXCEPT ![x] = Append(@, new)],
           view |-> [m.view EXCEPT ![t] = own],
           pend |-> [m.pend EXCEPT ![t] = Join(@, old.view)]]
  BY <1>1, Zenon DEF Rmw, Seen
<1>3. /\ m.mo[x] \in Seq(Messages) /\ Len(m.mo[x]) \in Nat /\ old \in Messages
      /\ m.view[t] \in Views /\ m.pend[t] \in Views
  BY MemoryParts, Zenon
<1>4. old.view \in Views
  BY <1>3, Zenon DEF Messages
<1>5. published \in Views /\ published.hb = IF ord = Release THEN m.view[t].hb \cup old.view.hb
                                                             ELSE old.view.hb
  BY <1>3, <1>4, JoinViews, Zenon
<1>0. k \in Nat \ {0}
  BY <1>3
<1>6. pub \in Views /\ pub.hb = published.hb
  <2>1. published \in Views
    BY <1>5, Zenon
  <2> HIDE DEF published, k
  <2> QED
    BY <1>0, <2>1, SeenViews
<1>7. /\ own \in Views /\ own.hb = m.view[t].hb /\ own.at[x] = k
      /\ \A y \in Locations \ {x} : own.at[y] = m.view[t].at[y]
  <2> HIDE DEF k
  <2> QED
    BY <1>0, <1>3, SeenViews, SMTT(30)
<1>8. new \in Messages /\ new.view = pub /\ new.val = v
  <2> HIDE DEF pub
  <2> QED
    BY <1>6, Zenon DEF Messages
<1>9. Join(m.pend[t], old.view) \in Views /\ Join(m.pend[t], old.view).hb = m.pend[t].hb \cup old.view.hb
  BY <1>3, <1>4, JoinViews, Zenon
<1> HIDE DEF old, published, pub, own, new, r
<1>10. /\ Append(m.mo[x], new) \in Seq(Messages) \ {<<>>}
       /\ Len(Append(m.mo[x], new)) = k
       /\ Append(m.mo[x], new)[k] = new
       /\ \A i \in 1..Len(m.mo[x]) : Append(m.mo[x], new)[i] = m.mo[x][i]
  BY <1>3, <1>8
<1>11. r.mo = [m.mo EXCEPT ![x] = Append(@, new)] /\ r.view = [m.view EXCEPT ![t] = own]
       /\ r.pend = [m.pend EXCEPT ![t] = Join(@, old.view)]
  BY <1>2, Zenon
<1>12. r.mo[x] = Append(m.mo[x], new) /\ \A y \in Locations \ {x} : r.mo[y] = m.mo[y]
  BY <1>11, Zenon DEF Memory
<1>13. /\ r.view[t] = own /\ r.pend[t] = Join(m.pend[t], old.view)
       /\ \A u \in Threads \ {t} : r.view[u] = m.view[u] /\ r.pend[u] = m.pend[u]
  BY <1>11, Zenon DEF Memory
<1>14. r \in Memory
  BY <1>2, <1>7, <1>9, <1>10, Zenon DEF Memory
<1>15. Newest(r, x) = new
  BY <1>12, <1>10, Zenon DEF Newest
<1>16. QED
  BY <1>5, <1>6, <1>7, <1>8, <1>9, <1>10, <1>12, <1>13, <1>14, <1>15, Zenon
     DEF old, r, k, RmwResult

\* Load has that result.
LEMMA LoadMemory ==
  ASSUME NEW m \in Memory, NEW t \in Threads, NEW x \in Locations, NEW i \in 1..Len(m.mo[x])
  PROVE  LoadResult(m, t, x, i, Load(m, t, x, i, Relaxed))
<1> DEFINE read == m.mo[x][i].view
           own == Seen(m.view[t], x, i)
           r == Load(m, t, x, i, Relaxed)
<1>1. "Acquire" \notin Relaxed
  BY Zenon DEF Relaxed
<1>2. r = [m EXCEPT !.view[t] = own, !.pend[t] = Join(@, read)]
  BY <1>1, Zenon DEF Load, Seen
<1>3. m.mo[x][i] \in Messages /\ m.view[t] \in Views /\ m.pend[t] \in Views /\ i \in Nat \ {0}
  BY MemoryParts, SMTT(30)
<1>4. read \in Views
  BY <1>3, Zenon DEF Messages
<1>5. /\ own \in Views /\ own.hb = m.view[t].hb /\ own.at[x] = i
      /\ \A y \in Locations \ {x} : own.at[y] = m.view[t].at[y]
  <2> DEFINE v == m.view[t]
  <2>1. v \in Views /\ i \in Nat \ {0}
    BY <1>3, Zenon
  <2> HIDE DEF v
  <2>2. /\ Seen(v, x, i) \in Views /\ Seen(v, x, i).hb = v.hb /\ Seen(v, x, i).at[x] = i
        /\ \A y \in Locations \ {x} : Seen(v, x, i).at[y] = v.at[y]
    BY <2>1, SeenViews
  <2>3. QED
    BY <2>2, Zenon DEF v
<1>6. Join(m.pend[t], read) \in Views /\ Join(m.pend[t], read).hb = m.pend[t].hb \cup read.hb
  BY <1>3, <1>4, JoinViews, Zenon
<1> HIDE DEF read, own, r
<1>7. m = [mo |-> m.mo, view |-> m.view, pend |-> m.pend]
  BY Zenon DEF Memory
<1>8. r = [mo   |-> m.mo,
           view |-> [m.view EXCEPT ![t] = own],
           pend |-> [m.pend EXCEPT ![t] = Join(m.pend[t], read)]]
  BY <1>2, <1>7, Zenon
<1>9. /\ r.mo = m.mo /\ r.view[t] = own /\ r.pend[t] = Join(m.pend[t], read)
      /\ \A u \in Threads \ {t} : r.view[u] = m.view[u] /\ r.pend[u] = m.pend[u]
  BY <1>8, Zenon DEF Memory
<1>10. r \in Memory
  BY <1>8, <1>5, <1>6, Zenon DEF Memory
<1>11. QED
  BY <1>5, <1>6, <1>9, <1>10, Zenon DEF r, read, LoadResult

\* fence(Acquire) adds the accesses of the messages read.
LEMMA FenceMemory ==
  ASSUME NEW m \in Memory, NEW t \in Threads
  PROVE  LET r == Fence(m, t)
         IN  /\ r \in Memory
             /\ r.mo = m.mo
             /\ r.pend = m.pend
             /\ r.view[t].hb = m.view[t].hb \cup m.pend[t].hb
             /\ \A x \in Locations : m.view[t].at[x] <= r.view[t].at[x]
             /\ \A u \in Threads \ {t} : r.view[u] = m.view[u]
<1> DEFINE own == Join(m.view[t], m.pend[t])
           r == Fence(m, t)
<1>1. m.view[t] \in Views /\ m.pend[t] \in Views
  BY MemoryParts, Zenon
<1>2. own \in Views /\ own.hb = m.view[t].hb \cup m.pend[t].hb
  BY <1>1, JoinViews, Zenon
<1>3. \A x \in Locations : m.view[t].at[x] <= own.at[x]
  BY <1>1, SMTT(30) DEF Join, Views
<1>4. r = [m EXCEPT !.view[t] = own]
  BY Zenon DEF Fence, Learn
<1> HIDE DEF own, r
<1>5. m = [mo |-> m.mo, view |-> m.view, pend |-> m.pend]
  BY Zenon DEF Memory
<1>6. r = [mo |-> m.mo, view |-> [m.view EXCEPT ![t] = own], pend |-> m.pend]
  BY <1>4, <1>5, Zenon
<1>7. /\ r.mo = m.mo /\ r.pend = m.pend /\ r.view[t] = own
      /\ \A u \in Threads \ {t} : r.view[u] = m.view[u]
  BY <1>6, Zenon DEF Memory
<1>8. r \in Memory
  BY <1>6, <1>2, Zenon DEF Memory
<1>9. QED
  BY <1>2, <1>3, <1>7, <1>8, Zenon DEF r

\* What t has read is of no more use.
LEMMA SettleMemory ==
  ASSUME NEW m \in Memory, NEW t \in Threads
  PROVE  LET r == Settle(m, t)
         IN  /\ r \in Memory
             /\ r.mo = m.mo
             /\ r.view = m.view
             /\ \A u \in Threads \ {t} : r.pend[u] = m.pend[u]
<1> DEFINE r == Settle(m, t)
<1>1. NoView(Locations) \in Views
  BY NoViews, Zenon
<1>2. m = [mo |-> m.mo, view |-> m.view, pend |-> m.pend] /\ DOMAIN m.mo = Locations
  BY Zenon DEF Memory
<1>3. r = [mo |-> m.mo, view |-> m.view, pend |-> [m.pend EXCEPT ![t] = NoView(Locations)]]
  BY <1>2 DEF Settle
<1> HIDE DEF r
<1>4. r \in Memory
  BY <1>1, <1>3, Zenon DEF Memory
<1>5. r.mo = m.mo /\ r.view = m.view /\ \A u \in Threads \ {t} : r.pend[u] = m.pend[u]
  BY <1>3, Zenon DEF Memory
<1>6. QED
  BY <1>4, <1>5, Zenon DEF r

\* A function on 1..k is a sequence.
LEMMA MessageSeq ==
  ASSUME NEW k \in Nat \ {0}, NEW r \in [1..k -> Messages]
  PROVE  r \in Seq(Messages) \ {<<>>} /\ Len(r) = k
<1>1. r \in Seq(Messages)
  OBVIOUS
<1>2. Len(r) \in Nat /\ DOMAIN r = 1..Len(r)
  BY <1>1
<1>3. 1..Len(r) = 1..k
  BY <1>2, Zenon
<1>4. Len(r) = k
  <2>1. k \in 1..Len(r) /\ (Len(r) > 0 => Len(r) \in 1..k)
    BY <1>2, <1>3
  <2>2. QED
    BY <1>2, <2>1
<1>5. QED
  BY <1>1, <1>4, Zenon

\* A view without the access a, and one with it.
Without(v, a) == [v EXCEPT !.hb = @ \ {a}]
With(v, a) == [v EXCEPT !.hb = @ \cup {a}]

\* They are views, and the atomics are as they were.
LEMMA AccessViews ==
  ASSUME NEW v \in Views, NEW a \in Kinds \X Threads
  PROVE  /\ Without(v, a) \in Views /\ With(v, a) \in Views
         /\ Without(v, a).hb = v.hb \ {a} /\ With(v, a).hb = v.hb \cup {a}
         /\ Without(v, a).at = v.at /\ With(v, a).at = v.at
<1>1. v = [at |-> v.at, hb |-> v.hb] /\ v.at \in [Locations -> Nat \ {0}]
      /\ v.hb \in SUBSET (Kinds \X Threads)
  BY Zenon DEF Views
<1>2. Without(v, a) = [at |-> v.at, hb |-> v.hb \ {a}]
  BY <1>1 DEF Without
<1>3. With(v, a) = [at |-> v.at, hb |-> v.hb \cup {a}]
  BY <1>1 DEF With
<1>4. Without(v, a) \in Views /\ Without(v, a).hb = v.hb \ {a} /\ Without(v, a).at = v.at
  BY <1>1, <1>2 DEF Views
<1>5. With(v, a) \in Views /\ With(v, a).hb = v.hb \cup {a} /\ With(v, a).at = v.at
  BY <1>1, <1>3, SMTT(30) DEF Views
<1>6. QED
  BY <1>4, <1>5, Zenon

\* A message with view w.
WithView(msg, w) == [msg EXCEPT !.view = w]

\* It has the same value.
LEMMA ViewMessages ==
  ASSUME NEW msg \in Messages, NEW w \in Views
  PROVE  WithView(msg, w) \in Messages /\ WithView(msg, w).val = msg.val /\ WithView(msg, w).view = w
<1>1. msg = [val |-> msg.val, view |-> msg.view] /\ msg.val \in Nat
  BY Zenon DEF Messages
<1>2. WithView(msg, w) = [val |-> msg.val, view |-> w]
  BY <1>1 DEF WithView
<1>3. QED
  BY <1>1, <1>2 DEF Messages

\* r is m after the access a of t, message by message: a is in no view but its own.
Accessed(m, t, a, r) ==
  /\ r \in Memory
  /\ \A x \in Locations :
       /\ Len(r.mo[x]) = Len(m.mo[x])
       /\ \A i \in 1..Len(m.mo[x]) : /\ r.mo[x][i].val = m.mo[x][i].val
                                     /\ r.mo[x][i].view.hb = m.mo[x][i].view.hb \ {a}
  /\ \A u \in Threads : /\ r.view[u].at = m.view[u].at
                        /\ r.pend[u].hb = m.pend[u].hb \ {a}
  /\ \A u \in Threads \ {t} : r.view[u].hb = m.view[u].hb \ {a}
  /\ r.view[t].hb = m.view[t].hb \cup {a}

\* Access does that.
LEMMA AccessMemory ==
  ASSUME NEW m \in Memory, NEW t \in Threads, NEW a \in Kinds \X Threads
  PROVE  Accessed(m, t, a, Access(m, t, a))
<1> USE DEF Accessed
<1> DEFINE r == Access(m, t, a)
           W(v) == Without(v, a)
           old(x, i) == m.mo[x][i]
           msgs(x) == [i \in 1..Len(m.mo[x]) |-> WithView(old(x, i), W(old(x, i).view))]
           mapped == [mo   |-> [x \in Locations |-> msgs(x)],
                      view |-> [u \in Threads |-> W(m.view[u])],
                      pend |-> [u \in Threads |-> W(m.pend[u])]]
<1>1. DOMAIN m.mo = Locations /\ \A x \in Locations : DOMAIN m.mo[x] = 1..Len(m.mo[x])
  BY MemoryParts
<1>2. r = [[mo   |-> [x \in DOMAIN m.mo |->
                        [i \in DOMAIN m.mo[x] |->
                           [m.mo[x][i] EXCEPT !.view = [m.mo[x][i].view EXCEPT !.hb = @ \ {a}]]]],
            view |-> [u \in Threads |-> [m.view[u] EXCEPT !.hb = @ \ {a}]],
            pend |-> [u \in Threads |-> [m.pend[u] EXCEPT !.hb = @ \ {a}]]]
             EXCEPT !.view[t].hb = @ \cup {a}]
  BY Zenon DEF Access, MapViews
<1>3. r = [mapped EXCEPT !.view[t].hb = @ \cup {a}]
  <2>1. \A x \in Locations :
          [i \in DOMAIN m.mo[x] |->
             [m.mo[x][i] EXCEPT !.view = [m.mo[x][i].view EXCEPT !.hb = @ \ {a}]]] = msgs(x)
    BY <1>1, Zenon DEF WithView, Without
  <2>2. [x \in DOMAIN m.mo |->
           [i \in DOMAIN m.mo[x] |->
              [m.mo[x][i] EXCEPT !.view = [m.mo[x][i].view EXCEPT !.hb = @ \ {a}]]]]
          = [x \in Locations |-> msgs(x)]
    BY <1>1, <2>1, Zenon
  <2>3. /\ [u \in Threads |-> [m.view[u] EXCEPT !.hb = @ \ {a}]] = [u \in Threads |-> W(m.view[u])]
        /\ [u \in Threads |-> [m.pend[u] EXCEPT !.hb = @ \ {a}]] = [u \in Threads |-> W(m.pend[u])]
    BY Zenon DEF Without
  <2> HIDE DEF r, W, msgs
  <2>4. QED
    BY <1>2, <2>2, <2>3, Zenon
<1>4. \A u \in Threads : /\ m.view[u] \in Views /\ m.pend[u] \in Views
                         /\ W(m.view[u]) \in Views /\ W(m.pend[u]) \in Views
                         /\ W(m.view[u]).at = m.view[u].at
                         /\ W(m.view[u]).hb = m.view[u].hb \ {a}
                         /\ W(m.pend[u]).hb = m.pend[u].hb \ {a}
  BY MemoryParts, AccessViews, SMTT(30)
<1>5. ASSUME NEW x \in Locations
      PROVE  /\ msgs(x) \in Seq(Messages) \ {<<>>}
             /\ Len(msgs(x)) = Len(m.mo[x])
             /\ \A i \in 1..Len(m.mo[x]) : /\ msgs(x)[i].val = m.mo[x][i].val
                                           /\ msgs(x)[i].view.hb = m.mo[x][i].view.hb \ {a}
  <2>1. Len(m.mo[x]) \in Nat \ {0} /\ \A i \in 1..Len(m.mo[x]) : old(x, i) \in Messages
    BY MemoryParts, Zenon
  <2>2. \A i \in 1..Len(m.mo[x]) : old(x, i).view \in Views
    BY <2>1, Zenon DEF Messages
  <2>3. \A i \in 1..Len(m.mo[x]) : /\ W(old(x, i).view) \in Views
                                   /\ W(old(x, i).view).hb = old(x, i).view.hb \ {a}
    BY <2>2, AccessViews, Zenon
  <2> HIDE DEF W, old
  <2>4. ASSUME NEW i \in 1..Len(m.mo[x])
        PROVE  /\ msgs(x)[i] \in Messages
               /\ msgs(x)[i].val = old(x, i).val
               /\ msgs(x)[i].view.hb = old(x, i).view.hb \ {a}
    <3>1. msgs(x)[i] = WithView(old(x, i), W(old(x, i).view))
      BY Zenon
    <3>2. QED
      BY <2>1, <2>3, <3>1, ViewMessages, SMTT(30)
  <2>5. msgs(x) \in [1..Len(m.mo[x]) -> Messages]
    BY <2>4, Zenon
  <2>6. msgs(x) \in Seq(Messages) \ {<<>>} /\ Len(msgs(x)) = Len(m.mo[x])
    <3> HIDE DEF msgs
    <3> QED
      BY <2>1, <2>5, MessageSeq, Zenon
  <2>7. QED
    BY <2>4, <2>6, Zenon DEF old
<1>6. With(W(m.view[t]), a) \in Views /\ With(W(m.view[t]), a).at = m.view[t].at
      /\ With(W(m.view[t]), a).hb = m.view[t].hb \cup {a}
  BY <1>4, AccessViews, SMTT(30)
<1>7. r = [mo |-> mapped.mo, view |-> [mapped.view EXCEPT ![t] = With(W(m.view[t]), a)], pend |-> mapped.pend]
  <2>1. mapped.view[t] = W(m.view[t])
    BY Zenon
  <2>2. mapped = [mo |-> mapped.mo, view |-> mapped.view, pend |-> mapped.pend]
    BY Zenon
  <2>3. [mapped.view[t] EXCEPT !.hb = @ \cup {a}] = With(W(m.view[t]), a)
    BY <2>1, Zenon DEF With
  <2> HIDE DEF mapped, r, W
  <2>4. QED
    BY <1>3, <2>2, <2>3, Zenon
<1> HIDE DEF r, W, msgs
<1>8. /\ \A x \in Locations : r.mo[x] = msgs(x)
      /\ \A u \in Threads \ {t} : r.view[u] = W(m.view[u])
      /\ r.view[t] = With(W(m.view[t]), a)
      /\ \A u \in Threads : r.pend[u] = W(m.pend[u])
  BY <1>7, Zenon
<1>9. r \in Memory
  BY <1>4, <1>5, <1>6, <1>7, Zenon DEF Memory
<1>10. /\ r.view[t].at = m.view[t].at
       /\ r.view[t].hb = m.view[t].hb \cup {a}
       /\ \A u \in Threads \ {t} : r.view[u].at = m.view[u].at /\ r.view[u].hb = m.view[u].hb \ {a}
       /\ \A u \in Threads : r.pend[u].hb = m.pend[u].hb \ {a}
  BY <1>4, <1>6, <1>8, Zenon
<1>11. \A x \in Locations :
                  /\ Len(r.mo[x]) = Len(m.mo[x])
                  /\ \A i \in 1..Len(m.mo[x]) : /\ r.mo[x][i].val = m.mo[x][i].val
                                                /\ r.mo[x][i].view.hb = m.mo[x][i].view.hb \ {a}
  BY <1>5, <1>8, SMTT(30)
<1>12. QED
  BY <1>9, <1>10, <1>11, Zenon DEF r

\* The first message that is kept is one that exists, and not after the oldest
\* one that a live thread may load.
LEMMA FirstKept ==
  ASSUME LeastLaw, NEW m \in Memory, NEW live \in SUBSET Threads, NEW x \in Locations
  PROVE  /\ FirstLoadable(m, live)[x] \in 1..Len(m.mo[x])
         /\ \A u \in live : FirstLoadable(m, live)[x] <= m.view[u].at[x]
<1> DEFINE S == {m.view[u].at[x] : u \in live} \cup {Len(m.mo[x])}
<1>1. Len(m.mo[x]) \in Nat \ {0} /\ \A u \in live : m.view[u] \in Views
  BY MemoryParts, Zenon
<1>2. \A u \in live : m.view[u].at[x] \in Nat \ {0}
  BY <1>1, Zenon DEF Views
<1>3. S \in SUBSET Nat /\ S # {} /\ Len(m.mo[x]) \in S /\ \A y \in S : y # 0
  BY <1>1, <1>2, Zenon
<1>4. Least(S) \in S /\ \A y \in S : Least(S) <= y
  <2> HIDE DEF S
  <2> QED
    BY <1>3, Zenon DEF LeastLaw
<1>5. FirstLoadable(m, live)[x] = Least(S)
  BY MemoryParts, Zenon DEF FirstLoadable, Least
<1>6. \A u \in live : m.view[u].at[x] \in S
  BY Zenon
<1> HIDE DEF S
<1>7. Least(S) \in Nat /\ Least(S) # 0
  BY <1>3, <1>4, Zenon
<1>8. Least(S) <= Len(m.mo[x]) /\ \A u \in live : Least(S) <= m.view[u].at[x]
  BY <1>3, <1>4, <1>6, Zenon
<1>9. QED
  BY <1>1, <1>5, <1>7, <1>8

\* A view with the indices that hold when the messages before first are gone.
Shifted(v, first) ==
  [v EXCEPT !.at = [x \in Locations |-> IF v.at[x] < first[x] THEN 1 ELSE v.at[x] - first[x] + 1]]

\* It is a view, and knows the same accesses.
LEMMA ShiftedViews ==
  ASSUME NEW v \in Views, NEW first, \A x \in Locations : first[x] \in Nat \ {0}
  PROVE  /\ Shifted(v, first) \in Views
         /\ Shifted(v, first).hb = v.hb
         /\ \A x \in Locations : first[x] <= v.at[x] => Shifted(v, first).at[x] = v.at[x] - first[x] + 1
<1> DEFINE at == [x \in Locations |-> IF v.at[x] < first[x] THEN 1 ELSE v.at[x] - first[x] + 1]
<1>1. v = [at |-> v.at, hb |-> v.hb] /\ v.at \in [Locations -> Nat \ {0}]
      /\ v.hb \in SUBSET (Kinds \X Threads)
  BY Zenon DEF Views
<1>2. at \in [Locations -> Nat \ {0}]
  BY <1>1
<1>3. \A x \in Locations : first[x] <= v.at[x] => at[x] = v.at[x] - first[x] + 1
  BY <1>1
<1>4. Shifted(v, first) = [at |-> at, hb |-> v.hb]
  BY <1>1 DEF Shifted
<1> HIDE DEF at
<1>5. QED
  BY <1>1, <1>2, <1>3, <1>4, SMTT(30) DEF Views

\* What is left when the messages that nobody can load are forgotten: the live
\* threads know what they knew, and the newest message is the newest message.
LEMMA ForgetMemory ==
  ASSUME LeastLaw, NEW m \in Memory, NEW live \in SUBSET Threads
  PROVE  LET first == FirstLoadable(m, live)
             r == Forget(m, first, live)
         IN  /\ r \in Memory
             /\ \A x \in Locations :
                  /\ Len(r.mo[x]) = Len(m.mo[x]) - first[x] + 1
                  /\ \A i \in 1..Len(r.mo[x]) :
                       /\ r.mo[x][i].val = m.mo[x][i + first[x] - 1].val
                       /\ r.mo[x][i].view.hb = m.mo[x][i + first[x] - 1].view.hb
             /\ \A u \in live : /\ r.view[u].hb = m.view[u].hb
                                /\ r.pend[u].hb = m.pend[u].hb
                                /\ \A x \in Locations : r.view[u].at[x] = m.view[u].at[x] - first[x] + 1
<1> DEFINE first == FirstLoadable(m, live)
           r == Forget(m, first, live)
           S(v) == Shifted(v, first)
           len(x) == Len(m.mo[x]) - first[x] + 1
           old(x, i) == m.mo[x][i + first[x] - 1]
           msgs(x) == [i \in 1..len(x) |-> WithView(old(x, i), S(old(x, i).view))]
           kept == [mo   |-> [x \in Locations |-> msgs(x)],
                    view |-> [u \in Threads |-> IF u \in live THEN S(m.view[u]) ELSE NoView(Locations)],
                    pend |-> [u \in Threads |-> IF u \in live THEN S(m.pend[u]) ELSE NoView(Locations)]]
<1>1. DOMAIN first = Locations
  BY MemoryParts, Zenon DEF FirstLoadable
<1>2. \A x \in Locations : /\ first[x] \in 1..Len(m.mo[x])
                           /\ first[x] \in Nat \ {0}
                           /\ Len(m.mo[x]) \in Nat
                           /\ \A u \in live : first[x] <= m.view[u].at[x]
  BY FirstKept, MemoryParts, SMTT(30)
<1> HIDE DEF first
<1>3. r = kept
  BY <1>1, Zenon DEF Forget, WithView, Shifted
<1>4. \A v \in Views : /\ S(v) \in Views /\ S(v).hb = v.hb
                       /\ \A x \in Locations : first[x] <= v.at[x] => S(v).at[x] = v.at[x] - first[x] + 1
  BY <1>2, ShiftedViews, Zenon
<1> HIDE DEF S
<1>5. ASSUME NEW x \in Locations
      PROVE  /\ msgs(x) \in Seq(Messages) \ {<<>>}
             /\ Len(msgs(x)) = len(x)
             /\ \A i \in 1..len(x) : /\ msgs(x)[i].val = old(x, i).val
                                     /\ msgs(x)[i].view.hb = old(x, i).view.hb
  <2>1. len(x) \in Nat \ {0} /\ \A i \in 1..len(x) : i + first[x] - 1 \in 1..Len(m.mo[x])
    <3> DEFINE f == first[x]
               l == Len(m.mo[x])
    <3>1. f \in Nat /\ 1 <= f /\ f <= l /\ l \in Nat
      BY <1>2
    <3> HIDE DEF f, l
    <3>2. l - f + 1 \in Nat \ {0} /\ \A i \in 1..(l - f + 1) : i + f - 1 \in 1..l
      BY <3>1
    <3>3. QED
      BY <3>2, Zenon DEF f, l
  <2>2. \A i \in 1..len(x) : old(x, i) \in Messages
    BY <2>1, MemoryParts, Zenon
  <2>3. \A i \in 1..len(x) : old(x, i).view \in Views
    BY <2>2, Zenon DEF Messages
  <2>4. \A i \in 1..len(x) : S(old(x, i).view) \in Views /\ S(old(x, i).view).hb = old(x, i).view.hb
    BY <1>4, <2>3, Zenon
  <2> HIDE DEF old, len
  <2>5. ASSUME NEW i \in 1..len(x)
        PROVE  /\ msgs(x)[i] \in Messages
               /\ msgs(x)[i].val = old(x, i).val
               /\ msgs(x)[i].view.hb = old(x, i).view.hb
    <3>1. msgs(x)[i] = WithView(old(x, i), S(old(x, i).view))
      BY Zenon
    <3>2. QED
      BY <2>2, <2>4, <3>1, ViewMessages, Zenon
  <2>6. msgs(x) \in [1..len(x) -> Messages]
    BY <2>5, Zenon
  <2>7. msgs(x) \in Seq(Messages) \ {<<>>} /\ Len(msgs(x)) = len(x)
    <3> HIDE DEF msgs
    <3> QED
      BY <2>1, <2>6, MessageSeq, Zenon
  <2>8. QED
    BY <2>5, <2>7, Zenon
<1> HIDE DEF r, msgs
<1>6. \A u \in Threads : m.view[u] \in Views /\ m.pend[u] \in Views
  BY MemoryParts, Zenon
<1>7. r \in Memory
  <2>1. \A u \in Threads : S(m.view[u]) \in Views /\ S(m.pend[u]) \in Views /\ NoView(Locations) \in Views
    BY <1>4, <1>6, NoViews, Zenon
  <2>2. QED
    BY <1>3, <1>5, <2>1, Zenon DEF Memory
<1>8. \A x \in Locations :
        /\ Len(r.mo[x]) = len(x)
        /\ \A i \in 1..Len(r.mo[x]) : /\ r.mo[x][i].val = old(x, i).val
                                      /\ r.mo[x][i].view.hb = old(x, i).view.hb
  <2>1. \A x \in Locations : r.mo[x] = msgs(x)
    BY <1>3, Zenon
  <2>2. QED
    BY <1>5, <2>1, SMTT(30)
<1>9. ASSUME NEW u \in live
      PROVE  /\ r.view[u].hb = m.view[u].hb
             /\ r.pend[u].hb = m.pend[u].hb
             /\ \A x \in Locations : r.view[u].at[x] = m.view[u].at[x] - first[x] + 1
  <2>1. r.view[u] = S(m.view[u]) /\ r.pend[u] = S(m.pend[u])
    BY <1>3, Zenon
  <2>2. QED
    BY <1>2, <1>4, <1>6, <2>1, Zenon
<1>10. QED
  BY <1>7, <1>8, <1>9, Zenon DEF r, first

\* When the first f - 1 messages of l are forgotten, l2 are left.
LEMMA Indices ==
  ASSUME NEW l \in Nat, NEW f \in Nat, 1 <= f, f <= l, NEW l2, l2 = l - f + 1
  PROVE  l2 \in 1..l2 /\ l2 + f - 1 = l
OBVIOUS

\* What Continue makes of memory m.
LEMMA ContinueMemory ==
  ASSUME LeastLaw, NEW m \in Memory, NEW t \in Threads, NEW next, Continue(t, m, next)
  PROVE  /\ mem' \in Memory
         /\ \A x \in Locations : /\ Newest(mem', x).val = Newest(m, x).val
                                 /\ Newest(mem', x).view.hb = Newest(m, x).view.hb
         /\ \A u \in Live' : /\ mem'.view[u].hb = m.view[u].hb
                             /\ u # t \/ next # "idle" => mem'.pend[u].hb = m.pend[u].hb
                             /\ \A x \in Locations : Fresh(m, u, x) => Fresh(mem', u, x)
<1> DEFINE m2 == IF next = "idle" THEN Settle(m, t) ELSE m
           live == Live'
           first == FirstLoadable(m2, live)
           r == Forget(m2, first, live)
<1>1. mem' = r
  BY Zenon DEF Continue
<1>2. /\ m2 \in Memory /\ m2.mo = m.mo /\ m2.view = m.view
      /\ \A u \in Threads : u # t \/ next # "idle" => m2.pend[u] = m.pend[u]
  <2>1. CASE next = "idle"
    BY <2>1, SettleMemory
  <2>2. CASE next # "idle"
    BY <2>2, Zenon
  <2>3. QED
    BY <2>1, <2>2, Zenon
<1>3. live \in SUBSET Threads
  BY Zenon DEF Live
<1> HIDE DEF m2, live
<1>4. /\ r \in Memory
      /\ \A x \in Locations :
           /\ Len(r.mo[x]) = Len(m2.mo[x]) - first[x] + 1
           /\ \A i \in 1..Len(r.mo[x]) :
                /\ r.mo[x][i].val = m2.mo[x][i + first[x] - 1].val
                /\ r.mo[x][i].view.hb = m2.mo[x][i + first[x] - 1].view.hb
      /\ \A u \in live : /\ r.view[u].hb = m2.view[u].hb
                         /\ r.pend[u].hb = m2.pend[u].hb
                         /\ \A x \in Locations : r.view[u].at[x] = m2.view[u].at[x] - first[x] + 1
  BY <1>2, <1>3, ForgetMemory, Zenon
<1>5. \A x \in Locations : first[x] \in Nat /\ 1 <= first[x] /\ first[x] <= Len(m2.mo[x])
                           /\ Len(m2.mo[x]) \in Nat
  BY <1>2, <1>3, FirstKept, MemoryParts, SMTT(30)
<1> HIDE DEF first, r
<1>6. ASSUME NEW x \in Locations
      PROVE  Newest(r, x).val = Newest(m, x).val /\ Newest(r, x).view.hb = Newest(m, x).view.hb
  <2>1. Newest(r, x) = r.mo[x][Len(r.mo[x])] /\ Newest(m, x) = m.mo[x][Len(m.mo[x])]
    BY <1>4, MemoryParts, Zenon
  <2>2. Len(r.mo[x]) \in 1..Len(r.mo[x]) /\ Len(r.mo[x]) + first[x] - 1 = Len(m2.mo[x])
    <3>1. first[x] \in Nat /\ 1 <= first[x] /\ first[x] <= Len(m2.mo[x]) /\ Len(m2.mo[x]) \in Nat
          /\ Len(r.mo[x]) = Len(m2.mo[x]) - first[x] + 1
      BY <1>4, <1>5, Zenon
    <3>2. QED
      BY <3>1, Indices, Zenon
  <2>3. /\ r.mo[x][Len(r.mo[x])].val = m2.mo[x][Len(m2.mo[x])].val
        /\ r.mo[x][Len(r.mo[x])].view.hb = m2.mo[x][Len(m2.mo[x])].view.hb
    BY <1>4, <2>2, Zenon
  <2>4. QED
    BY <1>2, <2>1, <2>3, Zenon
<1>7. ASSUME NEW u \in live, NEW x \in Locations, Fresh(m, u, x)
      PROVE  Fresh(r, u, x)
  <2>1. /\ Len(r.mo[x]) = Len(m2.mo[x]) - first[x] + 1
        /\ r.view[u].at[x] = m2.view[u].at[x] - first[x] + 1
        /\ \A i \in 1..Len(r.mo[x]) : r.mo[x][i].val = m2.mo[x][i + first[x] - 1].val
    BY <1>4, Zenon
  <2>2. /\ Len(r.mo[x]) = Len(m.mo[x]) - first[x] + 1
        /\ r.view[u].at[x] = m.view[u].at[x] - first[x] + 1
        /\ \A i \in 1..Len(r.mo[x]) : r.mo[x][i].val = m.mo[x][i + first[x] - 1].val
    <3>1. m2.mo = m.mo /\ m2.view = m.view
      BY <1>2, Zenon
    <3>2. QED
      BY <2>1, <3>1, Zenon
  <2>3. /\ first[x] \in Nat /\ 1 <= first[x] /\ first[x] <= Len(m.mo[x])
        /\ Len(m.mo[x]) \in Nat
    BY <1>2, <1>5, Zenon
  <2>4. m.view[u].at[x] \in Nat /\ first[x] <= m.view[u].at[x]
    <3>1. u \in Threads
      BY <1>3, Zenon
    <3>2. m.view[u] \in Views
      BY <3>1, MemoryParts, Zenon
    <3>3. first[x] <= m2.view[u].at[x]
      BY <1>2, <1>3, FirstKept, Zenon DEF first
    <3>4. QED
      BY <1>2, <3>2, <3>3, Zenon DEF Views
  <2>5. SUFFICES ASSUME NEW i \in r.view[u].at[x]..Len(r.mo[x]), r.mo[x][i].val = 1
                 PROVE  i = Len(r.mo[x])
    BY Zenon DEF Fresh
  <2>6. /\ i \in 1..Len(r.mo[x]) /\ i + first[x] - 1 \in m.view[u].at[x]..Len(m.mo[x])
        /\ i + first[x] - 1 = Len(m.mo[x]) => i = Len(r.mo[x])
    <3> DEFINE f == first[x]
               l == Len(m.mo[x])
               l2 == Len(r.mo[x])
               a == m.view[u].at[x]
    <3>1. /\ f \in Nat /\ 1 <= f /\ f <= l /\ l \in Nat /\ a \in Nat /\ f <= a
          /\ l2 = l - f + 1 /\ i \in (a - f + 1)..l2
      BY <2>2, <2>3, <2>4, Zenon
    <3> HIDE DEF f, l, l2, a
    <3>2. i \in 1..l2 /\ i + f - 1 \in a..l /\ (i + f - 1 = l => i = l2)
      BY <3>1
    <3>3. QED
      BY <3>2, Zenon DEF f, l, l2, a
  <2>7. i + first[x] - 1 = Len(m.mo[x])
    BY <1>7, <2>2, <2>5, <2>6, Zenon DEF Fresh
  <2>8. QED
    BY <2>6, <2>7, Zenon
<1>8. QED
  BY <1>1, <1>2, <1>3, <1>4, <1>6, <1>7, Zenon DEF live

\* The parts of a location are numbers.
LEMMA LocationParts ==
  ASSUME NEW m \in Memory, NEW u \in Threads, NEW x \in Locations
  PROVE  /\ Len(m.mo[x]) \in Nat \ {0}
         /\ m.view[u].at[x] \in Nat \ {0}
         /\ Newest(m, x) = m.mo[x][Len(m.mo[x])]
         /\ Newest(m, x).val \in Nat
<1>1. m.view[u] \in Views /\ Newest(m, x) \in Messages
  BY MemoryParts, Zenon
<1>2. QED
  BY <1>1, MemoryParts, Zenon DEF Views, Messages

\* A read-modify-write by t of a counter that is not 1, or seen by t itself.
LEMMA RmwFresh ==
  ASSUME NEW m \in Memory, NEW t \in Threads, NEW x \in Locations, NEW v \in Nat, NEW ord \in {Relaxed, Release},
         NEW u \in Threads, u = t \/ (Fresh(m, u, x) /\ Newest(m, x).val # 1)
  PROVE  Fresh(Rmw(m, t, x, v, ord), u, x)
<1> DEFINE r == Rmw(m, t, x, v, ord)
           l == Len(m.mo[x])
<1>0. l \in Nat /\ m.view[u].at[x] \in Nat \ {0}
      /\ Newest(m, x) = m.mo[x][l]
  BY LocationParts, Zenon
<1>1. /\ Len(r.mo[x]) = l + 1
      /\ \A i \in 1..l : r.mo[x][i] = m.mo[x][i]
      /\ r.view[t].at[x] = Len(r.mo[x])
      /\ u # t => r.view[u] = m.view[u]
  <2>1. RmwResult(m, t, x, v, ord, r)
    BY RmwMemory, Zenon
  <2> HIDE DEF r
  <2>2. QED
    BY <2>1, Zenon DEF RmwResult
<1> HIDE DEF r
<1>2. SUFFICES ASSUME NEW i \in r.view[u].at[x]..Len(r.mo[x]), r.mo[x][i].val = 1
               PROVE  i = Len(r.mo[x])
  BY Zenon DEF Fresh, r
<1>3. CASE u = t
  <2>1. i \in (l + 1)..(l + 1)
    BY <1>1, <1>3, Zenon
  <2> HIDE DEF l
  <2>2. QED
    BY <1>0, <1>1, <2>1, SMTT(30)
<1>4. CASE u # t
  <2>1. i \in m.view[u].at[x]..(l + 1)
    BY <1>1, <1>4, Zenon
  <2>2. i \in m.view[u].at[x]..l \/ i = l + 1
    <3> HIDE DEF l
    <3> QED
      BY <1>0, <2>1, SMTT(30)
  <2>3. i \in m.view[u].at[x]..l => i \in 1..l
    <3> HIDE DEF l
    <3> QED
      BY <1>0, SMTT(30)
  <2>4. ASSUME i \in m.view[u].at[x]..l
        PROVE  FALSE
    <3>1. m.mo[x][i].val = 1
      BY <1>1, <1>2, <2>3, <2>4, Zenon
    <3>2. i = l
      BY <1>4, <2>4, <3>1, Zenon DEF Fresh
    <3>3. QED
      BY <1>0, <1>4, <3>1, <3>2, Zenon
  <2>5. QED
    BY <1>1, <2>2, <2>4, Zenon
<1>5. QED
  BY <1>3, <1>4, Zenon

\* A later view of the same values.
LEMMA LaterFresh ==
  ASSUME NEW m \in Memory, NEW r \in Memory, NEW u \in Threads, NEW x \in Locations, Fresh(m, u, x),
         Len(r.mo[x]) = Len(m.mo[x]), m.view[u].at[x] <= r.view[u].at[x],
         \A i \in 1..Len(m.mo[x]) : r.mo[x][i].val = m.mo[x][i].val
  PROVE  Fresh(r, u, x)
<1> DEFINE l == Len(m.mo[x])
           a == m.view[u].at[x]
           b == r.view[u].at[x]
<1>1. l \in Nat /\ a \in Nat \ {0} /\ b \in Nat \ {0} /\ a <= b
  BY LocationParts, Zenon
<1>2. SUFFICES ASSUME NEW i \in b..l, r.mo[x][i].val = 1
               PROVE  i = l
  BY Zenon DEF Fresh
<1>3. i \in a..l /\ i \in 1..l
  <2> HIDE DEF a, b, l
  <2> QED
    BY <1>1, SMTT(30)
<1>4. QED
  BY <1>2, <1>3, Zenon DEF Fresh

\* A read-modify-write of x leaves what may be loaded from y as it is.
LEMMA FreshElsewhere ==
  ASSUME NEW m \in Memory, NEW t \in Threads, NEW x \in Locations, NEW y \in Locations \ {x},
         NEW v \in Nat, NEW ord \in {Relaxed, Release}, NEW u \in Threads, Fresh(m, u, y)
  PROVE  Fresh(Rmw(m, t, x, v, ord), u, y)
<1> DEFINE r == Rmw(m, t, x, v, ord)
<1>1. RmwResult(m, t, x, v, ord, r)
  BY RmwMemory, Zenon
<1> HIDE DEF r
<1>2. r \in Memory /\ r.mo[y] = m.mo[y] /\ r.view[u].at[y] = m.view[u].at[y]
  BY <1>1, Zenon DEF RmwResult
<1>3. m.view[u].at[y] \in Nat
  BY LocationParts, Zenon
<1>4. m.view[u].at[y] <= r.view[u].at[y]
  BY <1>2, <1>3, SMTT(30)
<1>5. QED
  BY <1>2, <1>4, LaterFresh, Zenon DEF r

\* Access has that result.
LEMMA AccessData ==
  ASSUME NEW m \in Memory, NEW t \in Threads, NEW a \in Kinds \X Threads
  PROVE  AccessResult(m, t, a, Access(m, t, a))
<1> DEFINE r == Access(m, t, a)
<1>0. Accessed(m, t, a, r)
  BY AccessMemory, Zenon
<1> HIDE DEF r
<1>1. /\ r \in Memory
      /\ \A x \in Locations :
           /\ Len(r.mo[x]) = Len(m.mo[x])
           /\ \A i \in 1..Len(m.mo[x]) : /\ r.mo[x][i].val = m.mo[x][i].val
                                         /\ r.mo[x][i].view.hb = m.mo[x][i].view.hb \ {a}
      /\ \A u \in Threads : /\ r.view[u].at = m.view[u].at
                            /\ r.pend[u].hb = m.pend[u].hb \ {a}
      /\ \A u \in Threads \ {t} : r.view[u].hb = m.view[u].hb \ {a}
      /\ r.view[t].hb = m.view[t].hb \cup {a}
  BY <1>0, Zenon DEF Accessed
<1>2. ASSUME NEW x \in Locations
      PROVE  /\ Newest(r, x).val = Newest(m, x).val
             /\ Newest(r, x).view.hb = Newest(m, x).view.hb \ {a}
  <2> DEFINE l == Len(m.mo[x])
  <2>1. /\ l \in Nat \ {0} /\ Len(r.mo[x]) = l
        /\ Newest(m, x) = m.mo[x][l] /\ Newest(r, x) = r.mo[x][l]
    BY <1>1, LocationParts, SMTT(30)
  <2>2. \A i \in 1..l : r.mo[x][i].val = m.mo[x][i].val /\ r.mo[x][i].view.hb = m.mo[x][i].view.hb \ {a}
    BY <1>1, Zenon
  <2> HIDE DEF l
  <2>3. l \in 1..l
    BY <2>1
  <2>4. QED
    BY <2>1, <2>2, <2>3, Zenon
<1>3. ASSUME NEW u \in Threads, NEW x \in Locations, Fresh(m, u, x)
      PROVE  Fresh(r, u, x)
  <2>1. m.view[u].at[x] <= r.view[u].at[x]
    <3>1. m.view[u].at[x] \in Nat /\ m.view[u].at[x] = r.view[u].at[x]
      BY <1>1, LocationParts, Zenon
    <3>2. QED
      BY <3>1
  <2>2. Len(r.mo[x]) = Len(m.mo[x]) /\ \A i \in 1..Len(m.mo[x]) : r.mo[x][i].val = m.mo[x][i].val
    BY <1>1, Zenon
  <2>3. r \in Memory
    BY <1>1, Zenon
  <2>4. QED
    BY <1>3, <2>1, <2>2, <2>3, LaterFresh, Zenon
<1>4. QED
  BY <1>1, <1>2, <1>3, Zenon DEF AccessResult, r

\* Fence and Access have that result.
LEMMA FencedWriteData ==
  ASSUME NEW m \in Memory, NEW t \in Threads
  PROVE  FencedResult(m, t, Access(Fence(m, t), t, <<"write", t>>))
<1> DEFINE f == Fence(m, t)
           a == <<"write", t>>
           r == Access(f, t, a)
<1>1. /\ f \in Memory /\ f.mo = m.mo /\ f.pend = m.pend
      /\ f.view[t].hb = m.view[t].hb \cup m.pend[t].hb
      /\ \A x \in Locations : m.view[t].at[x] <= f.view[t].at[x]
      /\ \A u \in Threads \ {t} : f.view[u] = m.view[u]
  BY FenceMemory, Zenon
<1>2. a \in Kinds \X Threads
  BY Zenon DEF Kinds
<1> HIDE DEF f, a
<1>3. AccessResult(f, t, a, r)
  BY <1>1, <1>2, AccessData, Zenon
<1> HIDE DEF r
<1>4. \A x \in Locations : Newest(f, x) = Newest(m, x)
  BY <1>1, Zenon DEF Newest
<1>5. ASSUME NEW u \in Threads, NEW x \in Locations, Fresh(m, u, x)
      PROVE  Fresh(r, u, x)
  <2>1. m.view[u].at[x] <= f.view[u].at[x]
    <3>1. m.view[u].at[x] \in Nat
      BY LocationParts, Zenon
    <3>2. QED
      BY <1>1, <3>1, SMTT(30)
  <2>2. Fresh(f, u, x)
    BY <1>1, <1>5, <2>1, LaterFresh, Zenon
  <2>3. QED
    BY <1>3, <2>2, Zenon DEF AccessResult
<1>6. /\ r \in Memory
      /\ \A x \in Locations : /\ Newest(r, x).val = Newest(m, x).val
                              /\ Newest(r, x).view.hb = Newest(m, x).view.hb \ {a}
      /\ r.view[t].hb = m.view[t].hb \cup m.pend[t].hb \cup {a}
  BY <1>1, <1>3, <1>4, Zenon DEF AccessResult
<1>7. \A u \in Threads \ {t} : r.view[u].hb = m.view[u].hb \ {a}
  BY <1>1, <1>3, Zenon DEF AccessResult
<1>8. QED
  BY <1>5, <1>6, <1>7, Zenon DEF FencedResult, r, a, f

\* The operations on the memory have the results that the steps rely on.
LEMMA MemoryLaws ==
  ASSUME LeastLaw
  PROVE  RmwLaw /\ LoadLaw /\ AccessLaw /\ FencedLaw /\ ContinueLaw
<1>1. RmwLaw
  <2> SUFFICES ASSUME NEW m \in Memory, NEW t \in Threads, NEW x \in Locations, NEW v \in Nat,
                      NEW ord \in {Relaxed, Release}
               PROVE  /\ RmwResult(m, t, x, v, ord, Rmw(m, t, x, v, ord))
                      /\ RmwLoads(m, t, x, Rmw(m, t, x, v, ord))
    BY Zenon DEF RmwLaw
  <2>1. RmwResult(m, t, x, v, ord, Rmw(m, t, x, v, ord))
    BY RmwMemory, Zenon
  <2>2. \A u \in Threads : u = t \/ (Fresh(m, u, x) /\ Newest(m, x).val # 1) =>
                            Fresh(Rmw(m, t, x, v, ord), u, x)
    BY RmwFresh, Zenon
  <2>3. \A u \in Threads, y \in Locations \ {x} : Fresh(m, u, y) => Fresh(Rmw(m, t, x, v, ord), u, y)
    BY FreshElsewhere, Zenon
  <2>4. QED
    BY <2>1, <2>2, <2>3, Zenon DEF RmwLoads
<1>2. LoadLaw
  <2> SUFFICES ASSUME NEW m \in Memory, NEW t \in Threads, NEW x \in Locations,
                      NEW i \in Loadable(m, t, x, Relaxed)
               PROVE  /\ i \in 1..Len(m.mo[x])
                      /\ LoadResult(m, t, x, i, Load(m, t, x, i, Relaxed))
                      /\ \A u \in Threads, y \in Locations :
                           Fresh(m, u, y) => Fresh(Load(m, t, x, i, Relaxed), u, y)
    BY Zenon DEF LoadLaw
  <2> DEFINE r == Load(m, t, x, i, Relaxed)
  <2>1. i \in m.view[t].at[x]..Len(m.mo[x])
    BY Zenon DEF Loadable, Relaxed
  <2>2. i \in Nat /\ m.view[t].at[x] <= i /\ i \in 1..Len(m.mo[x])
    BY <2>1, LocationParts, SMTT(30)
  <2>3. LoadResult(m, t, x, i, r)
    BY <2>2, LoadMemory, Zenon
  <2> HIDE DEF r
  <2>4. ASSUME NEW u \in Threads, NEW y \in Locations, Fresh(m, u, y)
        PROVE  Fresh(r, u, y)
    <3>1. r \in Memory /\ r.mo = m.mo
      BY <2>3, Zenon DEF LoadResult
    <3>2. m.view[u].at[y] \in Nat
      BY LocationParts, Zenon
    <3>3. m.view[u].at[y] <= r.view[u].at[y]
      <4>1. CASE u = t /\ y = x
        BY <2>2, <2>3, <4>1, Zenon DEF LoadResult
      <4>2. CASE ~(u = t /\ y = x)
        BY <2>3, <3>2, <4>2, SMTT(30) DEF LoadResult
      <4>3. QED
        BY <4>1, <4>2, Zenon
    <3>4. QED
      BY <2>4, <3>1, <3>3, LaterFresh, Zenon
  <2>5. QED
    BY <2>2, <2>3, <2>4, Zenon DEF r
<1>3. AccessLaw
  BY AccessData, Zenon DEF AccessLaw
<1>4. FencedLaw
  BY FencedWriteData, Zenon DEF FencedLaw
<1>5. ContinueLaw
  BY ContinueMemory, Zenon DEF ContinueLaw, ContinueResult
<1>6. QED
  BY <1>1, <1>2, <1>3, <1>4, <1>5, Zenon

\* The memory when the threads start: they know of every access, and may load
\* the one message there is.
FirstResult(d, a, r) ==
  /\ r \in Memory
  /\ Newest(r, "data_ref_count").val = d /\ Newest(r, "alloc_ref_count").val = a
  /\ \A x \in Locations : Newest(r, x).view.hb = Kinds \X Threads
  /\ \A t \in Threads : r.view[t].hb = Kinds \X Threads
  /\ \A t \in Threads, x \in Locations : Fresh(r, t, x)

\* FirstMemory is that memory.
LEMMA FirstMemoryData ==
  ASSUME NEW d \in Nat, NEW a \in Nat
  PROVE  FirstResult(d, a, FirstMemory([data_ref_count |-> d, alloc_ref_count |-> a], Kinds \X Threads))
<1> DEFINE first == [data_ref_count |-> d, alloc_ref_count |-> a]
           all == Kinds \X Threads
           r == FirstMemory(first, all)
           v == [at |-> [x \in Locations |-> 1], hb |-> all]
           msg(x) == [val |-> first[x], view |-> v]
<1>1. DOMAIN first = Locations /\ first["data_ref_count"] = d /\ first["alloc_ref_count"] = a
  BY Zenon DEF Locations
<1>2. [NoView(Locations) EXCEPT !.hb = all] = v
  <2> DEFINE ones == [x \in Locations |-> 1]
  <2>1. NoView(Locations) = [at |-> ones, hb |-> {}] /\ v = [at |-> ones, hb |-> all]
    BY Zenon DEF NoView
  <2> HIDE DEF ones, all, v
  <2>2. QED
    BY <2>1
<1>3. r = [mo |-> [x \in Locations |-> <<msg(x)>>], view |-> [t \in Threads |-> v],
           pend |-> [t \in Threads |-> NoView(Locations)]]
  <2> HIDE DEF first, all
  <2> QED
    BY <1>1, <1>2, Zenon DEF FirstMemory
<1>4. v \in Views /\ v.hb = all
  BY DEF Views
<1>5. \A x \in Locations : msg(x) \in Messages /\ msg(x).view = v /\ msg(x).val = first[x]
  <2>1. \A x \in Locations : first[x] \in Nat
    BY <1>1, Zenon DEF Locations
  <2> HIDE DEF v, first
  <2>2. QED
    BY <1>4, <2>1, Zenon DEF Messages
<1> HIDE DEF v, msg, r
<1>6. r \in Memory
  <2>1. \A x \in Locations : <<msg(x)>> \in Seq(Messages) \ {<<>>}
    BY <1>5, SMTT(30)
  <2>2. QED
    BY <1>3, <1>4, <2>1, NoViews, Zenon DEF Memory
<1>7. ASSUME NEW x \in Locations
      PROVE  Newest(r, x) = msg(x) /\ Len(r.mo[x]) = 1
  <2>1. r.mo[x] = <<msg(x)>>
    BY <1>3, Zenon
  <2>2. QED
    BY <2>1 DEF Newest
<1> HIDE DEF first
<1>8. \A x \in Locations : Newest(r, x).val = first[x] /\ Newest(r, x).view.hb = all
  BY <1>4, <1>5, <1>7, Zenon
<1>9. \A t \in Threads, x \in Locations : Fresh(r, t, x)
  <2> SUFFICES ASSUME NEW t \in Threads, NEW x \in Locations
               PROVE  Fresh(r, t, x)
    BY Zenon
  <2>1. Len(r.mo[x]) = 1 /\ r.view[t].at[x] \in Nat \ {0}
    BY <1>6, <1>7, LocationParts, Zenon
  <2>2. QED
    BY <2>1, SMTT(30) DEF Fresh
<1>10. \A t \in Threads : r.view[t].hb = all
  BY <1>3, <1>4, Zenon
<1>11. QED
  BY <1>1, <1>6, <1>8, <1>9, <1>10, Zenon DEF FirstResult, r, first, Locations

-----------------------------------------------------------------------------
(* The invariants say what the runs check. *)

\* That of BasicArc.
LEMMA BasicSafe ==
  ASSUME BasicInv, BasicFacts
  PROVE  NoDataRace /\ GetMutIsExclusive /\ AliveWhileOwned /\ CountWithinLimit
<1> USE DEF BasicInv, BasicRest
<1>1. Types /\ arcs \in [Threads -> Nat] /\ pc \in [Threads -> Labels] /\ mem \in Memory
      /\ weaks = [u \in Threads |-> 0]
  BY Zenon DEF Types
<1>2. NoDataRace
  <2> SUFFICES ASSUME NEW t \in Threads, pc[t] \in {"mut", "drop_value", "free"}
               PROVE  {"read", "write"} \X (Threads \ {t}) \subseteq Fence(mem, t).view[t].hb
    BY Zenon DEF NoDataRace
  <2>1. Fence(mem, t).view[t].hb = mem.view[t].hb \cup mem.pend[t].hb
    BY <1>1, FenceMemory, Zenon
  <2>2. \A u \in Threads \ {t} : {"read", "write"} \X {u} \subseteq mem.view[t].hb \cup mem.pend[t].hb
    BY Zenon DEF Ordered, Accesses, Kinds
  <2>3. QED
    BY <2>1, <2>2, Zenon
<1>3. GetMutIsExclusive
  <2> SUFFICES ASSUME NEW t \in Threads, pc[t] = "mut"
               PROVE  Live = {t} /\ arcs[t] = 1 /\ weaks[t] = 0
    BY Zenon DEF GetMutIsExclusive
  <2>1. arcs[t] = 1 /\ \A u \in Threads \ {t} : pc[u] = "idle" /\ arcs[u] = 0
    BY Zenon DEF Alone
  <2>2. QED
    BY <1>1, <2>1 DEF Live
<1>4. AliveWhileOwned
  <2>1. ASSUME NEW t \in Threads, arcs[t] > 0
        PROVE  dropped = 0 /\ freed = 0
    BY <2>1, Zenon DEF BasicFacts, LastOne, Phase
  <2>2. Current(Data) \in Nat
    BY Zenon DEF BasicFacts
  <2>3. \A t \in Threads : pc[t] # "idle" => freed = 0 /\ dropped \in {0, 1}
    <3> SUFFICES ASSUME NEW t \in Threads, pc[t] # "idle"
                 PROVE  freed = 0 /\ dropped \in {0, 1}
      BY Zenon
    <3>1. CASE pc[t] \in {"drop_value", "free"}
      BY <3>1, Zenon DEF Phase
    <3>2. CASE pc[t] = "mut"
      BY <2>1, <3>2, SMTT(30) DEF Alone
    <3>3. CASE pc[t] = "abort"
      BY <3>3, Zenon DEF BasicFacts, Phase
    <3>4. QED
      BY <1>1, <3>1, <3>2, <3>3, Zenon DEF Labels
  <2>4. \A t \in Live : freed = 0
    BY <1>1, <2>1, <2>3 DEF Live
  <2>5. dropped <= 1 /\ freed <= dropped
    <3>1. CASE \A t \in Threads : pc[t] = "idle"
      <4>1. (dropped = 0 /\ freed = 0) \/ (dropped = 1 /\ freed = 1)
        BY <2>2, <3>1 DEF Phase
      <4>2. QED
        BY <4>1
    <3>2. CASE ~\A t \in Threads : pc[t] = "idle"
      BY <2>3, <3>2
    <3>3. QED
      BY <3>1, <3>2, Zenon
  <2>6. QED
    BY <2>1, <2>4, <2>5, Zenon DEF AliveWhileOwned
<1>5. QED
  BY <1>2, <1>3, <1>4, Zenon

\* That of WeakArc.
LEMMA WeakSafe ==
  ASSUME WeakInv, WeakFacts
  PROVE  NoDataRace /\ GetMutIsExclusive /\ AliveWhileOwned /\ CountsWithinLimit
<1>1. /\ arcs \in [Threads -> Nat] /\ weaks \in [Threads -> Nat] /\ mem \in Memory
      /\ pc \in [Threads -> WeakLabels] /\ InOrder(mem, pc, arcs, weaks)
      /\ ValuePhase /\ BoxPhase /\ WeakAlone /\ WeakCounted
  BY Zenon DEF WeakInv, WeakRest, WeakTypes, WeakOrdered
<1>2. Current(Data) \in Nat /\ Current(Alloc) \in Nat /\ Current(Data) <= Current(Alloc)
  BY Zenon DEF WeakFacts, CounterFacts
<1>3. NoDataRace
  <2> SUFFICES ASSUME NEW t \in Threads, pc[t] \in {"mut", "drop_value", "free"}
               PROVE  {"read", "write"} \X (Threads \ {t}) \subseteq Fence(mem, t).view[t].hb
    BY Zenon DEF NoDataRace
  <2>1. Fence(mem, t).view[t].hb = mem.view[t].hb \cup mem.pend[t].hb
    BY <1>1, FenceMemory, Zenon
  <2>2. \A u \in Threads \ {t} : {"read", "write"} \X {u} \subseteq mem.view[t].hb \cup mem.pend[t].hb
    BY <1>1, Zenon DEF InOrder, Accesses, Kinds
  <2>3. QED
    BY <2>1, <2>2, Zenon
<1>4. GetMutIsExclusive
  <2> SUFFICES ASSUME NEW t \in Threads, pc[t] = "mut"
               PROVE  Live = {t} /\ arcs[t] = 1 /\ weaks[t] = 0
    BY Zenon DEF GetMutIsExclusive
  <2>1. /\ arcs[t] = 1 /\ weaks[t] = 0
        /\ \A u \in Threads \ {t} : pc[u] = "idle" /\ arcs[u] = 0 /\ weaks[u] = 0
    BY <1>1, Zenon DEF WeakAlone
  <2>2. QED
    BY <2>1 DEF Live
<1>5. AliveWhileOwned
  <2>1. ASSUME NEW t \in Threads, arcs[t] > 0
        PROVE  dropped = 0
    BY <2>1, Zenon DEF WeakFacts, OwnerFacts
  <2>2. ASSUME NEW t \in Live
        PROVE  freed = 0
    <3>1. CASE pc[t] = "free"
      BY <1>1, <3>1, Zenon DEF BoxPhase, Live
    <3>2. CASE pc[t] # "free"
      BY <3>2, Zenon DEF Live, WeakFacts, HolderFacts
    <3>3. QED
      BY <3>1, <3>2, Zenon
  <2>3. dropped \in {0, 1}
    BY <1>1, <1>2 DEF ValuePhase
  <2>4. freed \in {0, 1}
    BY <1>1, <1>2 DEF BoxPhase
  <2>5. freed # 0 => dropped = 1
    <3> SUFFICES ASSUME freed # 0
                 PROVE  dropped = 1
      BY Zenon
    <3>1. \A t \in Threads : pc[t] # "drop_value"
      BY <2>2, Zenon DEF Live
    <3>2. Current(Data) = 0
      BY <1>1, <1>2 DEF BoxPhase
    <3>3. QED
      BY <1>1, <3>1, <3>2, Zenon DEF ValuePhase
  <2>6. dropped <= 1 /\ freed <= dropped
    BY <2>3, <2>4, <2>5
  <2>7. QED
    BY <2>1, <2>2, <2>6, Zenon DEF AliveWhileOwned
<1>6. CountsWithinLimit
  BY <1>1, <1>2, Zenon DEF CountsWithinLimit, WeakCounted, Data, Alloc, Stuck
<1>7. QED
  BY <1>3, <1>4, <1>5, <1>6, Zenon

=============================================================================
