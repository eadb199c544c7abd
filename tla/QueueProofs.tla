----------------------------- MODULE QueueProofs ----------------------------
(***************************************************************************)
(* Proofs about the three queues, for any number of threads and items: a   *)
(* queue is a Fifo and loses no wake-up.  The lemmas that they share come  *)
(* first: every push and pop of Queue is a step of Fifo, and the count of  *)
(* senders and receivers behind NoLostWakeup.                              *)
(***************************************************************************)
EXTENDS CondvarQueue, ParkingQueue, FiniteSetTheorems, SequenceTheorems, TLAPS

Labels == {"lock", "push", "notify", "pop", "wait", "waiting", "relock", "item", "park", "done"}

Items == Senders \X Nat

Data ==
  /\ queue \in Seq(Items)
  /\ got \in Seq(Receivers \X Items)
  /\ made \in [Threads -> Nat]

\* Senders and receivers are each at labels of their own.
Control ==
  /\ pc \in [Threads -> Labels]
  /\ \A s \in Senders : pc[s] \in {"lock", "push", "notify", "done"}
  /\ \A r \in Receivers : pc[r] \notin {"push", "notify"}

\* A thread with a guard owns the mutex.
Owned == \A t \in Threads : pc[t] \in {"push", "pop", "wait", "item"} => owner = t

ReceivedIn(g) == [i \in 1..Len(g) |-> g[i][2]]

Takers(g) == [i \in 1..Len(g) |-> g[i][1]]

LineOf(g, q) == ReceivedIn(g) \o q

Line == LineOf(got, queue)

\* The items of a sender in the line are those it has sent, and the j-th of them
\* has at least j - 1 items before it.
Lined ==
  /\ \A s \in Senders : \A j \in 1..made[s] : \E i \in 1..Len(Line) : Line[i] = <<s, j>>
  /\ \A i \in 1..Len(Line) : Line[i][2] <= made[Line[i][1]] /\ Line[i][2] <= i

QueueInv == Data /\ Control /\ Owned /\ Lined

\* What a step of any of the queues does to the line.
LineStep ==
  \/ \E s \in Senders : Push(s)
  \/ \E r \in Receivers : PopFront(r)
  \/ UNCHANGED <<queue, got, made>>

USE QueueAssumption DEF Threads, Goto

\* The items received and their receivers are sequences as long as got, and the
\* line is what has been received and then what is queued.
LEMMA LineType ==
  ASSUME NEW g \in Seq(Receivers \X Items), NEW q \in Seq(Items)
  PROVE  /\ Len(g) \in Nat
         /\ ReceivedIn(g) \in Seq(Items) /\ Len(ReceivedIn(g)) = Len(g)
         /\ Takers(g) \in Seq(Receivers) /\ Len(Takers(g)) = Len(g)
         /\ Len(q) \in Nat
         /\ LineOf(g, q) \in Seq(Items) /\ Len(LineOf(g, q)) = Len(g) + Len(q)
         /\ \A i \in 1..Len(g) + Len(q) :
              LineOf(g, q)[i] = IF i <= Len(g) THEN g[i][2] ELSE q[i - Len(g)]
<1>1. Len(g) \in Nat /\ Len(q) \in Nat /\ \A i \in 1..Len(g) : g[i] \in Receivers \X Items
  OBVIOUS
<1>2. ReceivedIn(g) \in Seq(Items) /\ Len(ReceivedIn(g)) = Len(g)
  BY <1>1 DEF ReceivedIn
<1>3. Takers(g) \in Seq(Receivers) /\ Len(Takers(g)) = Len(g)
  BY <1>1 DEF Takers
<1>4. LineOf(g, q) \in Seq(Items) /\ Len(LineOf(g, q)) = Len(g) + Len(q)
  <2>1. ReceivedIn(g) \o q \in Seq(Items)
    BY <1>2, ConcatProperties, Zenon
  <2>2. Len(ReceivedIn(g) \o q) = Len(g) + Len(q)
    <3>1. Len(ReceivedIn(g) \o q) = Len(ReceivedIn(g)) + Len(q)
      BY <1>2, ConcatProperties, Zenon
    <3>2. QED
      BY <1>2, <3>1, Zenon
  <2>3. QED
    BY <2>1, <2>2, Zenon DEF LineOf
<1>5. \A i \in 1..Len(g) : ReceivedIn(g)[i] = g[i][2]
  BY Zenon DEF ReceivedIn
<1>6. \A i \in 1..Len(g) + Len(q) :
        LineOf(g, q)[i] = IF i <= Len(g) THEN ReceivedIn(g)[i] ELSE q[i - Len(g)]
  BY <1>1, <1>2 DEF LineOf
<1>7. \A i \in 1..Len(g) + Len(q) :
        LineOf(g, q)[i] = IF i <= Len(g) THEN g[i][2] ELSE q[i - Len(g)]
  BY <1>1, <1>5, <1>6
<1>8. QED
  BY <1>1, <1>2, <1>3, <1>4, <1>7, Zenon

\* push_back() appends to the line.
LEMMA PushLine ==
  ASSUME Data, NEW s \in Senders, Push(s)
  PROVE  /\ Data'
         /\ Line' = Append(Line, <<s, made[s] + 1>>)
         /\ Takers(got') = Takers(got)
<1>1. <<s, made[s] + 1>> \in Items
  BY DEF Data, Items
<1>2. Data'
  BY <1>1 DEF Data, Push
<1>3. ReceivedIn(got) \in Seq(Items) /\ queue \in Seq(Items)
  BY LineType, Zenon DEF Data
<1>4. LineOf(got, Append(queue, <<s, made[s] + 1>>)) = Append(LineOf(got, queue), <<s, made[s] + 1>>)
  BY <1>1, <1>3 DEF LineOf
<1>5. QED
  BY <1>2, <1>4, Zenon DEF Line, Push

\* pop_front() moves the boundary between what is received and what is queued.
LEMMA PopLine ==
  ASSUME Data, NEW r \in Receivers, PopFront(r)
  PROVE  /\ Data'
         /\ Line' = Line
         /\ Takers(got') = Append(Takers(got), r)
         /\ Len(Takers(got)) < Len(Line)
<1>1. /\ Head(queue) \in Items /\ Tail(queue) \in Seq(Items)
      /\ Len(Tail(queue)) = Len(queue) - 1 /\ Len(queue) > 0 /\ Len(queue) \in Nat
      /\ Head(queue) = queue[1]
      /\ \A i \in 1..Len(Tail(queue)) : Tail(queue)[i] = queue[i + 1]
  BY HeadTailProperties DEF Data, PopFront
<1>2. <<r, Head(queue)>> \in Receivers \X Items
  BY <1>1, Zenon
<1>3. /\ got' \in Seq(Receivers \X Items)
      /\ Len(got') = Len(got) + 1
      /\ got'[Len(got) + 1] = <<r, Head(queue)>>
      /\ \A i \in 1..Len(got) : got'[i] = got[i]
  BY <1>2 DEF Data, PopFront
<1>4. Data'
  BY <1>1, <1>3 DEF Data, PopFront
<1>5. /\ Line \in Seq(Items) /\ Line' \in Seq(Items)
      /\ Len(got) \in Nat /\ Len(Line) = Len(got) + Len(queue) /\ Len(Line') = Len(Line)
      /\ Takers(got) \in Seq(Receivers) /\ Len(Takers(got)) = Len(got)
      /\ Takers(got') \in Seq(Receivers) /\ Len(Takers(got')) = Len(got) + 1
  <2>1. /\ Line \in Seq(Items) /\ Len(got) \in Nat /\ Len(Line) = Len(got) + Len(queue)
        /\ Takers(got) \in Seq(Receivers) /\ Len(Takers(got)) = Len(got)
    BY LineType, Zenon DEF Data, Line
  <2>2. /\ Line' \in Seq(Items) /\ Len(Line') = Len(got') + Len(queue')
        /\ Takers(got') \in Seq(Receivers) /\ Len(Takers(got')) = Len(got')
    BY <1>4, LineType, Zenon DEF Data, Line
  <2>3. QED
    BY <1>1, <1>3, <2>1, <2>2 DEF PopFront
<1>6. ASSUME NEW i \in 1..Len(Line)
      PROVE  Line'[i] = Line[i]
  <2>1. Line[i] = IF i <= Len(got) THEN got[i][2] ELSE queue[i - Len(got)]
    BY <1>5, LineType DEF Data, Line
  <2>2. Line'[i] = IF i <= Len(got') THEN got'[i][2] ELSE queue'[i - Len(got')]
    <3>1. i \in 1..Len(got') + Len(queue')
      BY <1>1, <1>3, <1>5 DEF PopFront
    <3>2. got' \in Seq(Receivers \X Items) /\ queue' \in Seq(Items)
      BY <1>4, Zenon DEF Data
    <3>3. \A j \in 1..Len(got') + Len(queue') :
            LineOf(got', queue')[j] = IF j <= Len(got') THEN got'[j][2] ELSE queue'[j - Len(got')]
      BY <3>2, LineType, Zenon
    <3>4. QED
      BY <3>1, <3>3, Zenon DEF Line
  <2>3. CASE i <= Len(got)
    <3>1. i \in 1..Len(got) /\ i <= Len(got')
      BY <1>3, <1>5, <2>3
    <3>2. Line[i] = got[i][2] /\ Line'[i] = got'[i][2]
      BY <2>1, <2>2, <2>3, <3>1, Zenon
    <3>3. QED
      BY <1>3, <3>1, <3>2, Zenon
  <2>4. CASE i = Len(got) + 1
    BY <1>1, <1>3, <1>5, <2>1, <2>2, <2>4
  <2>5. CASE i > Len(got) + 1
    <3>1. i - Len(got') \in 1..Len(Tail(queue)) /\ i - Len(got') + 1 = i - Len(got)
      BY <1>1, <1>3, <1>5, <2>5
    <3>2. Line'[i] = Tail(queue)[i - Len(got')]
      BY <1>3, <1>5, <2>2, <2>5 DEF PopFront
    <3>3. Tail(queue)[i - Len(got')] = queue[i - Len(got)]
      BY <1>1, <3>1, Zenon
    <3>4. Line[i] = queue[i - Len(got)]
      BY <1>5, <2>1, <2>5
    <3>5. QED
      BY <3>2, <3>3, <3>4, Zenon
  <2>6. QED
    BY <1>5, <2>3, <2>4, <2>5
<1>7. Line' = Line
  BY <1>5, <1>6, SeqEqual, Zenon
<1>8. Takers(got') = Append(Takers(got), r)
  <2>1. Append(Takers(got), r) \in Seq(Receivers) /\ Len(Append(Takers(got), r)) = Len(got) + 1
    BY <1>5
  <2>2. \A i \in 1..Len(got) + 1 : Takers(got')[i] = Append(Takers(got), r)[i]
    <3>1. \A i \in 1..Len(got) : Append(Takers(got), r)[i] = Takers(got)[i]
      BY <1>5
    <3>2. \A i \in 1..Len(got) : Takers(got)[i] = got[i][1]
      BY Zenon DEF Takers
    <3>3. Append(Takers(got), r)[Len(got) + 1] = r
      BY <1>5
    <3>4. \A i \in 1..Len(got) + 1 : Takers(got')[i] = got'[i][1]
      BY <1>3, Zenon DEF Takers
    <3>5. \A i \in 1..Len(got) : Takers(got')[i] = Append(Takers(got), r)[i]
      BY <1>3, <1>5, <3>1, <3>2, <3>4
    <3>6. Takers(got')[Len(got) + 1] = Append(Takers(got), r)[Len(got) + 1]
      BY <1>3, <1>5, <3>3, <3>4
    <3>7. QED
      BY <1>5, <3>5, <3>6
  <2>3. QED
    BY <1>5, <2>1, <2>2, SeqEqual, Zenon
<1>9. QED
  BY <1>1, <1>4, <1>5, <1>7, <1>8

\* Every step of the queues is a step of Fifo or leaves the line alone, and
\* keeps the line in order.
LEMMA FifoStep ==
  ASSUME Data, Lined, LineStep
  PROVE  Data' /\ Lined' /\ (F!Next \/ UNCHANGED F!fifoVars)
<1>1. /\ Line \in Seq(Items) /\ Len(Line) \in Nat /\ DOMAIN Line = 1..Len(Line)
      /\ \A i \in 1..Len(Line) : Line[i] \in Items
  <2>1. Line \in Seq(Items)
    BY LineType, Zenon DEF Data, Line
  <2>2. QED
    BY <2>1
<1>2. ASSUME NEW s \in Senders, Push(s)
      PROVE  Data' /\ Lined' /\ F!Next
  <2> DEFINE k == made[s] + 1
  <2>1. /\ Data' /\ Line' = Append(Line, <<s, k>>) /\ Takers(got') = Takers(got)
        /\ made' = [made EXCEPT ![s] = k]
    BY <1>2, PushLine, Zenon DEF Push
  <2>2. k \in Nat /\ made[s] \in Nat /\ <<s, k>> \in Items /\ made \in [Threads -> Nat]
    BY DEF Data, Items
  <2>3. /\ Len(Line') = Len(Line) + 1 /\ Line'[Len(Line) + 1] = <<s, k>>
        /\ \A i \in 1..Len(Line) : Line'[i] = Line[i]
    BY <1>1, <2>1, <2>2
  <2>4. made[s] <= Len(Line)
    <3>1. CASE made[s] = 0
      BY <1>1, <3>1
    <3>2. CASE made[s] # 0
      <4>1. made[s] \in 1..made[s]
        BY <2>2, <3>2
      <4>2. PICK i \in 1..Len(Line) : Line[i] = <<s, made[s]>>
        BY <4>1, Zenon DEF Lined
      <4>3. made[s] <= i
        BY <4>2 DEF Lined
      <4>4. QED
        BY <1>1, <2>2, <4>2, <4>3
    <3>3. QED
      BY <3>1, <3>2, Zenon
  <2>5. \A i \in 1..Len(Line) : Line[i] # <<s, k>>
    BY <2>2 DEF Lined
  <2>6. Lined'
    <3>1. ASSUME NEW u \in Senders, NEW j \in 1..made'[u]
          PROVE  \E i \in 1..Len(Line') : Line'[i] = <<u, j>>
      <4>1. CASE u = s /\ j = k
        BY <1>1, <2>3, <4>1
      <4>2. CASE ~(u = s /\ j = k)
        <5>1. j \in 1..made[u]
          BY <2>1, <2>2, <3>1, <4>2
        <5>2. PICK i \in 1..Len(Line) : Line[i] = <<u, j>>
          BY <5>1, Zenon DEF Lined
        <5>3. QED
          BY <1>1, <2>3, <5>2
      <4>3. QED
        BY <4>1, <4>2, Zenon
    <3>2. ASSUME NEW i \in 1..Len(Line')
          PROVE  Line'[i][2] <= made'[Line'[i][1]] /\ Line'[i][2] <= i
      <4>1. CASE i = Len(Line) + 1
        BY <1>1, <2>1, <2>2, <2>3, <2>4, <4>1
      <4>2. CASE i \in 1..Len(Line)
        <5>1. Line'[i] = Line[i] /\ Line[i][2] <= made[Line[i][1]] /\ Line[i][2] <= i
          BY <2>3, <4>2, Zenon DEF Lined
        <5>2. Line[i][1] \in Senders /\ Line[i][2] \in Nat
          BY <1>1, <4>2, Zenon DEF Items
        <5>3. \A u \in Senders : made[u] <= made'[u] /\ made'[u] \in Nat /\ made[u] \in Nat
          BY <2>1, <2>2
        <5>4. QED
          BY <5>1, <5>2, <5>3
      <4>3. QED
        BY <1>1, <2>3, <4>1, <4>2
    <3>3. QED
      BY <3>1, <3>2, Zenon DEF Lined
  <2>7. F!Next
    <3>1. k \in 1..Len(Line) + 1
      BY <1>1, <2>2, <2>4
    <3>2. \A j \in 1..k - 1 : \E i \in DOMAIN Line : Line[i] = <<s, j>>
      <4>1. 1..k - 1 = 1..made[s]
        BY <2>2
      <4>2. QED
        BY <1>1, <4>1, Zenon DEF Lined
    <3>3. F!Send(s, k)
      BY <1>1, <2>1, <2>5, <3>2, Zenon DEF F!Send, Line, LineOf, ReceivedIn, Takers
    <3>4. \E j \in 1..Len(Line) + 1 : F!Send(s, j)
      BY <3>1, <3>3, Zenon DEF F!Send
    <3>5. QED
      BY <3>4, Zenon DEF F!Next, Line, LineOf, ReceivedIn
  <2>8. QED
    BY <2>1, <2>6, <2>7, Zenon
<1>3. ASSUME NEW r \in Receivers, PopFront(r)
      PROVE  Data' /\ Lined' /\ F!Next
  <2>1. /\ Data' /\ Line' = Line /\ Takers(got') = Append(Takers(got), r)
        /\ Len(Takers(got)) < Len(Line)
    BY <1>3, PopLine, Zenon
  <2>2. \A s \in Senders : made'[s] = made[s]
    BY <1>3, Zenon DEF PopFront, Data
  <2>3. Lined'
    <3>1. \A i \in 1..Len(Line) : Line[i][1] \in Senders
      BY <1>1, Zenon DEF Items
    <3>2. QED
      BY <2>1, <2>2, <3>1, Zenon DEF Lined
  <2>4. F!Receive(r)
    BY <2>1, Zenon DEF F!Receive, Line, LineOf, ReceivedIn, Takers
  <2>5. QED
    BY <2>1, <2>3, <2>4, Zenon DEF F!Next
<1>4. ASSUME UNCHANGED <<queue, got, made>>
      PROVE  Data' /\ Lined' /\ UNCHANGED F!fifoVars
  BY <1>4, Zenon DEF Data, Lined, Line, F!fifoVars
<1>5. QED
  BY <1>2, <1>3, <1>4, Zenon DEF LineStep

\* An empty queue is an empty line.
LEMMA InitLine == ASSUME NEW receivers, QueueInit(receivers)
                  PROVE  Data /\ Control /\ Owned /\ Lined /\ NoLostWakeup /\ F!Init
<1>1. queue = <<>> /\ got = <<>> /\ queue \in Seq(Items) /\ got \in Seq(Receivers \X Items)
  BY DEF QueueInit
<1>2. Len(queue) = 0 /\ Len(got) = 0
  BY <1>1, Zenon
<1>3. Data
  BY <1>1, Zenon DEF Data, QueueInit
<1>4. Control /\ Owned
  BY Zenon DEF Control, Owned, QueueInit, Labels
<1>5. Line \in Seq(Items) /\ Len(Line) = 0 /\ Takers(got) \in Seq(Receivers) /\ Len(Takers(got)) = 0
  <2>1. Len(Line) = Len(got) + Len(queue) /\ Line \in Seq(Items)
    BY <1>1, LineType, Zenon DEF Line
  <2>2. Len(Takers(got)) = Len(got) /\ Takers(got) \in Seq(Receivers)
    BY <1>1, LineType, Zenon
  <2>3. QED
    BY <1>2, <2>1, <2>2
<1>6. Lined
  BY <1>5 DEF Lined, QueueInit
<1>7. F!Init
  <2>1. Line = <<>> /\ Takers(got) = <<>>
    BY <1>5
  <2>2. QED
    BY <2>1, Zenon DEF F!Init, Line, LineOf, ReceivedIn, Takers
<1>8. Asleep = {}
  BY Zenon DEF Asleep, QueueInit
<1>9. QED
  BY <1>3, <1>4, <1>6, <1>7, <1>8, Zenon DEF NoLostWakeup

\* The threads that NoLostWakeup counts are finitely many.
LEMMA Finite ==
  ASSUME NEW S, S \subseteq Senders \/ S \subseteq Receivers
  PROVE  IsFiniteSet(S) /\ Cardinality(S) \in Nat
BY FS_Subset, FS_CardinalityType, Zenon

\* What a step may do to the counts in NoLostWakeup: nothing to the wrong side; a
\* push with a sender that will notify; a pop by a receiver that was awake; a
\* sender that hands over to a receiver; or it leaves the queue empty.
LEMMA Counting ==
  ASSUME Data, Data', NoLostWakeup, Asleep # {} \/ Asleep' = {},
         \/ queue' = queue /\ Notifying \subseteq Notifying' /\ Awake \subseteq Awake'
         \/ \E s \in Senders :
              /\ Len(queue') = Len(queue) + 1
              /\ s \notin Notifying /\ Notifying' = Notifying \cup {s} /\ Awake' = Awake
         \/ \E r \in Receivers :
              /\ Len(queue') = Len(queue) - 1
              /\ Notifying' = Notifying /\ Awake \ {r} \subseteq Awake'
         \/ \E s \in Senders, r \in Receivers :
              /\ queue' = queue
              /\ Notifying' = Notifying \ {s} /\ r \notin Awake /\ Awake' = Awake \cup {r}
         \/ queue' = <<>>
  PROVE  NoLostWakeup'
<1> DEFINE n == Cardinality(Notifying)
           a == Cardinality(Awake)
<1>1. /\ Notifying \subseteq Senders /\ Notifying' \subseteq Senders
      /\ Awake \subseteq Receivers /\ Awake' \subseteq Receivers
  BY Zenon DEF Notifying, Awake
<1>2. /\ IsFiniteSet(Notifying) /\ IsFiniteSet(Notifying')
      /\ IsFiniteSet(Awake) /\ IsFiniteSet(Awake')
      /\ n \in Nat /\ Cardinality(Notifying') \in Nat
      /\ a \in Nat /\ Cardinality(Awake') \in Nat
  BY <1>1, Finite, Zenon
<1>3. Len(queue) \in Nat /\ Len(queue') \in Nat
  BY DEF Data
<1>4. SUFFICES ASSUME Asleep' # {}
               PROVE  Len(queue') <= Cardinality(Notifying') + Cardinality(Awake')
  BY Zenon DEF NoLostWakeup
<1>5. Len(queue) <= n + a
  BY <1>4, Zenon DEF NoLostWakeup
<1>6. CASE queue' = queue /\ Notifying \subseteq Notifying' /\ Awake \subseteq Awake'
  <2>1. n <= Cardinality(Notifying') /\ a <= Cardinality(Awake')
    BY <1>2, <1>6, FS_Subset, Zenon
  <2>2. QED
    BY <1>2, <1>3, <1>5, <1>6, <2>1
<1>7. ASSUME NEW s \in Senders, Len(queue') = Len(queue) + 1,
             s \notin Notifying, Notifying' = Notifying \cup {s}, Awake' = Awake
      PROVE  Len(queue') <= Cardinality(Notifying') + Cardinality(Awake')
  <2>1. Cardinality(Notifying') = n + 1
    BY <1>2, <1>7, FS_AddElement, Zenon
  <2>2. QED
    BY <1>2, <1>3, <1>5, <1>7, <2>1
<1>8. ASSUME NEW r \in Receivers, Len(queue') = Len(queue) - 1,
             Notifying' = Notifying, Awake \ {r} \subseteq Awake'
      PROVE  Len(queue') <= Cardinality(Notifying') + Cardinality(Awake')
  <2>1. Cardinality(Awake \ {r}) \in {a, a - 1}
    BY <1>2, FS_RemoveElement, Zenon
  <2>2. Cardinality(Awake \ {r}) <= Cardinality(Awake')
    BY <1>2, <1>8, FS_Subset, Zenon
  <2>3. QED
    BY <1>2, <1>3, <1>5, <1>8, <2>1, <2>2
<1>9. ASSUME NEW s \in Senders, NEW r \in Receivers, queue' = queue,
             Notifying' = Notifying \ {s}, r \notin Awake, Awake' = Awake \cup {r}
      PROVE  Len(queue') <= Cardinality(Notifying') + Cardinality(Awake')
  <2>1. Cardinality(Awake') = a + 1
    BY <1>2, <1>9, FS_AddElement, Zenon
  <2>2. Cardinality(Notifying') \in {n, n - 1}
    BY <1>2, <1>9, FS_RemoveElement, Zenon
  <2>3. QED
    BY <1>2, <1>3, <1>5, <1>9, <2>1, <2>2
<1>10. CASE queue' = <<>>
  BY <1>2, <1>10
<1>11. QED
  BY <1>6, <1>7, <1>8, <1>9, <1>10, Zenon

\* queue.lock(), and the push with its guard.
LEMMA CommonStep ==
  ASSUME QueueInv, Data', NoLostWakeup,
         NEW t \in Threads, Lock(t) \/ (t \in Senders /\ Push(t))
  PROVE  Control' /\ Owned' /\ NoLostWakeup'
<1>1. CASE Lock(t)
  <2>1. Control' /\ Owned'
    BY <1>1, Zenon DEF QueueInv, Control, Labels, Owned, Lock
  <2>2. Notifying' = Notifying /\ Awake' = Awake /\ Asleep' = Asleep /\ queue' = queue
    BY <1>1, Zenon DEF QueueInv, Control, Notifying, Awake, Asleep, Lock
  <2>3. QED
    BY <2>1, <2>2, Counting, Zenon DEF QueueInv
<1>2. CASE t \in Senders /\ Push(t)
  <2>1. Control' /\ Owned'
    BY <1>2, Zenon DEF QueueInv, Control, Labels, Owned, Push
  <2>2. Awake' = Awake /\ Asleep' = Asleep
    BY <1>2, Zenon DEF QueueInv, Control, Awake, Asleep, Push
  <2>3. t \notin Notifying /\ Notifying' = Notifying \cup {t}
    BY <1>2, Zenon DEF QueueInv, Control, Notifying, Push
  <2>4. Len(queue') = Len(queue) + 1
    BY <1>2 DEF QueueInv, Data, Push
  <2>5. QED
    BY <1>2, <2>1, <2>2, <2>3, <2>4, Counting, Zenon DEF QueueInv
<1>3. QED
  BY <1>1, <1>2, Zenon

-----------------------------------------------------------------------------
(***************************************************************************)
(* The queues with a condition variable.                                   *)
(***************************************************************************)

\* wait() is called on an empty queue, and nobody can push before it has
\* unlocked and is asleep.
WaitOnEmpty == \A r \in Receivers : pc[r] = "wait" => queue = <<>>

NobodyParks == \A r \in Receivers : pc[r] # "park"

CondvarInv == QueueInv /\ WaitOnEmpty /\ NobodyParks /\ NoLostWakeup

\* Either queue.
AnyNext == ChannelNext \/ LoopNext

\* The channel starts empty, with all threads before their first call.
LEMMA CondvarInit == Init => CondvarInv /\ F!Init
<1> SUFFICES ASSUME Init
             PROVE  CondvarInv /\ F!Init
  BY Zenon
<1>1. Data /\ Control /\ Owned /\ Lined /\ NoLostWakeup /\ F!Init
  BY InitLine, Zenon DEF Init
<1>2. WaitOnEmpty /\ NobodyParks
  BY Zenon DEF Init, QueueInit, WaitOnEmpty, NobodyParks
<1>3. QED
  BY <1>1, <1>2, Zenon DEF CondvarInv, QueueInv

\* Every step does to the line what Fifo allows.
LEMMA CondvarLine ==
  ASSUME CondvarInv, [AnyNext]_vars
  PROVE  Data' /\ Lined' /\ (F!Next \/ UNCHANGED F!fifoVars)
<1>1. LineStep
  BY Zenon DEF AnyNext, ChannelNext, LoopNext, ChannelStep, LoopStep, CondvarStep,
     Spurious, Terminated,
         Lock, NotifyOne, PopNothing, Wait, PopAndReturn, PopAndBreak, DropGuard,
     SpuriousWake,
         LineStep, vars, queueVars
<1>2. QED
  BY <1>1, FifoStep, Zenon DEF CondvarInv, QueueInv

\* queue.lock() and the push.
LEMMA CondvarCommon ==
  ASSUME CondvarInv, Data', NEW t \in Threads, Lock(t) \/ (t \in Senders /\ Push(t))
  PROVE  Control' /\ Owned' /\ WaitOnEmpty' /\ NobodyParks' /\ NoLostWakeup'
<1>1. Control' /\ Owned' /\ NoLostWakeup'
  BY CommonStep, Zenon DEF CondvarInv
<1>2. CASE Lock(t)
  BY <1>1, <1>2, Zenon DEF CondvarInv, QueueInv, Control, WaitOnEmpty, NobodyParks, Lock
<1>3. CASE t \in Senders /\ Push(t)
  <2>1. \A r \in Receivers : pc[r] # "wait"
    BY <1>3, Zenon DEF CondvarInv, QueueInv, Owned, Push
  <2>2. QED
    BY <1>1, <1>3, <2>1, Zenon
       DEF CondvarInv, QueueInv, Control, WaitOnEmpty, NobodyParks, Push
<1>4. QED
  BY <1>2, <1>3, Zenon

\* notify_one() hands over to a receiver, or finds nobody asleep.
LEMMA NotifyStep ==
  ASSUME CondvarInv, Data', NEW s \in Senders, NotifyOne(s)
  PROVE  Control' /\ Owned' /\ WaitOnEmpty' /\ NobodyParks' /\ NoLostWakeup'
<1>1. ASSUME NEW r \in Receivers, pc[r] = "waiting",
             pc' = [pc EXCEPT ![s] = NextSend(s), ![r] = "relock"]
      PROVE  Control' /\ Owned' /\ WaitOnEmpty' /\ NobodyParks' /\ NoLostWakeup'
  <2>1. /\ s # r /\ pc'[r] = "relock" /\ pc'[s] \in {"lock", "done"}
        /\ \A t \in Threads \ {s, r} : pc'[t] = pc[t]
    BY <1>1, Zenon DEF CondvarInv, QueueInv, Control, NextSend
  <2>2. pc' \in [Threads -> Labels]
    BY <1>1, Zenon DEF CondvarInv, QueueInv, Control, NextSend, Labels
  <2>3. Control' /\ Owned' /\ WaitOnEmpty' /\ NobodyParks'
    BY <2>1, <2>2, Zenon
       DEF CondvarInv, QueueInv, Control, Owned, WaitOnEmpty, NobodyParks, NotifyOne
  <2>4. Notifying' = Notifying \ {s} /\ r \notin Awake /\ Awake' = Awake \cup {r}
    BY <1>1, <2>1, Zenon DEF Notifying, Awake
  <2>5. Asleep # {} /\ queue' = queue
    BY <1>1, Zenon DEF Asleep, NotifyOne
  <2>6. QED
    BY <2>3, <2>4, <2>5, Counting, Zenon DEF CondvarInv, QueueInv
<1>2. ASSUME \A r \in Receivers : pc[r] # "waiting", Goto(s, NextSend(s))
      PROVE  Control' /\ Owned' /\ WaitOnEmpty' /\ NobodyParks' /\ NoLostWakeup'
  <2>1. Control' /\ Owned' /\ WaitOnEmpty' /\ NobodyParks'
    BY <1>2, Zenon DEF CondvarInv, QueueInv, Control, Labels, Owned, WaitOnEmpty,
       NobodyParks, NotifyOne, NextSend
  <2>2. Asleep' = {}
    BY <1>2, Zenon DEF CondvarInv, QueueInv, Control, NobodyParks, Asleep
  <2>3. QED
    BY <2>1, <2>2, Zenon DEF NoLostWakeup
<1>3. QED
  BY <1>1, <1>2, Zenon DEF NotifyOne

\* A receiver takes an item and returns with it or keeps its guard.
LEMMA TakeStep ==
  ASSUME CondvarInv, Data', NEW r \in Receivers, PopAndReturn(r) \/ PopAndBreak(r)
  PROVE  Control' /\ Owned' /\ WaitOnEmpty' /\ NobodyParks' /\ NoLostWakeup'
<1> USE DEF PopAndReturn, PopAndBreak
<1>1. queue # <<>> /\ queue' = Tail(queue) /\ queue \in Seq(Items)
  BY Zenon DEF PopFront, CondvarInv, QueueInv, Data
<1>2. Control'
  BY Zenon DEF CondvarInv, QueueInv, Control, Labels
<1>3. Owned'
  BY Zenon DEF CondvarInv, QueueInv, Control, Owned
<1>4. WaitOnEmpty' /\ NobodyParks'
  BY <1>1, Zenon DEF CondvarInv, QueueInv, Control, WaitOnEmpty, NobodyParks
<1>5. Len(queue') = Len(queue) - 1
  BY <1>1
<1>6. Notifying' = Notifying /\ Awake \ {r} \subseteq Awake' /\ Asleep' = Asleep
  BY Zenon DEF CondvarInv, QueueInv, Control, Notifying, Awake, Asleep
<1>7. QED
  BY <1>2, <1>3, <1>4, <1>5, <1>6, Counting, Zenon DEF CondvarInv, QueueInv

\* A receiver finds nothing, sleeps, wakes for no reason, or drops its guard.
LEMMA SleepStep ==
  ASSUME CondvarInv, Data', NEW r \in Receivers,
         PopNothing(r) \/ Wait(r) \/ SpuriousWake(r) \/ DropGuard(r)
  PROVE  Control' /\ Owned' /\ WaitOnEmpty' /\ NobodyParks' /\ NoLostWakeup'
<1> USE DEF PopNothing, Wait, SpuriousWake, DropGuard
<1>1. Control' /\ Owned'
  BY Zenon DEF CondvarInv, QueueInv, Control, Labels, Owned
<1>2. WaitOnEmpty' /\ NobodyParks'
  BY Zenon DEF CondvarInv, QueueInv, Control, WaitOnEmpty, NobodyParks
<1>3. CASE PopNothing(r) \/ Wait(r)
  <2>1. queue' = <<>>
    BY <1>3, Zenon DEF CondvarInv, WaitOnEmpty
  <2>2. Len(queue') = 0 /\ Notifying' \subseteq Senders /\ Awake' \subseteq Receivers
    BY <2>1, Zenon DEF Notifying, Awake
  <2>3. Cardinality(Notifying') \in Nat /\ Cardinality(Awake') \in Nat
    BY <2>2, Finite, Zenon
  <2>4. NoLostWakeup'
    BY <2>2, <2>3 DEF NoLostWakeup
  <2>5. QED
    BY <1>1, <1>2, <2>4, Zenon
<1>4. CASE SpuriousWake(r) \/ DropGuard(r)
  <2>1. Notifying' = Notifying /\ Awake \subseteq Awake' /\ Asleep' \subseteq Asleep /\ queue' = queue
    BY <1>4, Zenon DEF CondvarInv, QueueInv, Control, Notifying, Awake, Asleep
  <2>2. QED
    BY <1>1, <1>2, <2>1, Counting, Zenon DEF CondvarInv, QueueInv
<1>5. QED
  BY <1>3, <1>4, Zenon

\* The invariant of both queues.
LEMMA CondvarStepInv == CondvarInv /\ [AnyNext]_vars => CondvarInv'
<1> SUFFICES ASSUME CondvarInv, [AnyNext]_vars
             PROVE  CondvarInv'
  BY Zenon
<1>1. Data' /\ Lined'
  BY CondvarLine, Zenon
<1>2. Control' /\ Owned' /\ WaitOnEmpty' /\ NobodyParks' /\ NoLostWakeup'
  <2>1. CASE UNCHANGED vars
    BY <2>1, Zenon
       DEF CondvarInv, QueueInv, Control, Owned, WaitOnEmpty, NobodyParks, NoLostWakeup,
                Asleep, Notifying, Awake, vars, queueVars
  <2>2. CASE \E t \in Threads : ChannelStep(t) \/ LoopStep(t)
    BY <1>1, <2>2, CondvarCommon, NotifyStep, TakeStep, SleepStep, Zenon
       DEF ChannelStep, LoopStep, CondvarStep
  <2>3. CASE Spurious
    BY <1>1, <2>3, SleepStep, Zenon DEF Spurious
  <2>4. QED
    BY <2>1, <2>2, <2>3, Zenon DEF AnyNext, ChannelNext, LoopNext, Terminated
<1>3. QED
  BY <1>1, <1>2, Zenon DEF CondvarInv, QueueInv

\* No receiver sleeps in wait() while there are more items than threads that
\* will come for them.
THEOREM CondvarWakeup == ChannelSpec \/ LoopSpec => []NoLostWakeup
<1>1. ([ChannelNext]_vars => [AnyNext]_vars) /\ ([LoopNext]_vars => [AnyNext]_vars)
  BY Zenon DEF AnyNext
<1>2. CondvarInv => NoLostWakeup
  BY Zenon DEF CondvarInv
<1>3. QED
  BY <1>1, <1>2, CondvarInit, CondvarStepInv, PTL DEF ChannelSpec, LoopSpec

\* Channel, and the queue of section 1.8, deliver every item once and in order.
THEOREM CondvarFifo == ChannelSpec \/ LoopSpec => ImplementsFifo
<1>1. ([ChannelNext]_vars => [AnyNext]_vars) /\ ([LoopNext]_vars => [AnyNext]_vars)
  BY Zenon DEF AnyNext
<1>2. CondvarInv /\ [AnyNext]_vars => [F!Next]_(F!fifoVars)
  BY CondvarLine, Zenon
<1>3. QED
  BY <1>1, <1>2, CondvarInit, CondvarStepInv, PTL
     DEF ChannelSpec, LoopSpec, ImplementsFifo, F!Spec

-----------------------------------------------------------------------------
(***************************************************************************)
(* The queue with thread parking.                                          *)
(***************************************************************************)

\* Only the thread whose handle the senders have receives, so whoever is asleep
\* is the one that unpark() wakes.
OneConsumer ==
  \A r \in Receivers : pc[r] # "done" => r = Consumer /\ pc[r] \in {"lock", "pop", "park"}

ParkingInv == QueueInv /\ OneConsumer /\ NoLostWakeup

\* The queue starts empty, and one receiver starts.
LEMMA ParkingStart == ParkInit => ParkingInv /\ F!Init
<1> SUFFICES ASSUME ParkInit
             PROVE  ParkingInv /\ F!Init
  BY Zenon
<1>1. Data /\ Control /\ Owned /\ Lined /\ NoLostWakeup /\ F!Init
  BY InitLine, Zenon DEF ParkInit
<1>2. OneConsumer
  BY Zenon DEF ParkInit, QueueInit, OneConsumer
<1>3. QED
  BY <1>1, <1>2, Zenon DEF ParkingInv, QueueInv

\* Every step does to the line what Fifo allows.
LEMMA ParkingLine ==
  ASSUME ParkingInv, [ParkNext]_queueVars
  PROVE  Data' /\ Lined' /\ (F!Next \/ UNCHANGED F!fifoVars)
<1>1. LineStep
  BY Zenon
     DEF ParkNext, ParkStep, Lock, Unpark, Pop, Park, SpuriousPark, LineStep, queueVars
<1>2. QED
  BY <1>1, FifoStep, Zenon DEF ParkingInv, QueueInv

\* Every step of a thread keeps the rest of the invariant.
LEMMA ParkingThreads ==
  ASSUME ParkingInv, Data', NEW t \in Threads,
         ParkStep(t) \/ (t \in Receivers /\ SpuriousPark(t))
  PROVE  Control' /\ Owned' /\ OneConsumer' /\ NoLostWakeup'
<1>1. CASE Lock(t) \/ (t \in Senders /\ Push(t))
  <2>1. Control' /\ Owned' /\ NoLostWakeup'
    BY <1>1, CommonStep, Zenon DEF ParkingInv
  <2>2. OneConsumer'
    BY <1>1, Zenon DEF ParkingInv, QueueInv, Control, OneConsumer, Lock, Push
  <2>3. QED
    BY <2>1, <2>2, Zenon
<1>2. CASE t \in Senders /\ Unpark(t)
  <2>1. Control' /\ Owned' /\ OneConsumer'
    BY <1>2, Zenon
       DEF ParkingInv, QueueInv, Control, Labels, Owned, OneConsumer, Unpark, NextSend
  <2>2. Asleep' = {}
    BY <1>2, <2>1, Zenon DEF OneConsumer, Asleep, Unpark
  <2>3. QED
    BY <2>1, <2>2, Zenon DEF NoLostWakeup
<1>3. CASE t \in Receivers /\ Pop(t)
  <2>1. Control' /\ Owned'
    BY <1>3, Zenon DEF ParkingInv, QueueInv, Control, Labels, Owned, Pop
  <2>2. OneConsumer'
    BY <1>3, Zenon DEF ParkingInv, QueueInv, Control, OneConsumer, Pop
  <2>3. CASE PopFront(t) /\ Goto(t, "lock")
    <3>1. Asleep' = {}
      BY <1>3, <2>3, Zenon DEF ParkingInv, QueueInv, Control, OneConsumer, Asleep, Pop
    <3>2. QED
      BY <2>1, <2>2, <3>1, Zenon DEF NoLostWakeup
  <2>4. CASE queue = <<>> /\ queue' = queue
    <3>1. Len(queue') = 0 /\ Notifying' \subseteq Senders /\ Awake' \subseteq Receivers
      BY <2>4, Zenon DEF Notifying, Awake
    <3>2. Cardinality(Notifying') \in Nat /\ Cardinality(Awake') \in Nat
      BY <3>1, Finite, Zenon
    <3>3. NoLostWakeup'
      BY <3>1, <3>2 DEF NoLostWakeup
    <3>4. QED
      BY <2>1, <2>2, <3>3, Zenon
  <2>5. QED
    BY <1>3, <2>3, <2>4, Zenon DEF Pop
<1>4. CASE t \in Receivers /\ (Park(t) \/ SpuriousPark(t))
  <2>1. Control' /\ Owned' /\ OneConsumer'
    BY <1>4, Zenon
       DEF ParkingInv, QueueInv, Control, Labels, Owned, OneConsumer, Park, SpuriousPark
  <2>2. Asleep' = {}
    BY <1>4, Zenon
       DEF ParkingInv, QueueInv, Control, OneConsumer, Asleep, Park, SpuriousPark
  <2>3. QED
    BY <2>1, <2>2, Zenon DEF NoLostWakeup
<1>5. QED
  BY <1>1, <1>2, <1>3, <1>4, Zenon DEF ParkStep

\* The invariant of the queue.
LEMMA ParkingStepInv == ParkingInv /\ [ParkNext]_queueVars => ParkingInv'
<1> SUFFICES ASSUME ParkingInv, [ParkNext]_queueVars
             PROVE  ParkingInv'
  BY Zenon
<1>1. Data' /\ Lined'
  BY ParkingLine, Zenon
<1>2. Control' /\ Owned' /\ OneConsumer' /\ NoLostWakeup'
  <2>1. CASE UNCHANGED queueVars
    BY <2>1, Zenon DEF ParkingInv, QueueInv, Control, Owned, OneConsumer, NoLostWakeup,
                Asleep, Notifying, Awake, queueVars
  <2>2. CASE ParkNext
    BY <1>1, <2>2, ParkingThreads, Zenon DEF ParkNext
  <2>3. QED
    BY <2>1, <2>2, Zenon
<1>3. QED
  BY <1>1, <1>2, Zenon DEF ParkingInv, QueueInv

\* The consumer does not stay parked while an item has nobody coming for it.
THEOREM ParkingWakeup == ParkSpec => []NoLostWakeup
<1>1. ParkingInv => NoLostWakeup
  BY Zenon DEF ParkingInv
<1>2. QED
  BY <1>1, ParkingStart, ParkingStepInv, PTL DEF ParkSpec

\* The queue of 01-08-01 delivers every item once and in order.
THEOREM ParkingFifo == ParkSpec => ImplementsFifo
<1>1. ParkingInv /\ [ParkNext]_queueVars => [F!Next]_(F!fifoVars)
  BY ParkingLine, Zenon
<1>2. QED
  BY <1>1, ParkingStart, ParkingStepInv, PTL DEF ParkSpec, ImplementsFifo, F!Spec
=============================================================================
