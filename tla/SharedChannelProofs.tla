------------------------ MODULE SharedChannelProofs ------------------------
(***************************************************************************)
(* The two channels of section 5.3, CheckedChannel (C) and StateChannel    *)
(* (A), for any finite sets of senders and of eager receivers: no data     *)
(* race, every message gets one owner, and main() does not panic.          *)
(*                                                                         *)
(* In both, one sender gets through the check of send(), and what happens  *)
(* to its message is a matter of how long the modification order is: with  *)
(* k values or fewer it is not published, with k + 1 it is, and with k + 2 *)
(* a receiver has claimed it.  k is 1 for ready and 2 for state.           *)
(***************************************************************************)
EXTENDS SharedChannel, TLAPS

VARIABLE in_use   \* of CheckedChannel

Labels == {"send", "write", "store", "unpark", "returned", "panicked", "receive", "read", "idle",
           "is_ready", "park", "join", "done"}

Kinds ==
  /\ pc \in [Threads -> Labels]
  /\ \A s \in Senders : pc[s] \in {"send", "write", "store", "unpark", "returned", "panicked"}
  /\ \A e \in Eager : pc[e] \in {"receive", "read", "idle", "returned", "panicked"}
  /\ pc[Main] \in {"is_ready", "park", "receive", "read", "join", "done"}

Types ==
  /\ message \in Senders \cup {Uninit}
  /\ hb \in [Threads -> SUBSET Threads]
  /\ view \subseteq Threads
  /\ taken \in [Senders -> Nat]
  /\ seen \in [Threads -> Nat]
  /\ token \in [Threads -> Nat]

\* Loads and tokens are within the modification order.
InOrder ==
  /\ Len(mo) \in Nat
  /\ \A t \in Threads : seen[t] \in 1..Len(mo) /\ token[t] <= Len(mo)

\* The sender that send() has let through, and when its message is published.
Past(s) == pc[s] \in {"write", "store", "unpark", "returned"}

Sent(s) == pc[s] \in {"unpark", "returned"}

OneSender == \A s, u \in Senders : Past(s) /\ Past(u) => s = u

Publication(k) == Len(mo) > k <=> \E s \in Senders : Sent(s)

\* Before the write of the message nobody has touched the cell; then its sender
\* is ordered after all accesses, and so is who acquires from the publication.
Ordered(k) ==
  /\ (\A s \in Senders : pc[s] # "store" /\ ~Sent(s)) => \A t \in Threads : hb[t] = Threads
  /\ \A s \in Senders : pc[s] = "store" => hb[s] = Threads
  /\ Len(mo) = k + 1 => view = Threads

Content == \A s \in Senders : pc[s] = "store" \/ Sent(s) => message = s

\* One receiver at a time is in receive() after the check, and the message is
\* still there for it.
Readers(k) ==
  \A t \in Threads : pc[t] = "read" =>
    /\ Len(mo) = k + 2
    /\ hb[t] = Threads
    /\ \A u \in Threads : pc[u] = "read" => u = t

\* Who has taken the message of a sender.
Owners(k) ==
  \A s \in Senders :
    /\ pc[s] \in {"send", "write", "store"} => taken[s] = 0
    /\ pc[s] = "panicked" => taken[s] = 1
    /\ Sent(s) /\ Len(mo) = k + 1 => taken[s] = IF Finished THEN 1 ELSE 0
    /\ Sent(s) /\ Len(mo) = k + 2 => taken[s] = IF \E t \in Threads : pc[t] = "read" THEN 0 ELSE 1

Joined == Finished => \A t \in Threads \ {Main} : Ended(t)

\* main() calls receive() when it has seen the publication, and a message that
\* is claimed is claimed by somebody who is in receive() or past it.
Claims(k) ==
  /\ pc[Main] = "receive" => seen[Main] > k
  /\ Len(mo) = k + 2 =>
       \/ \E e \in Eager : pc[e] \in {"read", "returned"}
       \/ pc[Main] \in {"read", "join", "done"}

SharedInv(k) ==
  /\ Kinds /\ Types /\ InOrder /\ OneSender /\ Publication(k) /\ Ordered(k) /\ Content
  /\ Readers(k) /\ Owners(k) /\ Joined /\ Claims(k)

\* The values of an atomic are the first ones of last given values, in S.
Follows(m, S, values, last) ==
  /\ m \in Seq(S) /\ Len(m) \in 1..last
  /\ \A i \in 1..Len(m) : m[i] = values[i]

\* ready is false, then true, then false again.
Turns == <<FALSE, TRUE, FALSE>>

CheckedInv ==
  /\ SharedInv(1)
  /\ Follows(mo, BOOLEAN, Turns, 3)
  /\ in_use \in BOOLEAN
  /\ in_use <=> \E s \in Senders : Past(s)

\* state goes through its four values, and leaves the first with a sender.
States == <<"EMPTY", "WRITING", "READY", "READING">>

StateInv ==
  /\ SharedInv(2)
  /\ Follows(mo, {"EMPTY", "WRITING", "READY", "READING"}, States, 4)
  /\ Len(mo) > 1 <=> \E s \in Senders : Past(s)

USE SharedAssumption DEF Threads, Goto, cellVars

\* The larger of two numbers.
LEMMA MaxOfTwo ==
  ASSUME NEW a \in Nat, NEW b \in Nat
  PROVE  Max({a, b}) \in {a, b} /\ Max({a, b}) >= a /\ Max({a, b}) >= b
<1>1. \E x \in {a, b} : \A y \in {a, b} : x >= y
  <2>1. CASE a >= b
    BY <2>1
  <2>2. CASE b >= a
    BY <2>2
  <2>3. QED
    BY <2>1, <2>2
<1>2. QED
  BY <1>1, Zenon DEF Max

\* The current value of an atomic that follows given values.
LEMMA LastValue ==
  ASSUME NEW m, NEW S, NEW values, NEW last \in Nat, Follows(m, S, values, last)
  PROVE  Len(m) \in 1..last /\ m[Len(m)] = values[Len(m)]
<1>1. Len(m) \in 1..Len(m)
  BY DEF Follows
<1>2. QED
  BY <1>1, Zenon DEF Follows

\* A write of the next value.
LEMMA NextValue ==
  ASSUME NEW m, NEW S, NEW values, NEW last \in Nat, Follows(m, S, values, last), Len(m) < last,
         NEW v \in S, values[Len(m)] # v, values[Len(m) + 1] = v
  PROVE  /\ m[Len(m)] # v
         /\ Follows(Append(m, v), S, values, last)
         /\ Len(Append(m, v)) = Len(m) + 1
<1>1. /\ Append(m, v) \in Seq(S) /\ Len(Append(m, v)) = Len(m) + 1
      /\ Append(m, v)[Len(m) + 1] = v
      /\ \A i \in 1..Len(m) : Append(m, v)[i] = m[i]
  BY DEF Follows
<1>2. QED
  BY <1>1, LastValue DEF Follows

\* A step that changes nothing the invariant is about.
LEMMA SharedUnchanged ==
  ASSUME NEW k \in Nat, SharedInv(k),
         UNCHANGED <<message, mo, seen, view, hb, taken, pc, token>>
  PROVE  SharedInv(k)' /\ \A s \in Senders : Past(s)' = Past(s)
<1> USE DEF SharedInv
<1>1. /\ \A s \in Senders : Past(s)' = Past(s) /\ Sent(s)' = Sent(s)
      /\ \A t \in Threads : Ended(t)' = Ended(t)
      /\ Finished' = Finished
  BY Zenon DEF Past, Sent, Ended, Finished
<1>2. Kinds' /\ Types' /\ InOrder'
  BY Zenon DEF Kinds, Types, InOrder
<1>3. OneSender' /\ Publication(k)' /\ Content'
  BY <1>1, Zenon DEF OneSender, Publication, Content
<1>4. Ordered(k)' /\ Readers(k)'
  BY <1>1, Zenon DEF Ordered, Readers
<1>5. Owners(k)'
  BY <1>1, Zenon DEF Owners
<1>6. Joined' /\ Claims(k)'
  BY <1>1, Zenon DEF Joined, Claims
<1>7. QED
  BY <1>1, <1>2, <1>3, <1>4, <1>5, <1>6, Zenon

\* The write of the message: its sender alone is past the check.
LEMMA WriteStep ==
  ASSUME NEW k \in Nat, SharedInv(k), NEW s \in Senders, Write(s)
  PROVE  SharedInv(k)'
<1> USE DEF SharedInv, Write, WriteMessage, Access
<1>1. Kinds'
  BY Zenon DEF Kinds, Labels
<1>2. Types' /\ InOrder'
  BY Zenon DEF Types, InOrder, AfterAccess, ViewAfterAccess
<1>3. /\ OneSender' /\ Publication(k)' /\ Content' /\ Owners(k)' /\ Joined' /\ Claims(k)'
  BY DEF Kinds, OneSender, Publication, Content, Owners, Joined, Claims, Past, Sent,
     Finished, Ended
<1>4. /\ \A u \in Senders : pc[u] # "store" /\ ~Sent(u)
      /\ \A t \in Threads : pc[t] # "read"
      /\ ~(Len(mo) > k) /\ Len(mo) \in Nat
  BY DEF InOrder, OneSender, Past, Sent, Publication, Readers
<1>5. Ordered(k)'
  BY <1>4 DEF Kinds, Types, Ordered, Sent, AfterAccess
<1>6. Readers(k)'
  BY <1>4, Zenon DEF Kinds, Readers
<1>7. QED
  BY <1>1, <1>2, <1>3, <1>5, <1>6, Zenon

\* unpark(), and the loop of main(): who has a token or leaves park() knows of
\* values that are there, and main() goes on to receive() when it has loaded v.
LEMMA WaitStep ==
  ASSUME NEW k \in Nat, NEW v, SharedInv(k), \A i \in 1..Len(mo) : mo[i] = v => i > k,
         \/ \E s \in Senders : UnparkMain(s)
         \/ IsReady(v) \/ Park \/ SpuriousPark
  PROVE  SharedInv(k)'
<1> USE DEF SharedInv
<1>1. UNCHANGED <<message, mo, view, hb, taken>>
  BY Zenon DEF UnparkMain, IsReady, Park, ParkReturns, SpuriousPark, SpuriousReturn
<1>2. Kinds'
  BY Zenon DEF Kinds, Labels, UnparkMain, IsReady, Park, ParkReturns, SpuriousPark,
     SpuriousReturn
<1>3. /\ \A t \in Threads : pc'[t] = "read" <=> pc[t] = "read"
      /\ \A e \in Eager : pc'[e] = pc[e]
      /\ pc[Main] \in {"join", "done"} \/ pc'[Main] \in {"join", "done"} => pc'[Main] = pc[Main]
      /\ \A s \in Senders : pc'[s] = pc[s] \/ (pc[s] = "unpark" /\ pc'[s] = "returned")
  <2>1. CASE \E s \in Senders : UnparkMain(s)
    BY <2>1, Zenon DEF Kinds, UnparkMain
  <2>2. CASE IsReady(v) \/ Park \/ SpuriousPark
    <3>1. pc[Main] \in {"is_ready", "park"}
      BY <2>2, Zenon DEF IsReady, Park, SpuriousPark
    <3>2. PICK l \in {"is_ready", "receive", "park"} : pc' = [pc EXCEPT ![Main] = l]
      BY <2>2, Zenon DEF IsReady, Park, ParkReturns, SpuriousPark, SpuriousReturn
    <3>3. QED
      BY <3>1, <3>2, Zenon DEF Kinds
  <2>3. QED
    BY <2>1, <2>2, Zenon
<1>4. Types' /\ InOrder' /\ (pc'[Main] = "receive" => seen'[Main] > k)
  <2>1. ASSUME NEW s \in Senders, UnparkMain(s)
        PROVE  Types' /\ InOrder' /\ (pc'[Main] = "receive" => seen'[Main] > k)
    <3>1. PICK i \in {token[Main], seen[s]} : token' = [token EXCEPT ![Main] = i]
      BY <2>1, MaxOfTwo, Zenon DEF Types, UnparkMain, Unpark
    <3>2. /\ token' \in [Threads -> Nat] /\ seen' = seen
          /\ \A t \in Threads : token'[t] <= Len(mo)
      BY <2>1, <3>1 DEF Types, InOrder, UnparkMain
    <3>3. pc'[Main] = pc[Main]
      BY <2>1, Zenon DEF Kinds, UnparkMain
    <3>4. QED
      BY <1>1, <3>2, <3>3, Zenon DEF Types, InOrder, Claims
  <2>2. CASE IsReady(v)
    <3>1. PICK i \in Loadable(Main) :
            LoadAt(Main, i) /\ Goto(Main, IF mo[i] = v THEN "receive" ELSE "park")
      BY <2>2, Zenon DEF IsReady
    <3>2. i \in 1..Len(mo)
      BY DEF Types, InOrder, Loadable
    <3>3. seen'[Main] = i /\ (pc'[Main] = "receive" => mo[i] = v)
      BY <3>1, Zenon DEF Types, Kinds, LoadAt
    <3>4. QED
      BY <1>1, <2>2, <3>1, <3>2, <3>3, SMTT(30) DEF Types, InOrder, IsReady, LoadAt
  <2>3. CASE Park
    <3>1. PICK i : i = Max({seen[Main], token[Main]})
      BY Zenon
    <3>2. i \in {seen[Main], token[Main]} /\ i >= seen[Main]
      BY <3>1, MaxOfTwo, Zenon DEF Types
    <3>3. seen' = [seen EXCEPT ![Main] = i] /\ token' = [token EXCEPT ![Main] = 0]
      BY <2>3, <3>1, Zenon DEF Park, ParkReturns
    <3>4. i \in 1..Len(mo) /\ i \in Nat
      BY <3>2 DEF Types, InOrder
    <3>5. /\ token' \in [Threads -> Nat] /\ seen' \in [Threads -> Nat]
          /\ \A t \in Threads : token'[t] <= Len(mo) /\ seen'[t] \in 1..Len(mo)
      BY <3>3, <3>4 DEF Types, InOrder
    <3>6. pc'[Main] = "is_ready"
      BY <2>3, Zenon DEF Kinds, Park, ParkReturns
    <3>7. QED
      BY <1>1, <3>5, <3>6, Zenon DEF Types, InOrder
  <2>4. CASE SpuriousPark
    BY <1>1, <2>4, Zenon DEF Kinds, Types, InOrder, SpuriousPark, SpuriousReturn
  <2>5. QED
    BY <2>1, <2>2, <2>3, <2>4, Zenon
<1>5. OneSender' /\ Publication(k)' /\ Content'
  BY <1>1, <1>3 DEF OneSender, Publication, Content, Past, Sent
<1>6. Ordered(k)' /\ Readers(k)'
  BY <1>1, <1>3 DEF Ordered, Readers, Sent
<1>7. Finished' = Finished
  BY <1>3, Zenon DEF Finished
<1>8. Owners(k)'
  BY <1>1, <1>3, <1>7 DEF Owners, Sent
<1>9. Joined'
  BY <1>3, <1>7, Zenon DEF Joined, Ended, Finished
<1>10. Claims(k)'
  BY <1>1, <1>3, <1>4, Zenon DEF Claims
<1>11. QED
  BY <1>2, <1>4, <1>5, <1>6, <1>8, <1>9, <1>10, Zenon

\* The read in receive() takes the message of the one sender.
LEMMA ReadStep ==
  ASSUME NEW k \in Nat, SharedInv(k), NEW t \in Threads, Read(t)
  PROVE  SharedInv(k)'
<1> USE DEF SharedInv, Read, TakeMessage, Access, After
<1>1. Kinds'
  BY Zenon DEF Kinds, Labels
<1>2. Types' /\ InOrder'
  BY SMTT(30) DEF Types, InOrder, AfterAccess, ViewAfterAccess, Take
<1>3. /\ OneSender' /\ Publication(k)' /\ Content' /\ Claims(k)'
  BY Zenon DEF Kinds, OneSender, Publication, Content, Claims, Past, Sent
<1>4. /\ Len(mo) = k + 2 /\ Len(mo) # k + 1 /\ Len(mo) > k
      /\ \A u \in Threads : pc[u] = "read" => u = t
      /\ \A u \in Threads : pc'[u] # "read"
  BY DEF InOrder, Readers, Kinds
<1>5. PICK s \in Senders : Sent(s) /\ message = s /\ \A u \in Senders : Past(u) => u = s
  BY <1>4, Zenon DEF Publication, Content, OneSender, Sent, Past
<1>6. Ordered(k)' /\ Readers(k)'
  BY <1>4, <1>5, Zenon DEF Kinds, Ordered, Readers, Sent, Past
<1>7. Owners(k)'
  <2>1. taken[s] = 0 /\ \A u \in Senders : taken'[u] = IF u = s THEN 1 ELSE taken[u]
    BY <1>4, <1>5, SMTT(30) DEF Owners, Take, Types
  <2>2. \A u \in Senders : pc'[u] = pc[u]
    BY Zenon DEF Kinds
  <2>3. QED
    BY <1>4, <1>5, <2>1, <2>2 DEF Owners, Types, Past, Sent
<1>8. Joined'
  BY Zenon DEF Kinds, Joined, Ended, Finished
<1>9. QED
  BY <1>1, <1>2, <1>3, <1>6, <1>7, <1>8, Zenon

\* drop() takes the message of a sender if nobody has received it.
LEMMA DropStep ==
  ASSUME NEW k \in Nat, NEW v, SharedInv(k), Current = v <=> Len(mo) = k + 1, JoinAndDrop(v)
  PROVE  SharedInv(k)'
<1> USE DEF SharedInv, JoinAndDrop
<1>1. Kinds'
  BY Zenon DEF Kinds, Labels
<1>2. Types' /\ InOrder'
  <2>1. UNION {hb[u] : u \in DOMAIN hb} \subseteq Threads
    BY DEF Types
  <2>2. hb' \in [Threads -> SUBSET Threads]
    BY <2>1, Zenon DEF Types, AfterJoin
  <2>3. QED
    BY <2>2 DEF Types, InOrder, Take
<1>3. /\ OneSender' /\ Publication(k)' /\ Content' /\ Claims(k)'
  BY Zenon DEF Kinds, OneSender, Publication, Content, Claims, Past, Sent
<1>4. \A t \in Threads : pc[t] # "read" /\ pc'[t] # "read"
  BY Zenon DEF Kinds, Ended
<1>5. /\ \A s \in Senders : pc'[s] = pc[s] /\ hb'[s] = hb[s] /\ pc[s] \in {"returned", "panicked"}
      /\ Finished' /\ ~Finished
  BY Zenon DEF Kinds, Types, Ended, Finished, AfterJoin
<1>6. Ordered(k)' /\ Readers(k)'
  <2>1. CASE \A s \in Senders : ~Sent(s)
    <3>1. \A t \in Threads : hb[t] = Threads
      BY <1>5, <2>1, Zenon DEF Ordered
    <3>2. hb' = hb
      <4>1. UNION {hb[u] : u \in DOMAIN hb} = Threads
        BY <3>1, Zenon DEF Types
      <4>2. QED
        BY <3>1, <4>1, Zenon DEF AfterJoin, Types
    <3>3. QED
      BY <1>4, <1>5, <3>1, <3>2, Zenon DEF Ordered, Readers, Sent
  <2>2. CASE \E s \in Senders : Sent(s)
    BY <1>4, <1>5, <2>2, Zenon DEF Ordered, Readers, Sent
  <2>3. QED
    BY <2>1, <2>2, Zenon
<1>7. Owners(k)'
  <2>1. CASE Len(mo) = k + 1
    <3>1. PICK s \in Senders : Sent(s) /\ message = s /\ \A u \in Senders : Past(u) => u = s
      BY <2>1 DEF InOrder, Publication, Content, OneSender, Sent, Past
    <3>2. taken[s] = 0 /\ \A u \in Senders : taken'[u] = IF u = s THEN 1 ELSE taken[u]
      BY <1>5, <2>1, <3>1 DEF Owners, Take, Types
    <3>3. QED
      BY <1>5, <2>1, <3>1, <3>2 DEF Owners, Types, Past, Sent
  <2>2. CASE Len(mo) # k + 1
    BY <1>4, <1>5, <2>2, Zenon DEF Owners, Sent
  <2>3. QED
    BY <2>1, <2>2, Zenon
<1>8. Joined'
  BY Zenon DEF Kinds, Joined, Ended, Finished
<1>9. QED
  BY <1>1, <1>2, <1>3, <1>6, <1>7, <1>8, Zenon

\* A call of send(): it gets through and is the first, or panics.  If it writes
\* the atomic, then not as far as the publication.
LEMMA SendStep ==
  ASSUME NEW k \in Nat, SharedInv(k), NEW s \in Senders, pc[s] = "send",
         UNCHANGED <<message, view, hb, token>>,
         mo' = mo \/ (Len(mo') \in Nat /\ Len(mo) < Len(mo') /\ Len(mo') <= k),
         NEW i \in 1..Len(mo'), seen' = [seen EXCEPT ![s] = i],
         \/ pc' = [pc EXCEPT ![s] = "panicked"] /\ Take(s) /\ \E u \in Senders : Past(u)
         \/ pc' = [pc EXCEPT ![s] = "write"] /\ UNCHANGED taken /\ \A u \in Senders : ~Past(u)
  PROVE  SharedInv(k)' /\ \E u \in Senders : Past(u)'
<1> USE DEF SharedInv
<1>1. Kinds'
  BY Zenon DEF Kinds, Labels
<1>2. /\ Len(mo) \in Nat /\ Len(mo') \in Nat /\ Len(mo) <= Len(mo')
      /\ (Len(mo') > k <=> Len(mo) > k)
      /\ (Len(mo') = k + 1 <=> Len(mo) = k + 1)
      /\ (Len(mo') = k + 2 <=> Len(mo) = k + 2)
  BY DEF InOrder
<1>3. /\ \A t \in Threads \ {s} : pc'[t] = pc[t] /\ seen'[t] = seen[t]
      /\ pc'[s] \in {"panicked", "write"} /\ seen'[s] = i
  BY Zenon DEF Kinds, Types
<1>4. Types'
  <2>1. taken' \in [Senders -> Nat]
    <3>1. CASE UNCHANGED taken
      BY <3>1, Zenon DEF Types
    <3>2. CASE Take(s)
      BY <3>2, SMTT(30) DEF Types, Take
    <3>3. QED
      BY <3>1, <3>2, Zenon
  <2>2. seen' \in [Threads -> Nat]
    BY <1>2, SMTT(30) DEF Types
  <2>3. QED
    BY <2>1, <2>2, Zenon DEF Types
<1>5. InOrder'
  <2>1. \A t \in Threads : seen[t] \in 1..Len(mo) /\ token[t] <= Len(mo) /\ token[t] \in Nat
    BY Zenon DEF Types, InOrder
  <2>2. \A t \in Threads : seen'[t] \in 1..Len(mo') /\ token'[t] <= Len(mo')
    BY <1>2, <1>3, <2>1
  <2>3. QED
    BY <1>2, <2>2, Zenon DEF InOrder
<1>6. OneSender'
  <2>1. pc'[s] = "panicked" \/ \A u \in Senders : ~Past(u)
    BY Zenon DEF Kinds
  <2>2. QED
    BY <1>3, <2>1, Zenon DEF OneSender, Past
<1>7. Publication(k)' /\ Content' /\ Ordered(k)'
  <2>1. \A u \in Senders : Sent(u)' = Sent(u) /\ (pc'[u] = "store" <=> pc[u] = "store")
    BY <1>3 DEF Sent
  <2>2. QED
    BY <1>2, <2>1, Zenon DEF Publication, Content, Ordered
<1>8. Readers(k)' /\ Joined' /\ Claims(k)'
  BY <1>2, <1>3, SMTT(30) DEF Kinds, Readers, Joined, Claims, Ended, Finished
<1>9. Owners(k)'
  <2>1. \A u \in Senders : taken'[u] = IF u = s /\ pc'[s] = "panicked" THEN 1 ELSE taken[u]
    BY DEF Kinds, Types, Owners, Take
  <2>2. QED
    BY <1>2, <1>3, <2>1, SMTT(30) DEF Owners, Sent, Finished
<1>10. \E u \in Senders : Past(u)'
  <2>1. CASE pc'[s] = "write"
    BY <2>1, Zenon DEF Past
  <2>2. CASE pc'[s] = "panicked"
    <3>1. PICK u \in Senders : Past(u)
      BY <2>2, Zenon DEF Kinds
    <3>2. u # s
      BY <3>1, Zenon DEF Past
    <3>3. QED
      BY <1>3, <3>1, <3>2, Zenon DEF Past
  <2>3. QED
    BY <1>3, <2>1, <2>2, Zenon
<1>11. QED
  BY <1>1, <1>4, <1>5, <1>6, <1>7, <1>8, <1>9, <1>10, Zenon

\* The Release store of send().
LEMMA PublishStep ==
  ASSUME NEW k \in Nat, SharedInv(k), NEW s \in Senders, pc[s] = "store",
         UNCHANGED <<message, hb, taken, token>>,
         Len(mo) = k, Len(mo') = k + 1, seen' = [seen EXCEPT ![s] = Len(mo')],
         view' = hb[s], pc' = [pc EXCEPT ![s] = "unpark"]
  PROVE  SharedInv(k)' /\ \E u \in Senders : Past(u)'
<1> USE DEF SharedInv
<1>1. /\ \A u \in Senders : ~Sent(u) /\ (Past(u) => u = s)
      /\ hb[s] = Threads
      /\ \A t \in Threads : pc[t] # "read"
  BY DEF OneSender, Past, Sent, Publication, Ordered, Readers
<1>2. Kinds'
  BY Zenon DEF Kinds, Labels
<1>3. /\ \A t \in Threads \ {s} : pc'[t] = pc[t] /\ seen'[t] = seen[t]
      /\ pc'[s] = "unpark" /\ seen'[s] = k + 1 /\ view' = Threads
  BY <1>1, Zenon DEF Kinds, Types
<1>4. Types' /\ InOrder'
  <2>1. seen' \in [Threads -> Nat]
    BY DEF Types
  <2>2. Types'
    BY <1>3, <2>1, Zenon DEF Types
  <2>3. \A t \in Threads : seen[t] \in 1..Len(mo) /\ token[t] <= Len(mo) /\ token[t] \in Nat
    BY Zenon DEF Types, InOrder
  <2>4. \A t \in Threads : seen'[t] \in 1..k + 1 /\ token'[t] <= k + 1
    BY <1>3, <2>3
  <2>5. InOrder'
    BY <2>4 DEF InOrder
  <2>6. QED
    BY <2>2, <2>5, Zenon
<1>5. OneSender' /\ Publication(k)'
  BY <1>1, <1>3 DEF OneSender, Publication, Past, Sent
<1>6. Content' /\ Ordered(k)'
  BY <1>1, <1>3, Zenon DEF Content, Ordered, Past, Sent
<1>7. Readers(k)' /\ Joined' /\ Claims(k)'
  <2>1. /\ \A t \in Eager \cup {Main} : pc'[t] = pc[t] /\ seen'[t] = seen[t]
        /\ \A t \in Threads : pc'[t] # "read" /\ Len(mo') # k + 2
    BY <1>1, <1>3, SMTT(30) DEF Kinds
  <2>2. Readers(k)'
    BY <2>1, Zenon DEF Readers
  <2>3. Claims(k)'
    BY <2>1, Zenon DEF Claims
  <2>4. ~Finished'
    BY <2>1, Zenon DEF Joined, Ended, Finished
  <2>5. QED
    BY <2>2, <2>3, <2>4, Zenon DEF Joined
<1>8. Owners(k)'
  <2>1. ~Finished'
    BY <1>3, Zenon DEF Kinds, Joined, Ended, Finished
  <2>2. \A u \in Senders \ {s} : pc'[u] = pc[u] /\ ~Sent(u)'
    BY <1>1, <1>3, Zenon DEF Sent
  <2>3. taken[s] = 0
    BY Zenon DEF Owners
  <2>4. QED
    BY <1>3, <2>1, <2>2, <2>3, SMTT(30) DEF Owners, Sent
<1>9. Past(s)'
  BY <1>3, Zenon DEF Past
<1>10. QED
  BY <1>2, <1>4, <1>5, <1>6, <1>7, <1>8, <1>9, Zenon

\* receive() finds the message: it is the first to do so, and learns of the write.
LEMMA ClaimStep ==
  ASSUME NEW k \in Nat, SharedInv(k), NEW t \in Threads, pc[t] = "receive",
         UNCHANGED <<message, view, taken, token>>,
         Len(mo) = k + 1, Len(mo') = k + 2, seen' = [seen EXCEPT ![t] = Len(mo')],
         hb' = [hb EXCEPT ![t] = @ \cup view], pc' = [pc EXCEPT ![t] = "read"]
  PROVE  SharedInv(k)' /\ \A u \in Senders : Past(u)' = Past(u)
<1> USE DEF SharedInv
<1>1. Kinds'
  BY Zenon DEF Kinds, Labels
<1>2. /\ \A u \in Threads \ {t} : pc'[u] = pc[u] /\ hb'[u] = hb[u] /\ seen'[u] = seen[u]
      /\ pc'[t] = "read" /\ hb'[t] = Threads /\ seen'[t] = k + 2
      /\ t \notin Senders /\ ~Finished
  BY Zenon DEF Kinds, Types, Ordered, Joined, Ended, Finished
<1>3. /\ \A u \in Threads : pc[u] # "read" /\ (pc'[u] = "read" <=> u = t)
      /\ ~Finished'
  BY <1>2 DEF Readers, Finished
<1>4. Types' /\ InOrder'
  <2>1. seen' \in [Threads -> Nat] /\ hb' \in [Threads -> SUBSET Threads]
    BY DEF Types
  <2>2. Types'
    BY <2>1, Zenon DEF Types
  <2>3. \A u \in Threads : seen[u] \in 1..Len(mo) /\ token[u] <= Len(mo) /\ token[u] \in Nat
    BY Zenon DEF Types, InOrder
  <2>4. \A u \in Threads : seen'[u] \in 1..k + 2 /\ token'[u] <= k + 2
    BY <1>2, <2>3
  <2>5. InOrder'
    BY <2>4 DEF InOrder
  <2>6. QED
    BY <2>2, <2>5, Zenon
<1>5. OneSender' /\ Publication(k)' /\ Content' /\ Ordered(k)'
  BY <1>2 DEF OneSender, Publication, Content, Ordered, Past, Sent
<1>6. Readers(k)' /\ Joined'
  BY <1>2, <1>3, Zenon DEF Readers, Joined
<1>7. Claims(k)'
  <2>1. t \in Eager \/ t = Main
    BY <1>2, Zenon
  <2>2. QED
    BY <1>2, <2>1, Zenon DEF Claims
<1>8. Owners(k)'
  BY <1>2, <1>3, Zenon DEF Owners, Sent
<1>9. \A u \in Senders : Past(u)' = Past(u)
  BY <1>2, Zenon DEF Past
<1>10. QED
  BY <1>1, <1>4, <1>5, <1>6, <1>7, <1>8, <1>9, Zenon

\* receive() panics, having acquired something or not.
LEMMA RefuseStep ==
  ASSUME NEW k \in Nat, SharedInv(k), NEW t \in Threads, pc[t] = "receive",
         UNCHANGED <<message, mo, view, taken, token>>,
         NEW i \in 1..Len(mo), seen' = [seen EXCEPT ![t] = i],
         NEW learnt \in SUBSET Threads, hb' = [hb EXCEPT ![t] = @ \cup learnt],
         pc' = [pc EXCEPT ![t] = After(t, "panicked")]
  PROVE  SharedInv(k)' /\ \A u \in Senders : Past(u)' = Past(u)
<1> USE DEF SharedInv
<1>1. Kinds'
  BY Zenon DEF Kinds, Labels, After
<1>2. /\ \A u \in Threads \ {t} : pc'[u] = pc[u] /\ seen'[u] = seen[u]
      /\ pc'[t] = After(t, "panicked") /\ seen'[t] = i
      /\ \A u \in Threads : hb[u] = Threads => hb'[u] = Threads
      /\ t \notin Senders /\ ~Finished
  BY Zenon DEF Kinds, Types, Joined, Ended, Finished
<1>3. Types' /\ InOrder'
  BY DEF Types, InOrder
<1>4. OneSender' /\ Publication(k)' /\ Content'
  BY <1>2, Zenon DEF OneSender, Publication, Content, Past, Sent
<1>5. Ordered(k)'
  BY <1>2, Zenon DEF Ordered, Sent
<1>6. \A u \in Threads : (pc'[u] = "read") <=> (pc[u] = "read" /\ u # t)
  BY <1>2 DEF After
<1>7. Readers(k)'
  BY <1>2, <1>6, Zenon DEF Readers
<1>8. Joined' /\ Claims(k)'
  BY <1>2, Zenon DEF Joined, Claims, Finished, Kinds, After
<1>9. Owners(k)'
  <2>1. (\E u \in Threads : pc'[u] = "read") <=> (\E u \in Threads : pc[u] = "read")
    BY <1>6, Zenon
  <2>2. Finished' = Finished
    BY <1>2 DEF Finished, After
  <2>3. QED
    BY <1>2, <2>1, <2>2 DEF Owners, Sent
<1>10. \A u \in Senders : Past(u)' = Past(u)
  BY <1>2, Zenon DEF Past
<1>11. QED
  BY <1>1, <1>3, <1>4, <1>5, <1>7, <1>8, <1>9, <1>10, Zenon

\* All the steps that the channels share; none writes the atomic.
LEMMA SharedPreserves ==
  ASSUME NEW k \in Nat, NEW v, SharedInv(k),
         \A i \in 1..Len(mo) : mo[i] = v => i > k,
         Current = v <=> Len(mo) = k + 1,
         (\E t \in Threads : SharedStep(t, v)) \/ SpuriousPark
  PROVE  SharedInv(k)' /\ mo' = mo /\ \A s \in Senders : Past(s)' = Past(s)
<1>1. SharedInv(k)'
  BY WriteStep, WaitStep, ReadStep, DropStep, Zenon DEF SharedStep
<1>2. mo' = mo
  BY Zenon
     DEF SharedStep, Write, UnparkMain, IsReady, Park, ParkReturns, JoinAndDrop, Read,
         SpuriousPark, SpuriousReturn
<1>3. ASSUME NEW s \in Senders
      PROVE  Past(s)' = Past(s)
  <2>1. CASE pc'[s] = pc[s]
    BY <2>1, Zenon DEF Past
  <2>2. CASE \E u \in Senders : Write(u) \/ UnparkMain(u)
    BY <2>2 DEF Past, Write, UnparkMain, SharedInv, Kinds
  <2>3. CASE IsReady(v) \/ Park \/ JoinAndDrop(v) \/ SpuriousPark \/ \E t \in Threads : Read(t)
    <3>1. pc'[s] = pc[s]
      BY <2>3, Zenon
         DEF IsReady, Park, ParkReturns, JoinAndDrop, SpuriousPark, SpuriousReturn,
         Read,
                  SharedInv, Kinds
    <3>2. QED
      BY <2>1, <3>1, Zenon
  <2>4. QED
    BY <2>2, <2>3, Zenon DEF SharedStep
<1>4. QED
  BY <1>1, <1>2, <1>3, Zenon

-----------------------------------------------------------------------------
(* CheckedChannel. *)

\* The state after Channel::new(), before any thread runs.
LEMMA SharedStart ==
  ASSUME NEW k \in Nat, k > 0, NEW first, SharedInit(first)
  PROVE  SharedInv(k) /\ mo = <<first>> /\ \A s \in Senders : ~Past(s)
<1> USE DEF SharedInit, CellInit
<1>1. Len(mo) = 1
  BY Zenon
<1>2. Kinds /\ Types /\ InOrder
  BY <1>1 DEF Kinds, Labels, Types, InOrder
<1>3. /\ \A s \in Senders : pc[s] = "send" /\ ~Past(s) /\ ~Sent(s) /\ taken[s] = 0
      /\ \A t \in Threads : pc[t] # "read"
      /\ pc[Main] = "is_ready"
  BY Zenon DEF Past, Sent
<1>4. OneSender /\ Publication(k) /\ Content /\ Readers(k) /\ Owners(k) /\ Joined /\ Claims(k)
  BY <1>1, <1>3
     DEF OneSender, Publication, Content, Readers, Owners, Joined, Claims, Finished
<1>5. Ordered(k)
  BY <1>1, <1>3, Zenon DEF Ordered
<1>6. QED
  BY <1>2, <1>3, <1>4, <1>5, Zenon DEF SharedInv

\* Where nobody else calls receive(), main() calls it with the message there.
LEMMA MainFindsMessage ==
  ASSUME NEW k \in Nat, SharedInv(k), Len(mo) \in 1..k + 2, OnlyMainReceives, pc[Main] = "receive"
  PROVE  Len(mo) = k + 1 /\ seen[Main] = k + 1
<1>1. Len(mo) # k + 2
  BY Zenon DEF SharedInv, Claims, OnlyMainReceives
<1>2. seen[Main] > k /\ seen[Main] \in 1..Len(mo)
  BY Zenon DEF SharedInv, Claims, InOrder
<1>3. QED
  BY <1>1, <1>2

\* Only the check of receive() takes main() out of "receive".
LEMMA SharedKeepsMain ==
  ASSUME Kinds, NEW v, (\E t \in Threads : SharedStep(t, v)) \/ SpuriousPark, pc[Main] = "receive"
  PROVE  pc'[Main] = "receive"
<1>1. CASE SpuriousPark
  BY <1>1, Zenon DEF SpuriousPark
<1>2. CASE \E t \in Threads : SharedStep(t, v)
  <2>1. PICK t \in Threads : SharedStep(t, v)
    BY <1>2, Zenon
  <2>2. CASE t \in Senders /\ (Write(t) \/ UnparkMain(t))
    BY <2>2, Zenon DEF Write, UnparkMain, Kinds
  <2>3. CASE Read(t)
    BY <2>3, Zenon DEF Read, Kinds
  <2>4. QED
    BY <2>1, <2>2, <2>3, Zenon DEF SharedStep, IsReady, Park, JoinAndDrop
<1>3. QED
  BY <1>1, <1>2, Zenon

\* The invariant gives the three properties of the cell.
LEMMA SharedSafe ==
  ASSUME NEW k \in Nat, SharedInv(k), Len(mo) \in 1..k + 2
  PROVE  NoDataRace /\ ReceivesMessage /\ TakenOnce
<1> USE DEF SharedInv
<1>1. NoDataRace
  <2>1. SUFFICES ASSUME NEW t \in Threads, pc[t] \in {"write", "read"}
                 PROVE  hb[t] = Threads
    BY Zenon DEF NoDataRace, OrderedAfterOthers, Types
  <2>2. CASE pc[t] = "read"
    BY <2>2, Zenon DEF Readers
  <2>3. CASE pc[t] = "write"
    <3>1. t \in Senders /\ Past(t)
      BY <2>3, Zenon DEF Kinds, Past
    <3>2. \A s \in Senders : pc[s] # "store" /\ ~Sent(s)
      BY <2>3, <3>1, Zenon DEF OneSender, Past, Sent
    <3>3. QED
      BY <3>2, Zenon DEF Ordered
  <2>4. QED
    BY <2>1, <2>2, <2>3, Zenon
<1>2. ReceivesMessage
  <2>1. SUFFICES ASSUME NEW t \in Threads, pc[t] = "read"
                 PROVE  message \in Senders /\ taken[message] = 0
    BY Zenon DEF ReceivesMessage
  <2>2. Len(mo) = k + 2
    BY <2>1, Zenon DEF Readers
  <2>3. PICK s \in Senders : Sent(s)
    BY <2>2 DEF Publication
  <2>4. QED
    BY <2>1, <2>2, <2>3, Zenon DEF Content, Owners
<1>3. TakenOnce
  <2>1. ASSUME NEW s \in Senders
        PROVE  /\ taken[s] <= 1
               /\ Finished => taken[s] = 1
    <3>1. pc[s] \in {"send", "write", "store"} \/ pc[s] = "panicked" \/ Sent(s)
      BY Zenon DEF Kinds, Sent
    <3>2. Sent(s) => Len(mo) = k + 1 \/ Len(mo) = k + 2
      BY DEF Publication
    <3>3. Finished => (pc[s] = "panicked" \/ Sent(s)) /\ \A t \in Threads : pc[t] # "read"
      BY Zenon DEF Joined, Ended, Finished, Kinds, Sent
    <3>4. QED
      BY <3>1, <3>2, <3>3 DEF Owners
  <2>2. QED
    BY <2>1, Zenon DEF TakenOnce
<1>4. QED
  BY <1>1, <1>2, <1>3, Zenon

-----------------------------------------------------------------------------
(***************************************************************************)
(* The channel with in_use and ready.                                      *)
(***************************************************************************)

C == INSTANCE CheckedChannel

\* What ready is, and what a write to it does.
LEMMA ReadyValues ==
  ASSUME Follows(mo, BOOLEAN, Turns, 3)
  PROVE  /\ Len(mo) \in 1..3
         /\ mo[Len(mo)] = IF Len(mo) = 2 THEN TRUE ELSE FALSE
         /\ \A i \in 1..Len(mo) : mo[i] = TRUE => i = 2
         /\ Len(mo) = 1 => /\ mo[Len(mo)] # TRUE
                           /\ Follows(Append(mo, TRUE), BOOLEAN, Turns, 3)
                           /\ Len(Append(mo, TRUE)) = 2
         /\ Len(mo) = 2 => /\ mo[Len(mo)] # FALSE
                           /\ Follows(Append(mo, FALSE), BOOLEAN, Turns, 3)
                           /\ Len(Append(mo, FALSE)) = 3
<1>1. Turns[1] = FALSE /\ Turns[2] = TRUE /\ Turns[3] = FALSE
  BY Zenon DEF Turns
<1>2. Len(mo) \in 1..3 /\ mo[Len(mo)] = Turns[Len(mo)]
  BY LastValue, Zenon
<1>3. mo[Len(mo)] = IF Len(mo) = 2 THEN TRUE ELSE FALSE
  <2>1. Len(mo) = 1 \/ Len(mo) = 2 \/ Len(mo) = 3
    BY <1>2
  <2>2. (1 = 2) = FALSE /\ (3 = 2) = FALSE
    OBVIOUS
  <2>3. QED
    BY <1>1, <1>2, <2>1, <2>2, Zenon
<1>4. ASSUME NEW i \in 1..Len(mo), mo[i] = TRUE
      PROVE  i = 2
  <2>1. mo[i] = Turns[i] /\ (i = 1 \/ i = 2 \/ i = 3)
    BY <1>2 DEF Follows
  <2>2. QED
    BY <1>1, <1>4, <2>1, Zenon
<1>5. ASSUME Len(mo) = 1
      PROVE  /\ mo[Len(mo)] # TRUE
             /\ Follows(Append(mo, TRUE), BOOLEAN, Turns, 3)
             /\ Len(Append(mo, TRUE)) = 2
  <2>1. Turns[Len(mo)] # TRUE /\ Turns[Len(mo) + 1] = TRUE
    <3>1. Len(mo) + 1 = 2
      BY <1>5
    <3>2. QED
      BY <1>1, <1>5, <3>1, Zenon
  <2>2. TRUE \in BOOLEAN /\ Len(mo) < 3 /\ 3 \in Nat /\ Len(mo) + 1 = 2
    BY <1>5
  <2>3. QED
    BY <2>1, <2>2, NextValue, Zenon
<1>6. ASSUME Len(mo) = 2
      PROVE  /\ mo[Len(mo)] # FALSE
             /\ Follows(Append(mo, FALSE), BOOLEAN, Turns, 3)
             /\ Len(Append(mo, FALSE)) = 3
  <2>1. Turns[Len(mo)] # FALSE /\ Turns[Len(mo) + 1] = FALSE
    <3>1. Len(mo) + 1 = 3
      BY <1>6
    <3>2. QED
      BY <1>1, <1>6, <3>1, Zenon
  <2>2. FALSE \in BOOLEAN /\ Len(mo) < 3 /\ 3 \in Nat /\ Len(mo) + 1 = 3
    BY <1>6
  <2>3. QED
    BY <2>1, <2>2, NextValue, Zenon
<1>7. QED
  BY <1>2, <1>3, <1>4, <1>5, <1>6, Zenon

\* in_use and ready are false in a new channel.
LEMMA CheckedInit == C!Init => CheckedInv
<1> SUFFICES ASSUME C!Init
             PROVE  CheckedInv
  BY Zenon
<1>1. SharedInit(FALSE) /\ in_use = FALSE
  BY Zenon DEF C!Init, C!SharedInit, C!CellInit, C!Threads, SharedInit, CellInit
<1>2. 1 \in Nat /\ 1 > 0
  OBVIOUS
<1>3. SharedInv(1) /\ mo = <<FALSE>> /\ \A s \in Senders : ~Past(s)
  BY <1>1, <1>2, SharedStart, Zenon
<1>4. Follows(mo, BOOLEAN, Turns, 3)
  <2>1. mo \in Seq(BOOLEAN) /\ Len(mo) = 1 /\ mo[1] = FALSE
    BY <1>3
  <2>2. Turns[1] = FALSE
    BY Zenon DEF Turns
  <2>3. Len(mo) \in 1..3 /\ \A i \in 1..Len(mo) : i = 1
    BY <2>1
  <2>4. QED
    BY <2>1, <2>2, <2>3, Zenon DEF Follows
<1>5. QED
  BY <1>1, <1>3, <1>4, Zenon DEF CheckedInv

\* The steps of the instance are those of SharedChannel.
LEMMA CheckedBridge ==
  ASSUME (\E t \in Threads : C!SharedStep(t, TRUE)) \/ C!SpuriousPark
  PROVE  (\E t \in Threads : SharedStep(t, TRUE)) \/ SpuriousPark
<1>1. CASE \E t \in Threads : C!SharedStep(t, TRUE)
  <2>1. PICK t \in Threads : C!SharedStep(t, TRUE)
    BY <1>1, Zenon
  <2>2. SharedStep(t, TRUE)
    BY <2>1, Zenon
       DEF SharedStep, C!SharedStep, Write, C!Write, UnparkMain, C!UnparkMain,
         IsReady, C!IsReady, Park, C!Park, JoinAndDrop, C!JoinAndDrop, Read, C!Read,
         C!Goto, C!Threads, WriteMessage, C!WriteMessage, Access, C!Access, Unpark,
       C!Unpark,
         Loadable, C!Loadable, LoadAt, C!LoadAt, ParkReturns, C!ParkReturns, Current,
       C!Current,
         TakeMessage, C!TakeMessage, Take, C!Take, After, C!After, Ended, C!Ended,
         AfterAccess, C!AfterAccess, ViewAfterAccess, C!ViewAfterAccess, AfterJoin,
       C!AfterJoin,
         Max, C!Max
  <2>3. QED
    BY <2>2, Zenon
<1>2. CASE C!SpuriousPark
  BY <1>2, Zenon
     DEF SpuriousPark, C!SpuriousPark, SpuriousReturn, C!SpuriousReturn, C!Goto
<1>3. QED
  BY <1>1, <1>2, Zenon

\* The steps that do not touch in_use and ready.
LEMMA CheckedShared ==
  ASSUME CheckedInv,
         (\E t \in Threads : C!SharedStep(t, TRUE)) \/ C!SpuriousPark,
         UNCHANGED in_use
  PROVE  CheckedInv'
<1>1. (\E t \in Threads : SharedStep(t, TRUE)) \/ SpuriousPark
  BY CheckedBridge, Zenon
<1>2. \A i \in 1..Len(mo) : mo[i] = TRUE => i > 1
  <2>1. \A i \in 1..Len(mo) : mo[i] = TRUE => i = 2
    BY ReadyValues, Zenon DEF CheckedInv
  <2>2. 2 > 1
    OBVIOUS
  <2>3. QED
    BY <2>1, <2>2, Zenon
<1>3. Current = TRUE <=> Len(mo) = 1 + 1
  <2>1. Current = IF Len(mo) = 2 THEN TRUE ELSE FALSE
    BY ReadyValues, Zenon DEF CheckedInv, Current
  <2>2. 1 + 1 = 2
    OBVIOUS
  <2>3. QED
    BY <2>1, <2>2, Zenon
<1>4. SharedInv(1) /\ 1 \in Nat
  BY Zenon DEF CheckedInv
<1>5. SharedInv(1)' /\ mo' = mo /\ \A s \in Senders : Past(s)' = Past(s)
  BY <1>1, <1>2, <1>3, <1>4, SharedPreserves, Zenon
<1>6. QED
  BY <1>5, Zenon DEF CheckedInv

\* in_use.swap(true) lets the first sender through.
LEMMA CheckedSend ==
  ASSUME CheckedInv, NEW s \in Senders, C!Send(s)
  PROVE  CheckedInv'
<1>1. /\ UNCHANGED <<message, mo, seen, view, hb, token>>
      /\ pc[s] = "send"
      /\ in_use' = TRUE
      /\ \/ pc' = [pc EXCEPT ![s] = "panicked"] /\ Take(s) /\ \E u \in Senders : Past(u)
         \/ pc' = [pc EXCEPT ![s] = "write"] /\ UNCHANGED taken /\ \A u \in Senders : ~Past(u)
  BY Zenon DEF C!Send, C!SendPanics, C!Goto, C!Take, Take, CheckedInv
<1>2. SharedInv(1)
  BY Zenon DEF CheckedInv
<1>3. seen[s] \in 1..Len(mo') /\ seen' = [seen EXCEPT ![s] = seen[s]]
  BY <1>1, <1>2, Zenon DEF SharedInv, InOrder, Types
<1>4. SharedInv(1)' /\ \E u \in Senders : Past(u)'
  BY <1>1, <1>2, <1>3, SendStep, Zenon
<1>5. QED
  BY <1>1, <1>4, Zenon DEF CheckedInv

\* ready.store(true, Release)
LEMMA CheckedPublish ==
  ASSUME CheckedInv, NEW s \in Senders, C!Publish(s)
  PROVE  CheckedInv'
<1>1. /\ UNCHANGED <<message, hb, taken, token, in_use>>
      /\ pc[s] = "store" /\ pc' = [pc EXCEPT ![s] = "unpark"]
      /\ view' = hb[s]
      /\ seen' = [seen EXCEPT ![s] = Len(mo')]
      /\ mo' = IF mo[Len(mo)] = TRUE THEN mo ELSE Append(mo, TRUE)
  BY Zenon DEF C!Publish, C!Goto, C!Store, C!Current, C!ReleaseStoreView
<1>2. SharedInv(1) /\ Len(mo) \in 1..3
  BY ReadyValues, Zenon DEF CheckedInv
<1>3. Len(mo) = 1 /\ Past(s)
  BY <1>1, <1>2 DEF SharedInv, OneSender, Publication, Past, Sent
<1>4. Follows(mo, BOOLEAN, Turns, 3)' /\ Len(mo') = 2
  BY <1>1, <1>3, ReadyValues, Zenon DEF CheckedInv
<1>5. SharedInv(1)' /\ \E u \in Senders : Past(u)'
  <2>1. 1 \in Nat /\ Len(mo') = 1 + 1
    BY <1>4
  <2>2. QED
    BY <1>1, <1>2, <1>3, <2>1, PublishStep, Zenon
<1>6. QED
  BY <1>1, <1>3, <1>4, <1>5, Zenon DEF CheckedInv

\* ready.swap(false, Acquire): one call finds true.
LEMMA CheckedReceive ==
  ASSUME CheckedInv, NEW t \in Threads, C!Receive(t)
  PROVE  CheckedInv' /\ pc' = [pc EXCEPT ![t] = IF Len(mo) = 2 THEN "read" ELSE After(t, "panicked")]
<1>1. /\ UNCHANGED <<message, view, taken, token, in_use>>
      /\ pc[t] = "receive"
      /\ pc' = [pc EXCEPT ![t] = IF mo[Len(mo)] THEN "read" ELSE After(t, "panicked")]
      /\ hb' = [hb EXCEPT ![t] = hb[t] \cup view]
      /\ seen' = [seen EXCEPT ![t] = Len(mo')]
      /\ mo' = IF mo[Len(mo)] = FALSE THEN mo ELSE Append(mo, FALSE)
  BY Zenon DEF C!Receive, C!Goto, C!Store, C!Current, C!After, After, C!AfterAcquire
<1>2. SharedInv(1) /\ Len(mo) \in 1..3
  BY ReadyValues, Zenon DEF CheckedInv
<1>3. mo[Len(mo)] = IF Len(mo) = 2 THEN TRUE ELSE FALSE
  BY ReadyValues, Zenon DEF CheckedInv
<1>4. pc' = [pc EXCEPT ![t] = IF Len(mo) = 2 THEN "read" ELSE After(t, "panicked")]
  BY <1>1, <1>3, Zenon
<1>5. IF Len(mo) = 2 THEN Follows(mo, BOOLEAN, Turns, 3)' /\ Len(mo') = 3 ELSE mo' = mo
  BY <1>1, <1>3, ReadyValues, Zenon DEF CheckedInv
<1>6. Follows(mo, BOOLEAN, Turns, 3)'
  BY <1>5, Zenon DEF CheckedInv
<1>7. SharedInv(1)' /\ \A u \in Senders : Past(u)' = Past(u)
  <2>1. CASE Len(mo) = 2
    <3>1. 1 \in Nat /\ Len(mo) = 1 + 1 /\ Len(mo') = 1 + 2
      BY <1>5, <2>1
    <3>2. pc' = [pc EXCEPT ![t] = "read"]
      BY <1>4, <2>1, Zenon
    <3>3. QED
      BY <1>1, <1>2, <3>1, <3>2, ClaimStep, Zenon
  <2>2. CASE Len(mo) # 2
    <3>1. mo' = mo
      BY <1>5, <2>2, Zenon
    <3>2. 1 \in Nat /\ Len(mo) \in 1..Len(mo)
      BY <1>2
    <3>3. view \in SUBSET Threads
      BY <1>2, Zenon DEF SharedInv, Types
    <3>4. pc' = [pc EXCEPT ![t] = After(t, "panicked")]
      BY <1>4, <2>2, Zenon
    <3>5. QED
      BY <1>1, <1>2, <3>1, <3>2, <3>3, <3>4, RefuseStep, Zenon
  <2>3. QED
    BY <2>1, <2>2, Zenon
<1>8. QED
  BY <1>1, <1>4, <1>6, <1>7, Zenon DEF CheckedInv

\* Every step of the channel keeps the invariant.
LEMMA CheckedPreserves == CheckedInv /\ [C!Next]_(C!vars) => CheckedInv'
<1> SUFFICES ASSUME CheckedInv, [C!Next]_(C!vars)
             PROVE  CheckedInv'
  BY Zenon
<1>1. CASE UNCHANGED C!vars
  <2>1. UNCHANGED <<message, mo, seen, view, hb, taken, pc, token, in_use>>
    BY <1>1, Zenon DEF C!vars, C!cellVars
  <2>2. QED
    BY <2>1, SharedUnchanged, Zenon DEF CheckedInv, Follows
<1>2. CASE \E t \in Threads : C!Step(t)
  BY <1>2, CheckedSend, CheckedPublish, CheckedReceive, CheckedShared, Zenon DEF C!Step
<1>3. CASE C!SpuriousPark /\ UNCHANGED in_use
  BY <1>3, CheckedShared, Zenon
<1>4. QED
  BY <1>1, <1>2, <1>3, Zenon DEF C!Next, C!Threads, C!Terminated

\* The channel with two flags keeps the invariant whatever the threads do.
THEOREM CheckedInvariance == C!Spec => []CheckedInv
BY CheckedInit, CheckedPreserves, PTL DEF C!Spec

\* The invariant gives the three properties.
LEMMA CheckedSafe == CheckedInv => NoDataRace /\ ReceivesMessage /\ TakenOnce
<1> SUFFICES ASSUME CheckedInv
             PROVE  NoDataRace /\ ReceivesMessage /\ TakenOnce
  BY Zenon
<1>1. SharedInv(1) /\ Len(mo) \in 1..3
  BY ReadyValues, Zenon DEF CheckedInv
<1>2. 1 \in Nat /\ 1 + 2 = 3
  OBVIOUS
<1>3. QED
  BY <1>1, <1>2, SharedSafe, Zenon

\* However many threads call send() and receive() of the channel with two flags
\* (05-03_safety-through-runtime-checks.rs), its
\* accesses to the cell never race.
THEOREM CheckedRaceFree == C!Spec => []NoDataRace
BY CheckedInvariance, CheckedSafe, PTL

\* Its receive() returns a message that is there and that no other call has
\* returned.
THEOREM CheckedReceives == C!Spec => []ReceivesMessage
BY CheckedInvariance, CheckedSafe, PTL

\* Every message given to its send() has exactly one owner in the end, the calls
\* that panic and the drop of the channel included.
THEOREM CheckedTakenOnce == C!Spec => []TakenOnce
BY CheckedInvariance, CheckedSafe, PTL

\* Unless somebody else calls receive(), that of main() after a true is_ready()
\* finds the message and does not panic.
THEOREM CheckedMainNeverPanics == C!Spec => MainNeverPanics
<1>1. CheckedInv /\ [C!Next]_(C!vars)
        => [OnlyMainReceives /\ pc[Main] = "receive" => pc'[Main] # "join"]_cellVars
  <2> SUFFICES ASSUME CheckedInv, [C!Next]_(C!vars), OnlyMainReceives, pc[Main] = "receive"
               PROVE  pc'[Main] # "join"
    BY Zenon
  <2>1. SharedInv(1) /\ Len(mo) \in 1..3 /\ Kinds
    BY ReadyValues, Zenon DEF CheckedInv, SharedInv
  <2>2. CASE UNCHANGED C!vars
    BY <2>2, Zenon DEF C!vars, C!cellVars
  <2>3. CASE (\E t \in Threads : C!SharedStep(t, TRUE)) \/ C!SpuriousPark
    BY <2>1, <2>3, CheckedBridge, SharedKeepsMain, Zenon
  <2>4. ASSUME NEW s \in Senders, C!Send(s) \/ C!Publish(s)
        PROVE  pc'[Main] = "receive"
    BY <2>1, <2>4, Zenon DEF C!Send, C!SendPanics, C!Publish, C!Goto, Kinds
  <2>5. ASSUME NEW t \in Threads, C!Receive(t)
        PROVE  pc'[Main] # "join"
    <3>1. pc' = [pc EXCEPT ![t] = IF Len(mo) = 2 THEN "read" ELSE After(t, "panicked")]
      BY <2>5, CheckedReceive, Zenon
    <3>2. Len(mo) = 2
      <4>1. 1 \in Nat /\ 1 + 2 = 3 /\ 1 + 1 = 2
        OBVIOUS
      <4>2. QED
        BY <2>1, <4>1, MainFindsMessage, Zenon
    <3>3. QED
      BY <2>1, <3>1, <3>2, Zenon DEF Kinds
  <2>6. QED
    BY <2>2, <2>3, <2>4, <2>5, Zenon DEF C!Next, C!Step, C!Threads, C!Terminated
<1>2. QED
  BY <1>1, CheckedInvariance, PTL DEF C!Spec, MainNeverPanics

-----------------------------------------------------------------------------
(***************************************************************************)
(* The channel with the single atomic, state.                              *)
(***************************************************************************)

A == INSTANCE StateChannel

\* Which of its values state has, and the writes of the next ones.
LEMMA StateValues ==
  ASSUME NEW m, Follows(m, {"EMPTY", "WRITING", "READY", "READING"}, States, 4)
  PROVE  /\ Len(m) \in 1..4
         /\ m[Len(m)] = States[Len(m)]
         /\ \A i \in 1..Len(m) : (m[i] = "EMPTY" <=> i = 1) /\ (m[i] = "READY" <=> i = 3)
         /\ \A v \in {"EMPTY", "WRITING", "READY", "READING"} :
              Len(m) < 4 /\ States[Len(m) + 1] = v =>
                /\ m[Len(m)] # v
                /\ Follows(Append(m, v), {"EMPTY", "WRITING", "READY", "READING"}, States, 4)
                /\ Len(Append(m, v)) = Len(m) + 1
<1>1. /\ States[1] = "EMPTY" /\ States[2] = "WRITING"
      /\ States[3] = "READY" /\ States[4] = "READING"
  BY Zenon DEF States
<1>2. Len(m) \in 1..4 /\ m[Len(m)] = States[Len(m)]
  <2>1. 4 \in Nat
    BY Zenon
  <2>2. QED
    BY <2>1, LastValue, Zenon
<1>3. \A i \in 1..Len(m) : (m[i] = "EMPTY" <=> i = 1) /\ (m[i] = "READY" <=> i = 3)
  <2>1. TAKE i \in 1..Len(m)
  <2>2. m[i] = States[i] /\ (i = 1 \/ i = 2 \/ i = 3 \/ i = 4)
    BY <1>2 DEF Follows
  <2>3. QED
    BY <1>1, <2>2, Zenon
<1>4. ASSUME NEW v \in {"EMPTY", "WRITING", "READY", "READING"},
             Len(m) < 4, States[Len(m) + 1] = v
      PROVE  /\ m[Len(m)] # v
             /\ Follows(Append(m, v), {"EMPTY", "WRITING", "READY", "READING"}, States, 4)
             /\ Len(Append(m, v)) = Len(m) + 1
  <2>1. States[Len(m)] # v
    <3>1. \/ Len(m) = 1 /\ Len(m) + 1 = 2
          \/ Len(m) = 2 /\ Len(m) + 1 = 3
          \/ Len(m) = 3 /\ Len(m) + 1 = 4
      <4>1. ASSUME NEW n \in 1..4, n < 4
            PROVE  (n = 1 /\ n + 1 = 2) \/ (n = 2 /\ n + 1 = 3) \/ (n = 3 /\ n + 1 = 4)
        <5>1. n = 1 \/ n = 2 \/ n = 3
          BY <4>1
        <5>2. QED
          BY <5>1
      <4>2. QED
        BY <1>2, <1>4, <4>1, Zenon
    <3>2. \/ States[Len(m)] = "EMPTY" /\ v = "WRITING"
          \/ States[Len(m)] = "WRITING" /\ v = "READY"
          \/ States[Len(m)] = "READY" /\ v = "READING"
      BY <1>1, <1>4, <3>1, Zenon
    <3>3. QED
      BY <3>2, Zenon
  <2>2. 4 \in Nat
    BY Zenon
  <2>3. QED
    BY <1>4, <2>1, <2>2, NextValue
<1>5. QED
  BY <1>2, <1>3, <1>4, Zenon

\* state is EMPTY in a new channel.
LEMMA StateInit == A!Init => StateInv
<1> SUFFICES ASSUME A!Init
             PROVE  StateInv
  BY Zenon
<1>1. SharedInit("EMPTY")
  BY Zenon DEF A!Init, A!SharedInit, A!CellInit, A!Threads, SharedInit, CellInit
<1>2. SharedInv(2) /\ mo = <<"EMPTY">> /\ \A s \in Senders : ~Past(s)
  BY <1>1, SharedStart
<1>3. Follows(mo, {"EMPTY", "WRITING", "READY", "READING"}, States, 4) /\ Len(mo) = 1
  BY <1>2 DEF Follows, States
<1>4. QED
  BY <1>2, <1>3 DEF StateInv

\* The steps of the instance are those of SharedChannel.
LEMMA StateBridge ==
  ASSUME (\E t \in Threads : A!SharedStep(t, "READY")) \/ A!SpuriousPark
  PROVE  (\E t \in Threads : SharedStep(t, "READY")) \/ SpuriousPark
<1>1. CASE \E t \in Threads : A!SharedStep(t, "READY")
  <2>1. PICK t \in Threads : A!SharedStep(t, "READY")
    BY <1>1, Zenon
  <2>2. SharedStep(t, "READY")
    BY <2>1, Zenon
       DEF SharedStep, A!SharedStep, Write, A!Write, UnparkMain, A!UnparkMain,
         IsReady, A!IsReady, Park, A!Park, JoinAndDrop, A!JoinAndDrop, Read, A!Read,
         A!Goto, A!Threads, WriteMessage, A!WriteMessage, Access, A!Access, Unpark,
       A!Unpark,
         Loadable, A!Loadable, LoadAt, A!LoadAt, ParkReturns, A!ParkReturns, Current,
       A!Current,
         TakeMessage, A!TakeMessage, Take, A!Take, After, A!After, Ended, A!Ended,
         AfterAccess, A!AfterAccess, ViewAfterAccess, A!ViewAfterAccess, AfterJoin,
       A!AfterJoin,
         Max, A!Max
  <2>3. QED
    BY <2>2, Zenon
<1>2. CASE A!SpuriousPark
  BY <1>2, Zenon
     DEF SpuriousPark, A!SpuriousPark, SpuriousReturn, A!SpuriousReturn, A!Goto
<1>3. QED
  BY <1>1, <1>2, Zenon

\* The steps that do not write state.
LEMMA StateShared ==
  ASSUME StateInv, (\E t \in Threads : A!SharedStep(t, "READY")) \/ A!SpuriousPark
  PROVE  StateInv'
<1>1. (\E t \in Threads : SharedStep(t, "READY")) \/ SpuriousPark
  BY StateBridge, Zenon
<1>2. /\ Len(mo) \in 1..4
      /\ \A i \in 1..Len(mo) : mo[i] = "READY" <=> i = 3
  BY StateValues, Zenon DEF StateInv
<1>3. /\ \A i \in 1..Len(mo) : mo[i] = "READY" => i > 2
      /\ Current = "READY" <=> Len(mo) = 2 + 1
  BY <1>2 DEF Current
<1>4. SharedInv(2)
  BY Zenon DEF StateInv
<1>5. SharedInv(2)' /\ mo' = mo /\ \A s \in Senders : Past(s)' = Past(s)
  BY <1>1, <1>3, <1>4, SharedPreserves, Zenon
<1>6. QED
  BY <1>5, Zenon DEF StateInv

\* compare_exchange(EMPTY, WRITING) lets the first sender through.
LEMMA StateSend ==
  ASSUME StateInv, NEW s \in Senders, A!Send(s)
  PROVE  StateInv'
<1>1. /\ UNCHANGED <<message, view, hb, token>>
      /\ pc[s] = "send"
  BY Zenon DEF A!Send, A!SendPanics
<1>2. /\ SharedInv(2) /\ Len(mo) \in 1..4
      /\ \A i \in 1..Len(mo) : mo[i] = "EMPTY" <=> i = 1
  BY StateValues, Zenon DEF StateInv
<1>3. CASE mo[Len(mo)] = "EMPTY" /\ A!Store(s, "WRITING") /\ A!Goto(s, "write") /\ UNCHANGED taken
  <2>1. Len(mo) = 1
    BY <1>2, <1>3
  <2>2. /\ Follows(mo, {"EMPTY", "WRITING", "READY", "READING"}, States, 4)'
        /\ Len(mo') = 2
    <3>1. Len(mo) < 4 /\ States[Len(mo) + 1] = "WRITING"
      BY <2>1 DEF States
    <3>2. mo' = Append(mo, "WRITING")
      BY <1>3, Zenon DEF A!Store, A!Current
    <3>3. QED
      BY <2>1, <3>1, <3>2, StateValues DEF StateInv
  <2>3. \A u \in Senders : ~Past(u)
    BY <2>1 DEF StateInv
  <2>4. /\ 2 \in 1..Len(mo') /\ seen' = [seen EXCEPT ![s] = 2]
        /\ pc' = [pc EXCEPT ![s] = "write"]
    <3>1. Len(mo') = 2 /\ 2 \in 1..2
      BY <2>2
    <3>2. seen' = [seen EXCEPT ![s] = Len(mo')] /\ pc' = [pc EXCEPT ![s] = "write"]
      BY <1>3, Zenon DEF A!Store, A!Goto
    <3>3. QED
      BY <3>1, <3>2, Zenon
  <2>5. Len(mo') \in Nat /\ Len(mo) < Len(mo') /\ Len(mo') <= 2
    BY <2>1, <2>2
  <2>6. SharedInv(2)' /\ \E u \in Senders : Past(u)'
    BY <1>1, <1>2, <1>3, <2>3, <2>4, <2>5, SendStep, Zenon
  <2>7. QED
    BY <2>2, <2>6 DEF StateInv
<1>4. CASE \E i \in A!Loadable(s) :
             mo[i] # "EMPTY" /\ A!LoadAt(s, i) /\ A!SendPanics(s) /\ UNCHANGED mo
  <2>1. PICK i \in A!Loadable(s) :
               mo[i] # "EMPTY" /\ A!LoadAt(s, i) /\ A!SendPanics(s) /\ UNCHANGED mo
    BY <1>4, Zenon
  <2>2. i \in 1..Len(mo) /\ i # 1
    <3>1. seen[s] \in 1..Len(mo) /\ i \in seen[s]..Len(mo)
      BY <1>2, <2>1, Zenon DEF A!Loadable, SharedInv, InOrder
    <3>2. i \in 1..Len(mo)
      BY <1>2, <3>1
    <3>3. QED
      BY <1>2, <2>1, <3>2, Zenon
  <2>3. Len(mo) > 1 /\ \E u \in Senders : Past(u)
    BY <1>2, <2>2 DEF StateInv
  <2>4. /\ seen' = [seen EXCEPT ![s] = i] /\ i \in 1..Len(mo')
        /\ pc' = [pc EXCEPT ![s] = "panicked"] /\ Take(s) /\ mo' = mo
    BY <2>1, <2>2, Zenon DEF A!LoadAt, A!SendPanics, A!Goto, A!Take, Take
  <2>5. SharedInv(2)' /\ \E u \in Senders : Past(u)'
    BY <1>1, <1>2, <2>3, <2>4, SendStep, Zenon
  <2>6. QED
    BY <2>3, <2>4, <2>5, Zenon DEF StateInv
<1>5. QED
  BY <1>3, <1>4, Zenon DEF A!Send, A!Current

\* state.store(READY, Release)
LEMMA StatePublish ==
  ASSUME StateInv, NEW s \in Senders, A!Publish(s)
  PROVE  StateInv'
<1>1. /\ UNCHANGED <<message, hb, taken, token>>
      /\ pc[s] = "store" /\ pc' = [pc EXCEPT ![s] = "unpark"]
      /\ view' = hb[s]
      /\ seen' = [seen EXCEPT ![s] = Len(mo')]
      /\ mo' = IF mo[Len(mo)] = "READY" THEN mo ELSE Append(mo, "READY")
  BY Zenon DEF A!Publish, A!Goto, A!Store, A!Current, A!ReleaseStoreView
<1>2. SharedInv(2) /\ Len(mo) \in 1..4
  BY StateValues, Zenon DEF StateInv
<1>3. Len(mo) = 2 /\ Past(s)
  <2>1. Past(s) /\ ~\E u \in Senders : Sent(u)
    BY <1>1, <1>2, Zenon DEF SharedInv, OneSender, Past, Sent
  <2>2. Len(mo) > 1
    BY <2>1, Zenon DEF StateInv
  <2>3. ~(Len(mo) > 2)
    BY <1>2, <2>1, Zenon DEF SharedInv, Publication
  <2>4. Len(mo) = 2
    BY <1>2, <2>2, <2>3
  <2>5. QED
    BY <2>1, <2>4, Zenon
<1>4. /\ Follows(mo, {"EMPTY", "WRITING", "READY", "READING"}, States, 4)'
      /\ Len(mo') = 2 + 1
  <2>1. Len(mo) < 4 /\ States[Len(mo) + 1] = "READY"
    BY <1>3 DEF States
  <2>2. QED
    BY <1>1, <1>3, <2>1, StateValues DEF StateInv
<1>5. SharedInv(2)' /\ \E u \in Senders : Past(u)'
  BY <1>1, <1>2, <1>3, <1>4, PublishStep, Zenon
<1>6. QED
  BY <1>4, <1>5 DEF StateInv

\* compare_exchange(READY, READING, Acquire): one call succeeds, and with the
\* message there and no competition it is that of main().
LEMMA StateReceive ==
  ASSUME StateInv, NEW t \in Threads, A!Receive(t)
  PROVE  /\ StateInv'
         /\ \/ pc' = [pc EXCEPT ![t] = "read"]
            \/ /\ pc' = [pc EXCEPT ![t] = After(t, "panicked")]
               /\ seen[t] # 3 \/ Len(mo) # 3
<1>1. /\ UNCHANGED <<message, view, taken, token>>
      /\ pc[t] = "receive"
  BY Zenon DEF A!Receive, A!ReceivePanics
<1>2. /\ SharedInv(2) /\ Len(mo) \in 1..4
      /\ \A i \in 1..Len(mo) : mo[i] = "READY" <=> i = 3
  BY StateValues, Zenon DEF StateInv
<1>3. CASE /\ mo[Len(mo)] = "READY" /\ A!Store(t, "READING")
           /\ hb' = A!AfterAcquire(hb, t, view) /\ A!Goto(t, "read")
  <2>1. Len(mo) = 2 + 1
    BY <1>2, <1>3
  <2>2. /\ Follows(mo, {"EMPTY", "WRITING", "READY", "READING"}, States, 4)'
        /\ Len(mo') = 2 + 2
    <3>1. Len(mo) < 4 /\ States[Len(mo) + 1] = "READING"
      BY <2>1 DEF States
    <3>2. mo' = Append(mo, "READING")
      BY <1>3, Zenon DEF A!Store, A!Current
    <3>3. QED
      BY <2>1, <3>1, <3>2, StateValues DEF StateInv
  <2>3. /\ seen' = [seen EXCEPT ![t] = Len(mo')]
        /\ hb' = [hb EXCEPT ![t] = @ \cup view]
        /\ pc' = [pc EXCEPT ![t] = "read"]
    BY <1>3, Zenon DEF A!Store, A!AfterAcquire, A!Goto
  <2>4. SharedInv(2)' /\ \A u \in Senders : Past(u)' = Past(u)
    BY <1>1, <1>2, <2>1, <2>2, <2>3, ClaimStep, Zenon
  <2>5. Len(mo) > 1 /\ Len(mo') > 1
    BY <2>1, <2>2
  <2>6. StateInv'
    BY <2>2, <2>4, <2>5, Zenon DEF StateInv
  <2>7. QED
    BY <2>3, <2>6, Zenon
<1>4. CASE A!ReceivePanics(t)
  <2>1. PICK i \in A!Loadable(t) :
          /\ mo[i] # "READY" /\ A!LoadAt(t, i) /\ A!Goto(t, A!After(t, "panicked"))
          /\ UNCHANGED <<message, mo, view, hb, taken, token>>
    BY <1>4, Zenon DEF A!ReceivePanics
  <2>2. i \in 1..Len(mo) /\ i # 3 /\ i >= seen[t]
    <3>1. seen[t] \in 1..Len(mo) /\ i \in seen[t]..Len(mo)
      BY <1>2, <2>1, Zenon DEF A!Loadable, SharedInv, InOrder
    <3>2. i \in 1..Len(mo) /\ i >= seen[t]
      BY <1>2, <3>1
    <3>3. QED
      BY <1>2, <2>1, <3>2, Zenon
  <2>3. /\ seen' = [seen EXCEPT ![t] = i] /\ mo' = mo
        /\ pc' = [pc EXCEPT ![t] = After(t, "panicked")]
        /\ {} \in SUBSET Threads /\ hb' = [hb EXCEPT ![t] = @ \cup {}]
    BY <1>2, <2>1, Zenon DEF A!LoadAt, A!Goto, A!After, After, SharedInv, Types
  <2>4. SharedInv(2)' /\ \A u \in Senders : Past(u)' = Past(u)
    BY <1>1, <1>2, <2>2, <2>3, RefuseStep, Zenon
  <2>5. seen[t] # 3 \/ Len(mo) # 3
    BY <2>2
  <2>6. QED
    BY <2>3, <2>4, <2>5, Zenon DEF StateInv
<1>5. QED
  BY <1>3, <1>4, Zenon DEF A!Receive, A!Current

\* Every step of the channel keeps the invariant.
LEMMA StatePreserves == StateInv /\ [A!Next]_(A!vars) => StateInv'
<1> SUFFICES ASSUME StateInv, [A!Next]_(A!vars)
             PROVE  StateInv'
  BY Zenon
<1>1. CASE UNCHANGED A!vars
  <2>1. UNCHANGED <<message, mo, seen, view, hb, taken, pc, token>>
    BY <1>1, Zenon DEF A!vars, A!cellVars
  <2>2. QED
    BY <2>1, SharedUnchanged, Zenon DEF StateInv, Follows
<1>2. CASE \E t \in Threads : A!Step(t)
  BY <1>2, StateSend, StatePublish, StateReceive, StateShared, Zenon DEF A!Step
<1>3. CASE A!SpuriousPark
  BY <1>3, StateShared, Zenon
<1>4. QED
  BY <1>1, <1>2, <1>3, Zenon DEF A!Next, A!Threads, A!Terminated

\* The channel with one atomic keeps the invariant whatever the threads do.
THEOREM StateInvariance == A!Spec => []StateInv
BY StateInit, StatePreserves, PTL DEF A!Spec

\* The invariant gives the three properties.
LEMMA StateSafe == StateInv => NoDataRace /\ ReceivesMessage /\ TakenOnce
<1> SUFFICES ASSUME StateInv
             PROVE  NoDataRace /\ ReceivesMessage /\ TakenOnce
  BY Zenon
<1>1. SharedInv(2) /\ Len(mo) \in 1..4
  BY StateValues, Zenon DEF StateInv
<1>2. 2 \in Nat /\ 2 + 2 = 4
  OBVIOUS
<1>3. QED
  BY <1>1, <1>2, SharedSafe, Zenon

\* However many threads call send() and receive() of the channel with one atomic
\* (05-03_represent_channel_state_with_single_atomic_variable.rs), its
\* accesses to the cell never race.
THEOREM StateRaceFree == A!Spec => []NoDataRace
BY StateInvariance, StateSafe, PTL

\* Its receive() returns a message that is there and that no other call has
\* returned.
THEOREM StateReceives == A!Spec => []ReceivesMessage
BY StateInvariance, StateSafe, PTL

\* Every message given to its send() has exactly one owner in the end, the calls
\* that panic and the drop of the channel included.
THEOREM StateTakenOnce == A!Spec => []TakenOnce
BY StateInvariance, StateSafe, PTL

\* The same for receive() of main(): a failed exchange is a Relaxed load, but
\* is_ready() has already shown main() the value READY.
THEOREM StateMainNeverPanics == A!Spec => MainNeverPanics
<1>1. StateInv /\ [A!Next]_(A!vars)
        => [OnlyMainReceives /\ pc[Main] = "receive" => pc'[Main] # "join"]_cellVars
  <2> SUFFICES ASSUME StateInv, [A!Next]_(A!vars), OnlyMainReceives, pc[Main] = "receive"
               PROVE  pc'[Main] # "join"
    BY Zenon
  <2>1. SharedInv(2) /\ Len(mo) \in 1..2 + 2 /\ Kinds
    BY StateValues DEF StateInv, SharedInv
  <2>2. CASE UNCHANGED A!vars
    BY <2>2, Zenon DEF A!vars, A!cellVars
  <2>3. CASE (\E t \in Threads : A!SharedStep(t, "READY")) \/ A!SpuriousPark
    BY <2>1, <2>3, StateBridge, SharedKeepsMain, Zenon
  <2>4. ASSUME NEW s \in Senders, A!Send(s) \/ A!Publish(s)
        PROVE  pc'[Main] = "receive"
    BY <2>1, <2>4, Zenon DEF A!Send, A!SendPanics, A!Publish, A!Goto, Kinds
  <2>5. ASSUME NEW t \in Threads, A!Receive(t)
        PROVE  pc'[Main] # "join"
    <3>1. \/ pc' = [pc EXCEPT ![t] = "read"]
          \/ pc' = [pc EXCEPT ![t] = After(t, "panicked")] /\ (seen[t] # 3 \/ Len(mo) # 3)
      BY <2>5, StateReceive, Zenon
    <3>2. Len(mo) = 3 /\ seen[Main] = 3
      <4>1. Len(mo) = 2 + 1 /\ seen[Main] = 2 + 1
        BY <2>1, MainFindsMessage, Zenon
      <4>2. QED
        BY <4>1
    <3>3. QED
      BY <2>1, <3>1, <3>2, Zenon DEF Kinds
  <2>6. QED
    BY <2>2, <2>3, <2>4, <2>5, Zenon DEF A!Next, A!Step, A!Threads, A!Terminated
<1>2. QED
  BY <1>1, StateInvariance, PTL DEF A!Spec, MainNeverPanics
=============================================================================
