--------------------------- MODULE OneShotProofs ---------------------------
(***************************************************************************)
(* Proofs about the channels with a Sender and a Receiver, for every       *)
(* number of rounds: the cell is never accessed without an order, and      *)
(* receive() returns the message of its round, in 05-02 (U) under its      *)
(* contract, 05-04 (T), 05-05 and 05-06 (S); in the last three every       *)
(* message has one owner in the end.                                       *)
(*                                                                         *)
(* HalvesInv says what the statements of send() and receive() rely on.     *)
(* Owners(open) says who has the message of each round, where open tells   *)
(* whether the channel is still there to drop what it holds.               *)
(***************************************************************************)
EXTENDS MCOneShotChannels, TLAPS

Kinds ==
  /\ pc \in [Threads -> {"write", "store", "unpark", "is_ready", "park", "swap", "read",
                         "drop", "scope", "join", "done"}]
  /\ pc["sender"] \in {"write", "store", "unpark", "drop", "done"}
  /\ pc["main"] \in {"scope", "is_ready", "park", "swap", "read", "drop", "join", "done"}
  /\ pc["main"] \in {"scope", "done"} => pc["sender"] = "done"

\* ready is true, and has been true in this round.
Values == mo \in Seq(BOOLEAN) /\ Len(mo) > 0

Ready == Current = TRUE

Raised == \E i \in 1..Len(mo) : mo[i] = TRUE

Types ==
  /\ Values
  /\ hb \in [Threads -> SUBSET Threads]
  /\ view \subseteq Threads
  /\ taken \in [1..Rounds -> Nat]
  /\ round \in 0..Rounds
  /\ sent \subseteq 1..round

\* The sender is in send(), or past it.
Sending == pc["sender"] \in {"write", "store"}

Stored == round \in sent /\ ~Sending

\* main() has not yet got through receive().
Waiting == pc["main"] \in {"is_ready", "park", "swap"}

\* ready is true after the store in send() only; until then nobody but the
\* sender touches the cell, and then who acquires from the store.
Ordered ==
  /\ Sending => round \in sent /\ hb["sender"] = Threads
  /\ Raised => Stored
  /\ Ready /\ Waiting => view = Threads
  /\ pc["main"] = "read" => Stored /\ hb["main"] = Threads

Content == pc["sender"] = "store" \/ Stored => message = round

HalvesInv == Kinds /\ Types /\ Ordered /\ Content

\* A message that was sent has been taken, unless it is still in an open
\* channel or receive() is about to read it.
Owners(open) ==
  /\ pc["main"] = "read" => ~Ready
  /\ \A m \in 1..Rounds :
       taken[m] = IF /\ m \in sent
                     /\ \/ m < round
                        \/ ~Sending /\ pc["main"] # "read" /\ ~(Ready /\ open)
                    THEN 1 ELSE 0

\* The threads that have not dropped their Arc.
Held(t) == pc[t] \in {"write", "store", "is_ready", "park", "swap", "read", "drop"}

Holders == handles = {t \in Threads : Held(t)}

TypedInv == HalvesInv /\ Holders /\ Owners(handles # {})

SplitInv == HalvesInv /\ Owners(~Finished)

\* No message of a later round has been taken, nor that of this round while
\* receive() may come.
Untaken ==
  \A m \in 1..Rounds :
    m > round \/ (m = round /\ pc["main"] \in {"is_ready", "read"}) => taken[m] = 0

\* In 05-02 ready stays true when the message is read; the contract protects
\* receive().
UnsafeInv ==
  /\ HalvesInv /\ Holders /\ Untaken
  /\ Raised => Ready
  /\ seen \in [Threads -> Nat \ {0}]

USE RoundsAssumption DEF Threads, Goto, cellVars, clientVars

\* n is a sequence over V that has the values of m, with v at the end.
EndsWith(m, n, v, V) ==
  /\ n \in Seq(V) /\ Len(n) > 0
  /\ n[Len(n)] = v
  /\ \A i \in 1..Len(n) : n[i] = v \/ \E j \in 1..Len(m) : m[j] = n[i]
  /\ \A j \in 1..Len(m) : \E i \in 1..Len(n) : n[i] = m[j]

\* What a store leaves, when repeats count as one.
LEMMA LastStored ==
  ASSUME NEW V, NEW m \in Seq(V), Len(m) > 0, NEW v \in V
  PROVE  EndsWith(m, IF m[Len(m)] = v THEN m ELSE Append(m, v), v, V)
<1> DEFINE n == IF m[Len(m)] = v THEN m ELSE Append(m, v)
<1> USE DEF EndsWith
<1>1. CASE m[Len(m)] = v
  BY <1>1, Zenon
<1>2. CASE m[Len(m)] # v
  <2>1. n = Append(m, v)
    BY <1>2, Zenon
  <2>2. /\ n \in Seq(V) /\ Len(n) = Len(m) + 1 /\ n[Len(m) + 1] = v
        /\ \A i \in 1..Len(m) : n[i] = m[i]
    BY <2>1
  <2>3. \A i \in 1..Len(n) : i \in 1..Len(m) \/ i = Len(m) + 1
    BY <2>2
  <2>4. 1..Len(m) \subseteq 1..Len(n) /\ Len(n) > 0
    BY <2>2
  <2>5. QED
    BY <2>2, <2>3, <2>4, Zenon
<1>3. QED
  BY <1>1, <1>2, Zenon

\* A true ready has been raised, and it is either true or false.
LEMMA ReadyRaised ==
  ASSUME Values
  PROVE  (Ready => Raised) /\ Current \in BOOLEAN
<1>1. Len(mo) \in 1..Len(mo)
  BY DEF Values
<1>2. \A V : mo \in Seq(V) => mo[Len(mo)] \in V
  BY <1>1
<1>3. QED
  BY <1>1, <1>2, Zenon DEF Values, Ready, Raised, Current

\* A store to ready.
LEMMA StoreReady ==
  ASSUME Values, NEW t, NEW v \in BOOLEAN, Store(t, v)
  PROVE  Values' /\ Ready' = v /\ Raised' = (Raised \/ v)
<1>1. mo' = IF mo[Len(mo)] = v THEN mo ELSE Append(mo, v)
  BY Zenon DEF Store, Current
<1>2. /\ mo' \in Seq(BOOLEAN) /\ Len(mo') > 0
      /\ mo'[Len(mo')] = v
      /\ \A i \in 1..Len(mo') : mo'[i] = v \/ \E j \in 1..Len(mo) : mo[j] = mo'[i]
      /\ \A j \in 1..Len(mo) : \E i \in 1..Len(mo') : mo'[i] = mo[j]
  <2>1. mo \in Seq(BOOLEAN) /\ Len(mo) > 0 /\ v \in BOOLEAN
    BY Zenon DEF Values
  <2>2. EndsWith(mo, mo', v, BOOLEAN)
    BY <1>1, <2>1, LastStored, Zenon
  <2>3. QED
    BY <2>2, Zenon DEF EndsWith
<1>3. Len(mo') \in 1..Len(mo')
  BY <1>2
<1>4. Values' /\ Ready' = v
  BY <1>2, Zenon DEF Values, Ready, Current
<1>5. Raised' = (Raised \/ v)
  <2>1. Raised' => Raised \/ v
    BY <1>2, Zenon DEF Raised
  <2>2. Raised => Raised'
    BY <1>2, Zenon DEF Raised
  <2>3. v => Raised'
    BY <1>2, <1>3, Zenon DEF Raised
  <2>4. Raised' \in BOOLEAN /\ Raised \in BOOLEAN
    BY Zenon DEF Raised
  <2>5. QED
    BY <2>1, <2>2, <2>3, <2>4, Zenon
<1>6. QED
  BY <1>4, <1>5, Zenon

\* The flag is as it was where the modification order is.
LEMMA SameReady ==
  ASSUME UNCHANGED mo
  PROVE  Values' = Values /\ Ready' = Ready /\ Raised' = Raised
BY Zenon DEF Values, Ready, Raised, Current

\* Steps that neither touch the cell nor write ready.
LEMMA QuietStep ==
  ASSUME HalvesInv, Kinds', UNCHANGED <<message, mo, view, clientVars>>,
         taken' \in [1..Rounds -> Nat],
         hb' \in [Threads -> SUBSET Threads],
         \A t \in Threads : hb[t] = Threads => hb'[t] = Threads,
         Sending \/ Sending' => pc'["sender"] = pc["sender"],
         pc'["main"] = "read" => pc["main"] = "read",
         Waiting' => Waiting
  PROVE  /\ HalvesInv'
         /\ Ready' = Ready /\ Sending' = Sending
<1>1. Values' = Values /\ Ready' = Ready /\ Raised' = Raised
  BY SameReady, Zenon
<1>2. Sending' = Sending /\ Stored' = Stored /\ (pc'["sender"] = "store" <=> pc["sender"] = "store")
  BY DEF Sending, Stored
<1>3. Types'
  BY <1>1, Zenon DEF HalvesInv, Types
<1>4. Ordered'
  BY <1>1, <1>2, Zenon DEF HalvesInv, Ordered
<1>5. Content'
  BY <1>2, Zenon DEF HalvesInv, Content
<1>6. QED
  BY <1>1, <1>2, <1>3, <1>4, <1>5, Zenon DEF HalvesInv

\* Nothing happens to the messages.
LEMMA OwnersKept ==
  ASSUME NEW open \in BOOLEAN, Owners(open), UNCHANGED <<taken, clientVars>>,
         Ready' = Ready, Sending' = Sending, (pc'["main"] = "read") = (pc["main"] = "read")
  PROVE  Owners(open)'
BY Zenon DEF Owners

\* A new channel for a new round.
LEMMA ScopeStep ==
  ASSUME HalvesInv, taken' \in [1..Rounds -> Nat],
         NEW starts, starts \subseteq {"is_ready", "swap", "drop", "join"},
         NEW unsent \in {"drop", "done"}, NEW waits, Scope(starts, waits, unsent)
  PROVE  /\ HalvesInv' /\ ~Ready'
         /\ round' = round + 1 /\ round' \in 1..Rounds
         /\ sent' = sent \/ sent' = sent \cup {round'}
         /\ Sending' <=> round' \in sent'
         /\ pc'["main"] \in starts
         /\ pc'["sender"] \in {"write", unsent}
         /\ ~Raised' /\ seen' \in [Threads -> Nat \ {0}]
<1> USE DEF HalvesInv
<1>1. PICK start \in starts, sends \in BOOLEAN :
        /\ sent' = IF sends THEN sent \cup {round'} ELSE sent
        /\ pc' = [main |-> start, sender |-> IF sends THEN "write" ELSE unsent]
  BY Zenon DEF Scope
<1>2. /\ round' = round + 1 /\ round' \in 1..Rounds
      /\ round' \notin sent /\ sent' \subseteq 1..round'
      /\ round' \in sent' <=> sends
  <2>1. round' = round + 1 /\ round < Rounds /\ round \in 0..Rounds /\ sent \subseteq 1..round
    BY Zenon DEF Scope, Types
  <2>2. round' \in 1..Rounds /\ round' \notin 1..round /\ 1..round \subseteq 1..round'
        /\ round' \in 1..round'
    BY <2>1
  <2>3. QED
    BY <1>1, <2>1, <2>2, Zenon
<1>3. /\ pc'["main"] = start /\ pc'["sender"] = (IF sends THEN "write" ELSE unsent)
      /\ pc' \in [Threads -> {start, "write", unsent}]
  BY <1>1
<1>4. Values' /\ ~Ready' /\ ~Raised'
  <2>1. mo' = <<FALSE>>
    BY Zenon DEF Scope, NewChannel
  <2>2. Len(mo') = 1 /\ mo' \in Seq(BOOLEAN) /\ mo'[1] = FALSE /\ Len(mo') > 0
    BY <2>1
  <2>3. \A i \in 1..Len(mo') : i = 1
    BY <2>2
  <2>4. QED
    BY <2>2, <2>3, Zenon DEF Values, Ready, Raised, Current
<1>5. Sending' <=> round' \in sent'
  BY <1>2, <1>3, Zenon DEF Sending
<1>6. Kinds'
  BY <1>3, Zenon DEF Kinds
<1>7. Types'
  BY <1>2, <1>4 DEF Types, Scope, NewChannel
<1>8. Ordered'
  <2>1. hb' = [t \in Threads |-> Threads]
    BY Zenon DEF Scope, NewChannel
  <2>2. QED
    BY <1>3, <1>4, <1>5, <2>1, Zenon DEF Ordered
<1>9. Content'
  BY <1>3, <1>5, Zenon DEF Content, Stored, Sending
<1>10. seen' \in [Threads -> Nat \ {0}]
  BY DEF Scope, NewChannel
<1>11. QED
  BY <1>1, <1>2, <1>3, <1>4, <1>5, <1>6, <1>7, <1>8, <1>9, <1>10, Zenon

\* The write in send().
LEMMA WriteStep ==
  ASSUME HalvesInv, SendWrite, UNCHANGED clientVars
  PROVE  /\ HalvesInv' /\ Ready' = Ready /\ Sending' /\ Sending
         /\ pc'["main"] = pc["main"] /\ UNCHANGED <<taken, seen>>
<1> USE DEF HalvesInv, SendWrite, WriteMessage, Access
<1>1. Values' = Values /\ Ready' = Ready /\ Raised' = Raised
  BY SameReady, Zenon
<1>2. /\ pc["sender"] = "write" /\ pc'["sender"] = "store" /\ pc'["main"] = pc["main"]
      /\ Sending /\ Sending' /\ ~Stored /\ ~Stored'
  BY Zenon DEF Kinds, Sending, Stored
<1>3. Kinds'
  BY <1>2, Zenon DEF Kinds
<1>4. Types'
  BY <1>1, Zenon DEF Types, AfterAccess, ViewAfterAccess
<1>5. ~Ready /\ pc["main"] # "read"
  BY <1>2, ReadyRaised, Zenon DEF Ordered, Types
<1>6. Ordered'
  <2>1. hb'["sender"] = Threads
    BY <1>2, Zenon DEF Types, Ordered, AfterAccess
  <2>2. QED
    BY <1>1, <1>2, <1>5, <2>1, Zenon DEF Ordered
<1>7. Content'
  BY <1>2, Zenon DEF Content
<1>8. QED
  BY <1>1, <1>2, <1>3, <1>4, <1>6, <1>7, Zenon

\* The Release store in send().
LEMMA StoreStep ==
  ASSUME HalvesInv, NEW next \in {"drop", "unpark"}, SendStore(next), UNCHANGED clientVars
  PROVE  /\ HalvesInv' /\ Ready'
         /\ Sending /\ ~Sending' /\ pc["sender"] = "store"
         /\ pc'["main"] = pc["main"] /\ pc["main"] # "read" /\ UNCHANGED taken
<1> USE DEF HalvesInv, SendStore
<1>1. Values' /\ Ready' /\ Raised'
  <2>1. Values /\ TRUE \in BOOLEAN
    BY Zenon DEF Types
  <2>2. QED
    BY <2>1, StoreReady, Zenon
<1>2. /\ pc["sender"] = "store" /\ pc'["sender"] = next /\ pc'["main"] = pc["main"]
      /\ Sending /\ ~Sending' /\ ~Stored /\ Stored'
  BY Zenon DEF Kinds, Sending, Stored, Ordered
<1>3. Kinds'
  BY <1>2, Zenon DEF Kinds
<1>4. view' = Threads
  BY <1>2, Zenon DEF ReleaseStoreView, Ordered
<1>5. Types'
  BY <1>1, <1>4, Zenon DEF Types
<1>6. pc["main"] # "read"
  BY <1>2, Zenon DEF Ordered
<1>7. Ordered'
  BY <1>2, <1>4, <1>6, Zenon DEF Ordered
<1>8. Content'
  BY <1>2, Zenon DEF Content
<1>9. QED
  BY <1>1, <1>2, <1>3, <1>5, <1>6, <1>7, <1>8, Zenon

\* The Acquire swap in receive(), which finds the message or not.
LEMMA SwapStep ==
  ASSUME HalvesInv, NEW empty \in {"drop", "join", "park"}, Swap(empty), UNCHANGED clientVars
  PROVE  /\ HalvesInv' /\ ~Ready'
         /\ pc'["main"] = (IF Ready THEN "read" ELSE empty) /\ pc["main"] = "swap"
         /\ pc'["sender"] = pc["sender"] /\ UNCHANGED taken
<1> USE DEF HalvesInv
<1>1. Values' /\ ~Ready' /\ Raised' = Raised
  <2>1. Values /\ FALSE \in BOOLEAN /\ Store("main", FALSE)
    BY Zenon DEF Types, Swap
  <2>2. Values' /\ Ready' = FALSE /\ Raised' = (Raised \/ FALSE)
    BY <2>1, StoreReady, Zenon
  <2>3. Raised \in BOOLEAN
    BY Zenon DEF Raised
  <2>4. QED
    BY <2>2, <2>3, Zenon
<1>2. pc' = [pc EXCEPT !["main"] = IF Ready THEN "read" ELSE empty] /\ pc["main"] = "swap"
  <2>1. Current \in BOOLEAN
    BY ReadyRaised, Zenon DEF Types
  <2>2. pc' = [pc EXCEPT !["main"] = IF Current THEN "read" ELSE empty] /\ pc["main"] = "swap"
    BY Zenon DEF Swap
  <2>3. QED
    BY <2>1, <2>2, Zenon DEF Ready
<1>3. /\ pc'["main"] = (IF Ready THEN "read" ELSE empty)
      /\ pc'["sender"] = pc["sender"]
  BY <1>2, Zenon DEF Kinds
<1>4. Sending' = Sending /\ Stored' = Stored
  BY <1>3, Zenon DEF Sending, Stored
<1>5. Kinds'
  BY <1>2, <1>3, Zenon DEF Kinds
<1>6. /\ hb' \in [Threads -> SUBSET Threads]
      /\ hb'["sender"] = hb["sender"] /\ hb'["main"] = hb["main"] \cup view
      /\ UNCHANGED <<message, view, taken>>
  BY Zenon DEF Swap, Types, AfterAcquire
<1>7. Types'
  BY <1>1, <1>6, Zenon DEF Types
<1>8. Ready => Stored /\ view = Threads
  BY <1>2, ReadyRaised, Zenon DEF Ordered, Types, Waiting
<1>9. Ordered'
  <2>1. pc'["main"] = "read" => Stored /\ hb'["main"] = Threads
    BY <1>3, <1>6, <1>8, Zenon DEF Types
  <2>2. QED
    BY <1>1, <1>4, <1>6, <2>1, Zenon DEF Ordered
<1>10. Content'
  BY <1>3, <1>4, <1>6, Zenon DEF Content
<1>11. QED
  BY <1>1, <1>2, <1>3, <1>5, <1>6, <1>7, <1>9, <1>10, Zenon

\* The read in receive() takes the message of the round.
LEMMA ReadStep ==
  ASSUME HalvesInv, NEW next \in {"drop", "join"}, Read(next), UNCHANGED clientVars
  PROVE  /\ HalvesInv' /\ Ready' = Ready
         /\ ~Sending /\ ~Sending' /\ round \in sent
         /\ pc["main"] = "read" /\ pc'["main"] = next /\ pc'["sender"] = pc["sender"]
         /\ \A m \in 1..Rounds : taken'[m] = IF m = round THEN taken[m] + 1 ELSE taken[m]
         /\ UNCHANGED seen
<1> USE DEF HalvesInv, Read, TakeMessage, Access
<1>1. Values' = Values /\ Ready' = Ready /\ Raised' = Raised
  BY SameReady, Zenon
<1>2. /\ pc["main"] = "read" /\ pc'["main"] = next /\ pc'["sender"] = pc["sender"]
      /\ Sending' = Sending /\ Stored' = Stored /\ Stored
  BY Zenon DEF Kinds, Sending, Stored, Ordered
<1>3. message = round /\ ~Sending /\ round \in sent
  BY <1>2, Zenon DEF Content, Stored
<1>4. Kinds'
  BY <1>2, Zenon DEF Kinds
<1>5. /\ taken' \in [1..Rounds -> Nat]
      /\ \A m \in 1..Rounds : taken'[m] = IF m = round THEN taken[m] + 1 ELSE taken[m]
  BY <1>3 DEF Types, Take
<1>6. Types'
  BY <1>1, <1>5, Zenon DEF Types, AfterAccess, ViewAfterAccess
<1>7. Ordered'
  BY <1>1, <1>2, <1>3, Zenon DEF Ordered, Waiting
<1>8. Content'
  BY <1>2, <1>3, Zenon DEF Content
<1>9. QED
  BY <1>1, <1>2, <1>3, <1>4, <1>5, <1>6, <1>7, <1>8, Zenon

\* The drop of a channel, if it is there: then all that was sent is taken.
LEMMA DropSettles ==
  ASSUME HalvesInv, NEW open \in BOOLEAN, Owners(open), ~Sending, pc["main"] # "read",
         IF open THEN DropContent ELSE UNCHANGED taken
  PROVE  /\ taken' \in [1..Rounds -> Nat]
         /\ \A m \in 1..Rounds : taken'[m] = IF m \in sent THEN 1 ELSE 0
<1> USE DEF HalvesInv
<1>1. \A m \in sent : m \in 1..Rounds /\ (m < round \/ m = round)
  BY DEF Types
<1>2. \A m \in 1..Rounds :
        taken[m] = IF m \in sent /\ (m < round \/ ~(Ready /\ open)) THEN 1 ELSE 0
  BY Zenon DEF Owners
<1>3. CASE Ready /\ open
  <2>1. Stored /\ message = round /\ round \in sent
    BY <1>3, ReadyRaised, Zenon DEF Ordered, Types, Content, Stored
  <2>2. Take(message)
    BY <1>3, Zenon DEF DropContent, Ready
  <2>3. /\ taken' \in [1..Rounds -> Nat]
        /\ \A m \in 1..Rounds : taken'[m] = IF m = round THEN taken[m] + 1 ELSE taken[m]
    BY <2>1, <2>2 DEF Types, Take
  <2>4. \A m \in 1..Rounds : taken[m] = IF m \in sent /\ m < round THEN 1 ELSE 0
    BY <1>2, <1>3, Zenon
  <2>5. round \in Nat /\ ~(round < round)
    BY DEF Types
  <2>6. QED
    BY <1>1, <2>1, <2>3, <2>4, <2>5
<1>4. CASE ~(Ready /\ open)
  <2>1. Current \in BOOLEAN
    BY ReadyRaised, Zenon DEF Types
  <2>2. UNCHANGED taken
    BY <1>4, <2>1, Zenon DEF DropContent, Ready
  <2>3. QED
    BY <1>1, <1>2, <1>4, <2>2, Zenon DEF Types
<1>5. QED
  BY <1>3, <1>4, Zenon

\* With all that was sent taken, a new round starts without a debt.
LEMMA ScopeOwners ==
  ASSUME HalvesInv, NEW open \in BOOLEAN,
         \A m \in 1..Rounds : taken'[m] = IF m \in sent THEN 1 ELSE 0,
         round' = round + 1, sent' = sent \/ sent' = sent \cup {round'},
         Sending' <=> round' \in sent', pc'["main"] # "read"
  PROVE  Owners(open)'
<1>1. round \in Nat /\ \A m \in sent : m \in Nat /\ m < round'
  BY DEF HalvesInv, Types
<1>2. \A m \in 1..Rounds : m \in sent <=> m \in sent' /\ (m < round' \/ ~Sending')
  BY <1>1
<1>3. \A m \in 1..Rounds : m \in sent' /\ ~(m < round') => Sending'
  BY <1>1, Zenon
<1>4. QED
  BY <1>2, <1>3, Zenon DEF Owners

\* The same when the channel is gone.
LEMMA ClosedOwners ==
  ASSUME HalvesInv, \A m \in 1..Rounds : taken'[m] = IF m \in sent THEN 1 ELSE 0,
         UNCHANGED clientVars, ~Sending', pc'["main"] # "read"
  PROVE  Owners(FALSE)'
BY Zenon DEF Owners

\* What the statements of send() and receive() do to the messages.
LEMMA StoreOwners ==
  ASSUME HalvesInv, NEW open \in BOOLEAN, open, Owners(open), UNCHANGED <<taken, clientVars>>,
         Ready', Sending, ~Sending', pc'["main"] = pc["main"], pc["main"] # "read"
  PROVE  Owners(open)'
BY Zenon DEF Owners

\* receive() after its swap(false): it has the message, or goes where an empty
\* channel sends it; either way the ownership stands.
LEMMA SwapOwners ==
  ASSUME HalvesInv, NEW open \in BOOLEAN, open, Owners(open), UNCHANGED <<taken, clientVars>>,
         NEW empty \in {"drop", "join", "park"},
         ~Ready', pc'["main"] = (IF Ready THEN "read" ELSE empty), pc["main"] = "swap",
         pc'["sender"] = pc["sender"]
  PROVE  Owners(open)'
BY Zenon DEF Owners, Sending

\* receive() reads the message of its round, which nobody had taken.
LEMMA ReadOwners ==
  ASSUME HalvesInv, NEW open \in BOOLEAN, Owners(open), UNCHANGED clientVars,
         Ready' = Ready, ~Sending, ~Sending', round \in sent,
         pc["main"] = "read", pc'["main"] # "read",
         \A m \in 1..Rounds : taken'[m] = IF m = round THEN taken[m] + 1 ELSE taken[m]
  PROVE  Owners(open)'
<1>1. \A m \in 1..Rounds : m \in sent => m < round \/ m = round
  BY DEF HalvesInv, Types
<1>2. round \in Nat /\ ~(round < round) /\ ~Ready
  BY DEF HalvesInv, Types, Owners
<1>3. \A m \in 1..Rounds : taken[m] = IF m \in sent /\ m < round THEN 1 ELSE 0
  BY <1>2, Zenon DEF Owners
<1>4. \A m \in 1..Rounds : taken'[m] = IF m \in sent THEN 1 ELSE 0
  BY <1>1, <1>2, <1>3
<1>5. QED
  BY <1>2, <1>4, Zenon DEF Owners

\* The invariants give the properties of the cell.
LEMMA HalvesSafe ==
  ASSUME HalvesInv
  PROVE  NoDataRace /\ (pc["main"] = "read" => message = round)
BY Zenon DEF HalvesInv, NoDataRace, OrderedAfterOthers, Ordered, Content, Sending, Types

\* The message is received once and in the round it was sent in, if the
\* ownership stands.
LEMMA OwnersSafe ==
  ASSUME HalvesInv, NEW open \in BOOLEAN, Owners(open), Finished => ~open
  PROVE  ReceivesMessage /\ TakenOnce
<1> USE DEF HalvesInv
<1>1. ReceivesMessage
  <2> SUFFICES ASSUME pc["main"] = "read"
               PROVE  message = round /\ taken[round] = 0
    BY Zenon DEF ReceivesMessage
  <2>1. round \in 1..Rounds /\ ~(round < round)
    BY DEF Types, Ordered, Stored
  <2>2. QED
    BY <2>1, HalvesSafe, Zenon DEF Owners
<1>2. \A m \in 1..Rounds : taken[m] <= 1
  BY DEF Owners
<1>3. ASSUME Finished
      PROVE  \A m \in 1..Rounds : taken[m] = IF m \in sent THEN 1 ELSE 0
  BY <1>3, Zenon DEF Finished, Kinds, Owners, Sending
<1>4. QED
  BY <1>1, <1>2, <1>3, Zenon DEF TakenOnce

\* Waiting for a thread, here or through Arc, only adds to what is ordered.
LEMMA JoinOrders ==
  ASSUME HalvesInv, NEW t \in Threads, hb' = hb \/ hb' = AfterJoin(hb, t)
  PROVE  /\ hb' \in [Threads -> SUBSET Threads]
         /\ \A u \in Threads : hb[u] = Threads => hb'[u] = Threads
<1>1. hb \in [Threads -> SUBSET Threads]
  BY Zenon DEF HalvesInv, Types
<1>2. UNION {hb[u] : u \in DOMAIN hb} \subseteq Threads /\ hb[t] \subseteq UNION {hb[u] : u \in DOMAIN hb}
  BY <1>1, Zenon
<1>3. QED
  BY <1>1, <1>2 DEF AfterJoin

\* Steps of main() between the statements of receive().
LEMMA MainQuiet ==
  ASSUME HalvesInv, NEW l, pc' = [pc EXCEPT !["main"] = l],
         \/ pc["main"] \in {"is_ready", "park"} /\ l \in {"is_ready", "park", "swap"}
         \/ pc["main"] = "join" /\ l = "scope" /\ pc["sender"] = "done"
         \/ pc["main"] = "scope" /\ l = "done"
         \/ pc["main"] = "drop" /\ l = "join",
         hb' = hb \/ hb' = AfterJoin(hb, "main"),
         taken' \in [1..Rounds -> Nat], UNCHANGED <<message, mo, view, clientVars>>
  PROVE  /\ HalvesInv' /\ Ready' = Ready /\ Sending' = Sending
         /\ pc'["main"] = l /\ pc'["sender"] = pc["sender"] /\ pc["main"] # "read" /\ l # "read"
<1>1. /\ pc'["main"] = l /\ pc'["sender"] = pc["sender"] /\ pc["main"] # "read" /\ l # "read"
      /\ Waiting' => Waiting
  BY Zenon DEF HalvesInv, Kinds, Waiting
<1>2. Kinds'
  BY <1>1, Zenon DEF HalvesInv, Kinds
<1>3. /\ hb' \in [Threads -> SUBSET Threads]
      /\ \A u \in Threads : hb[u] = Threads => hb'[u] = Threads
  BY JoinOrders, Zenon
<1>4. QED
  BY <1>1, <1>2, <1>3, QuietStep, Zenon

\* Steps of the sender after send().
LEMMA SenderQuiet ==
  ASSUME HalvesInv, NEW l \in {"unpark", "done"}, pc' = [pc EXCEPT !["sender"] = l],
         pc["sender"] \in {"unpark", "drop"},
         hb' = hb \/ hb' = AfterJoin(hb, "sender"),
         taken' \in [1..Rounds -> Nat], UNCHANGED <<message, mo, view, clientVars>>
  PROVE  /\ HalvesInv' /\ Ready' = Ready /\ ~Sending' /\ ~Sending
         /\ pc'["main"] = pc["main"] /\ pc'["sender"] = l
<1>1. pc'["main"] = pc["main"] /\ pc'["sender"] = l /\ ~Sending' /\ ~Sending /\ Waiting' = Waiting
  BY Zenon DEF HalvesInv, Kinds, Waiting, Sending
<1>2. Kinds'
  BY <1>1, Zenon DEF HalvesInv, Kinds
<1>3. /\ hb' \in [Threads -> SUBSET Threads]
      /\ \A u \in Threads : hb[u] = Threads => hb'[u] = Threads
  BY JoinOrders, Zenon
<1>4. QED
  BY <1>1, <1>2, <1>3, QuietStep, Zenon

\* is_ready() sends main() to receive() or to park().
LEMMA IsReadyGoes ==
  ASSUME IsReady
  PROVE  \E l \in {"swap", "park"} : pc' = [pc EXCEPT !["main"] = l]
BY Zenon DEF IsReady

\* All of these steps in one: the loops around park(), and the end of a scope.
LEMMA MainWaits ==
  ASSUME HalvesInv, UNCHANGED clientVars,
         NEW l \in {"is_ready", "swap"},
         IsReady \/ Park(l) \/ SpuriousPark(l) \/ Join
  PROVE  /\ HalvesInv' /\ Ready' = Ready /\ Sending' = Sending
         /\ pc["main"] # "read" /\ pc'["main"] # "read" /\ UNCHANGED taken
         /\ Held("main")' = Held("main") /\ Held("sender")' = Held("sender")
         /\ pc'["main"] # "done"
<1>1. taken \in [1..Rounds -> Nat]
  BY Zenon DEF HalvesInv, Types
<1>2. CASE IsReady
  <2>1. PICK k \in {"swap", "park"} : pc' = [pc EXCEPT !["main"] = k]
    BY <1>2, IsReadyGoes, Zenon
  <2>2. pc["main"] = "is_ready" /\ UNCHANGED <<message, mo, view, hb, taken>>
    BY <1>2, Zenon DEF IsReady
  <2>3. /\ HalvesInv' /\ Ready' = Ready /\ Sending' = Sending
        /\ pc'["main"] = k /\ pc'["sender"] = pc["sender"]
    BY <1>1, <2>1, <2>2, MainQuiet, Zenon
  <2>4. QED
    BY <2>2, <2>3 DEF Held
<1>3. CASE Park(l) \/ SpuriousPark(l)
  <2>1. /\ pc["main"] = "park" /\ pc' = [pc EXCEPT !["main"] = l]
        /\ UNCHANGED <<message, mo, view, hb, taken>>
    BY <1>3, Zenon DEF Park, SpuriousPark, ParkReturns, SpuriousReturn
  <2>2. /\ HalvesInv' /\ Ready' = Ready /\ Sending' = Sending
        /\ pc'["main"] = l /\ pc'["sender"] = pc["sender"]
    BY <1>1, <2>1, MainQuiet, Zenon
  <2>3. QED
    BY <2>1, <2>2 DEF Held
<1>4. CASE Join
  <2>1. /\ pc["main"] = "join" /\ pc["sender"] = "done" /\ pc' = [pc EXCEPT !["main"] = "scope"]
        /\ hb' = AfterJoin(hb, "main") /\ UNCHANGED <<message, mo, view, taken>>
    BY <1>4, Zenon DEF Join
  <2>2. /\ HalvesInv' /\ Ready' = Ready /\ Sending' = Sending
        /\ pc'["main"] = "scope" /\ pc'["sender"] = pc["sender"]
    BY <1>1, <2>1, MainQuiet, Zenon
  <2>3. QED
    BY <2>1, <2>2 DEF Held
<1>5. QED
  BY <1>2, <1>3, <1>4, Zenon

-----------------------------------------------------------------------------
(***************************************************************************)
(* The channel of 05-04.                                                   *)
(***************************************************************************)

\* The statements of the instance are those of OneShotHalves.
LEMMA TypedBridge ==
  /\ T!SendWrite => SendWrite
  /\ T!SendStore("drop") => SendStore("drop")
  /\ T!UnparkMain => UnparkMain
  /\ T!IsReady => IsReady
  /\ T!Park("is_ready") => Park("is_ready")
  /\ T!SpuriousPark("is_ready") => SpuriousPark("is_ready")
  /\ T!Swap("drop") => Swap("drop")
  /\ T!Read("drop") => Read("drop")
  /\ T!Join => Join
  /\ T!DropContent => DropContent
<1>1. T!SendWrite => SendWrite
  BY Zenon DEF SendWrite, T!SendWrite, WriteMessage, T!WriteMessage, Access, T!Access,
       AfterAccess, T!AfterAccess, ViewAfterAccess, T!ViewAfterAccess, T!Goto,
       T!cellVars
<1>2. T!SendStore("drop") => SendStore("drop")
  BY Zenon
     DEF SendStore, T!SendStore, Store, T!Store, Current, T!Current, ReleaseStoreView,
       T!ReleaseStoreView, T!Goto, T!cellVars
<1>3. T!UnparkMain => UnparkMain
  BY Zenon
     DEF UnparkMain, T!UnparkMain, Unpark, T!Unpark, Max, T!Max, T!Goto, T!cellVars
<1>4. T!IsReady => IsReady
  BY Zenon
     DEF IsReady, T!IsReady, Loadable, T!Loadable, LoadAt, T!LoadAt, T!Goto, T!cellVars
<1>5. T!Park("is_ready") => Park("is_ready")
  BY Zenon DEF Park, T!Park, ParkReturns, T!ParkReturns, Max, T!Max, T!Goto, T!cellVars
<1>6. T!SpuriousPark("is_ready") => SpuriousPark("is_ready")
  BY Zenon DEF SpuriousPark, T!SpuriousPark, SpuriousReturn, T!SpuriousReturn, T!Goto,
       T!cellVars
<1>7. T!Swap("drop") => Swap("drop")
  BY Zenon
     DEF Swap, T!Swap, Store, T!Store, Current, T!Current, AfterAcquire, T!AfterAcquire,
       T!Goto, T!cellVars
<1>8. T!Read("drop") => Read("drop")
  BY Zenon DEF Read, T!Read, TakeMessage, T!TakeMessage, Access, T!Access, AfterAccess,
       T!AfterAccess, ViewAfterAccess, T!ViewAfterAccess, Take, T!Take, T!Goto,
       T!cellVars
<1>9. T!Join => Join
  BY Zenon DEF Join, T!Join, AfterJoin, T!AfterJoin, T!Goto, T!cellVars
<1>10. T!DropContent => DropContent
  BY Zenon DEF DropContent, T!DropContent, Current, T!Current, Take, T!Take, T!Goto,
       T!cellVars
<1>11. QED
  BY <1>1, <1>2, <1>3, <1>4, <1>5, <1>6, <1>7, <1>8, <1>9, <1>10, Zenon

\* Before the first round.
LEMMA ClientStart ==
  ASSUME ClientInit, NEW open \in BOOLEAN
  PROVE  /\ ~Raised /\ HalvesInv /\ Owners(open) /\ pc["main"] = "scope" /\ pc["sender"] = "done"
         /\ seen \in [Threads -> Nat \ {0}]
         /\ \A m \in 1..Rounds : taken[m] = 0
<1> USE DEF ClientInit, CellInit
<1>1. /\ pc["main"] = "scope" /\ pc["sender"] = "done" /\ round = 0 /\ sent = {}
      /\ \A m \in 1..Rounds : taken[m] = 0
  BY Zenon
<1>2. Values /\ ~Ready /\ ~Raised
  <2>1. mo = <<FALSE>> /\ Len(mo) = 1 /\ mo \in Seq(BOOLEAN) /\ mo[1] = FALSE /\ Len(mo) > 0
    OBVIOUS
  <2>2. \A i \in 1..Len(mo) : i = 1
    BY <2>1
  <2>3. QED
    BY <2>1, <2>2, Zenon DEF Values, Ready, Raised, Current
<1>3. Kinds
  BY <1>1, Zenon DEF Kinds
<1>4. Types
  BY <1>2 DEF Types
<1>5. ~Sending /\ ~Stored
  BY <1>1, Zenon DEF Sending, Stored
<1>6. Ordered /\ Content
  BY <1>1, <1>2, <1>5, Zenon DEF Ordered, Content
<1>7. Owners(open)
  BY <1>1, Zenon DEF Owners
<1>8. seen \in [Threads -> Nat \ {0}]
  OBVIOUS
<1>9. QED
  BY <1>1, <1>2, <1>3, <1>4, <1>6, <1>7, <1>8, Zenon DEF HalvesInv

\* The clients of the typed channel start in the invariant.
LEMMA TypedInit == T!Init => TypedInv
<1> SUFFICES ASSUME T!Init
             PROVE  TypedInv
  BY Zenon
<1>1. ClientInit /\ handles = {}
  BY Zenon DEF T!Init, T!ClientInit, T!CellInit, T!Threads, ClientInit, CellInit
<1>2. HalvesInv /\ Owners(FALSE) /\ pc["main"] = "scope" /\ pc["sender"] = "done"
  BY <1>1, ClientStart, Zenon
<1>3. (handles # {}) = FALSE
  BY <1>1, Zenon
<1>4. Holders
  BY <1>1, <1>2, Zenon DEF Holders, Held
<1>5. QED
  BY <1>2, <1>3, <1>4, Zenon DEF TypedInv

\* A half is dropped, and with the last one the channel.
LEMMA TypedDrop ==
  ASSUME TypedInv, NEW t \in Threads, T!DropHalf(t), UNCHANGED clientVars
  PROVE  TypedInv'
<1>1. /\ pc[t] = "drop" /\ handles' = handles \ {t}
      /\ UNCHANGED <<message, mo, view>>
      /\ IF handles = {t} THEN DropContent /\ hb' = AfterJoin(hb, t) ELSE UNCHANGED <<taken, hb>>
  BY TypedBridge, Zenon DEF T!DropHalf, T!AfterJoin, AfterJoin
<1>2. PICK l : /\ pc' = [pc EXCEPT ![t] = l]
               /\ t = "main" => l = "join"
               /\ t = "sender" => l \in {"unpark", "done"}
  BY Zenon DEF T!DropHalf, T!AfterDrop, T!Goto
<1>3. HalvesInv /\ Holders /\ Kinds /\ taken \in [1..Rounds -> Nat]
  BY Zenon DEF TypedInv, HalvesInv, Types
<1>4. /\ t \in handles /\ (handles # {}) = TRUE /\ Owners(TRUE)
      /\ handles = {t} => ~Sending /\ pc["main"] # "read"
  <2>1. t \in handles /\ (handles # {}) = TRUE
    BY <1>1, <1>3, Zenon DEF Holders, Held
  <2>2. handles = {t} => ~Sending /\ pc["main"] # "read"
    BY <1>1, <1>3, Zenon DEF Holders, Held, Sending
  <2>3. QED
    BY <2>1, <2>2, Zenon DEF TypedInv
<1>5. /\ taken' \in [1..Rounds -> Nat]
      /\ handles = {t} => \A m \in 1..Rounds : taken'[m] = IF m \in sent THEN 1 ELSE 0
  <2>1. CASE handles = {t}
    BY <1>1, <1>3, <1>4, <2>1, DropSettles, Zenon
  <2>2. QED
    BY <1>1, <1>3, <2>1, Zenon
<1>6. /\ HalvesInv' /\ Ready' = Ready /\ Sending' = Sending
      /\ (pc'["main"] = "read") = (pc["main"] = "read")
  <2>1. CASE t = "main"
    BY <1>1, <1>2, <1>3, <1>5, <2>1, MainQuiet, Zenon
  <2>2. CASE t = "sender"
    <3>1. HalvesInv' /\ Ready' = Ready /\ ~Sending' /\ ~Sending /\ pc'["main"] = pc["main"]
      BY <1>1, <1>2, <1>3, <1>5, <2>2, SenderQuiet, Zenon
    <3>2. QED
      BY <3>1 DEF Sending
  <2>3. QED
    BY <2>1, <2>2, Zenon
<1>7. Holders'
  <2>1. ~Held(t)' /\ \A u \in Threads \ {t} : Held(u)' = Held(u)
    BY <1>2, <1>3, Zenon DEF Held, Kinds
  <2>2. QED
    BY <1>1, <1>3, <2>1, Zenon DEF Holders
<1>8. Owners(handles # {})'
  <2>1. CASE handles = {t}
    <3>1. Owners(FALSE)'
      BY <1>3, <1>4, <1>5, <1>6, <2>1, ClosedOwners, Zenon
    <3>2. (handles' # {}) = FALSE
      BY <1>1, <2>1, Zenon
    <3>3. QED
      BY <3>1, <3>2, Zenon DEF Owners
  <2>2. CASE handles # {t}
    <3>1. Owners(TRUE)'
      BY <1>1, <1>4, <1>6, <2>2, OwnersKept, Zenon
    <3>2. (handles' # {}) = TRUE
      BY <1>1, <1>4, <2>2, Zenon
    <3>3. QED
      BY <3>1, <3>2, Zenon DEF Owners
  <2>3. QED
    BY <2>1, <2>2, Zenon
<1>9. QED
  BY <1>6, <1>7, <1>8, Zenon DEF TypedInv

\* A step that keeps the Arcs, of an open or a closed channel.
LEMMA TypedKeeps ==
  ASSUME TypedInv, UNCHANGED handles, HalvesInv',
         Held("main")' = Held("main"), Held("sender")' = Held("sender"),
         Owners(handles # {})'
  PROVE  TypedInv'
BY Zenon DEF TypedInv, Holders

\* Every step of the channel keeps the invariant.
LEMMA TypedPreserves == TypedInv /\ [T!Next]_(T!vars) => TypedInv'
<1> SUFFICES ASSUME TypedInv, [T!Next]_(T!vars)
             PROVE  TypedInv'
  BY Zenon
<1> DEFINE open == handles # {}
<1>1. HalvesInv /\ Holders /\ Owners(open) /\ open \in BOOLEAN /\ Kinds
  BY Zenon DEF TypedInv, HalvesInv
<1>2. CASE UNCHANGED T!vars
  <2>1. UNCHANGED <<message, mo, seen, view, hb, taken, pc, token, round, sent, handles>>
    BY <1>2, Zenon DEF T!vars, T!cellVars, T!clientVars
  <2>2. Values' = Values /\ Ready' = Ready /\ Raised' = Raised
    BY <2>1, SameReady, Zenon
  <2>3. QED
    BY <2>1, <2>2, Zenon
       DEF TypedInv, HalvesInv, Kinds, Types, Ordered, Content, Sending, Stored,
       Waiting,
         Holders, Held, Owners
<1>3. CASE T!NewHalves
  <2>1. /\ Scope({"is_ready", "swap", "drop"}, {"is_ready"}, "drop") /\ UNCHANGED taken
        /\ handles' = Threads /\ pc["main"] = "scope"
    BY <1>3, Zenon DEF T!NewHalves, T!Scope, Scope, T!NewChannel, NewChannel, T!Threads
  <2>2. handles = {} /\ ~Sending /\ pc["main"] # "read" /\ (handles # {}) = FALSE
    BY <1>1, <2>1, Zenon DEF Holders, Held, Kinds, Sending
  <2>3. /\ taken' \in [1..Rounds -> Nat]
        /\ \A m \in 1..Rounds : taken'[m] = IF m \in sent THEN 1 ELSE 0
    BY <1>1, <2>1, <2>2, DropSettles, Zenon
  <2>4. /\ HalvesInv'
        /\ round' = round + 1
        /\ sent' = sent \/ sent' = sent \cup {round'}
        /\ Sending' <=> round' \in sent'
        /\ pc'["main"] \in {"is_ready", "swap", "drop"}
        /\ pc'["sender"] \in {"write", "drop"}
    BY <1>1, <2>1, <2>3, ScopeStep, Zenon
  <2>5. Owners(TRUE)'
    BY <1>1, <2>3, <2>4, ScopeOwners, Zenon
  <2>6. (handles' # {}) = TRUE
    BY <2>1, Zenon
  <2>7. Owners(handles # {})'
    BY <2>5, <2>6, Zenon DEF Owners
  <2>8. Holders'
    BY <2>1, <2>4, Zenon DEF Holders, Held
  <2>9. QED
    BY <2>4, <2>7, <2>8, Zenon DEF TypedInv
<1>4. CASE (\E t \in Threads : T!DropHalf(t)) /\ UNCHANGED clientVars
  BY <1>4, TypedDrop, Zenon
<1>5. CASE T!SendWrite /\ UNCHANGED <<handles, clientVars>>
  <2>1. /\ HalvesInv' /\ Ready' = Ready /\ Sending' /\ Sending
        /\ pc'["main"] = pc["main"] /\ UNCHANGED taken
    BY <1>1, <1>5, TypedBridge, WriteStep, Zenon
  <2>2. Sending' = Sending
    BY <2>1 DEF Sending
  <2>3. Owners(handles # {})'
    BY <1>1, <1>5, <2>1, <2>2, OwnersKept, Zenon
  <2>4. Held("main")' = Held("main") /\ Held("sender")' = Held("sender")
    BY <2>1 DEF Held, Sending
  <2>5. QED
    BY <1>5, <2>1, <2>3, <2>4, TypedKeeps, Zenon
<1>6. CASE T!SendStore("drop") /\ UNCHANGED <<handles, clientVars>>
  <2>1. /\ HalvesInv' /\ Ready' /\ Sending /\ ~Sending' /\ pc["sender"] = "store"
        /\ pc'["main"] = pc["main"] /\ pc["main"] # "read" /\ UNCHANGED taken
    BY <1>1, <1>6, TypedBridge, StoreStep, Zenon
  <2>2. pc'["sender"] = "drop"
    BY <1>1, <1>6, Zenon DEF T!SendStore, T!Goto, Kinds
  <2>3. handles # {}
    BY <1>1, <2>1, Zenon DEF Holders, Held
  <2>4. Owners(handles # {})'
    BY <1>1, <1>6, <2>1, <2>3, StoreOwners, Zenon
  <2>5. Held("main")' = Held("main") /\ Held("sender")' = Held("sender")
    BY <2>1, <2>2 DEF Held
  <2>6. QED
    BY <1>6, <2>1, <2>4, <2>5, TypedKeeps, Zenon
<1>7. CASE T!UnparkMain /\ UNCHANGED <<handles, clientVars>>
  <2>1. /\ pc["sender"] = "unpark" /\ pc' = [pc EXCEPT !["sender"] = "done"]
        /\ UNCHANGED <<message, mo, view, hb, taken>> /\ taken \in [1..Rounds -> Nat]
    BY <1>1, <1>7, Zenon DEF T!UnparkMain, T!Goto, HalvesInv, Types
  <2>2. /\ HalvesInv' /\ Ready' = Ready /\ ~Sending' /\ ~Sending
        /\ pc'["main"] = pc["main"] /\ pc'["sender"] = "done"
    BY <1>1, <1>7, <2>1, SenderQuiet, Zenon
  <2>3. Sending' = Sending
    BY <2>2 DEF Sending
  <2>4. Owners(handles # {})'
    BY <1>1, <1>7, <2>1, <2>2, <2>3, OwnersKept, Zenon
  <2>5. Held("main")' = Held("main") /\ Held("sender")' = Held("sender")
    BY <2>1, <2>2 DEF Held
  <2>6. QED
    BY <1>7, <2>2, <2>4, <2>5, TypedKeeps, Zenon
<1>8. CASE /\ T!IsReady \/ T!Park("is_ready") \/ T!SpuriousPark("is_ready") \/ T!Join
           /\ UNCHANGED <<handles, clientVars>>
  <2>1. IsReady \/ Park("is_ready") \/ SpuriousPark("is_ready") \/ Join
    BY <1>8, TypedBridge, Zenon
  <2>2. /\ HalvesInv' /\ Ready' = Ready /\ Sending' = Sending
        /\ pc["main"] # "read" /\ pc'["main"] # "read" /\ UNCHANGED taken
        /\ Held("main")' = Held("main") /\ Held("sender")' = Held("sender")
    BY <1>1, <1>8, <2>1, MainWaits, Zenon
  <2>3. Owners(handles # {})'
    BY <1>1, <1>8, <2>2, OwnersKept, Zenon
  <2>4. QED
    BY <1>8, <2>2, <2>3, TypedKeeps, Zenon
<1>9. CASE T!Swap("drop") /\ UNCHANGED <<handles, clientVars>>
  <2>1. /\ HalvesInv' /\ ~Ready'
        /\ pc'["main"] = (IF Ready THEN "read" ELSE "drop") /\ pc["main"] = "swap"
        /\ pc'["sender"] = pc["sender"] /\ UNCHANGED taken
    BY <1>1, <1>9, TypedBridge, SwapStep, Zenon
  <2>2. handles # {}
    BY <1>1, <2>1, Zenon DEF Holders, Held
  <2>3. Owners(handles # {})'
    BY <1>1, <1>9, <2>1, <2>2, SwapOwners, Zenon
  <2>4. Held("main")' = Held("main") /\ Held("sender")' = Held("sender")
    BY <2>1 DEF Held
  <2>5. QED
    BY <1>9, <2>1, <2>3, <2>4, TypedKeeps, Zenon
<1>10. CASE T!Read("drop") /\ UNCHANGED <<handles, clientVars>>
  <2>1. /\ HalvesInv' /\ Ready' = Ready
        /\ ~Sending /\ ~Sending' /\ round \in sent
        /\ pc["main"] = "read" /\ pc'["main"] = "drop" /\ pc'["sender"] = pc["sender"]
        /\ \A m \in 1..Rounds : taken'[m] = IF m = round THEN taken[m] + 1 ELSE taken[m]
    BY <1>1, <1>10, TypedBridge, ReadStep, Zenon
  <2>2. Owners(handles # {})'
    BY <1>1, <1>10, <2>1, ReadOwners, Zenon
  <2>3. Held("main")' = Held("main") /\ Held("sender")' = Held("sender")
    BY <2>1 DEF Held
  <2>4. QED
    BY <1>10, <2>1, <2>2, <2>3, TypedKeeps, Zenon
<1>11. CASE T!End /\ UNCHANGED <<handles, clientVars>>
  <2>1. /\ pc["main"] = "scope" /\ pc' = [pc EXCEPT !["main"] = "done"]
        /\ UNCHANGED <<message, mo, view, hb, taken>> /\ taken \in [1..Rounds -> Nat]
    BY <1>1, <1>11, Zenon DEF T!End, T!Goto, HalvesInv, Types
  <2>2. /\ HalvesInv' /\ Ready' = Ready /\ Sending' = Sending
        /\ pc'["main"] = "done" /\ pc'["sender"] = pc["sender"]
    BY <1>1, <1>11, <2>1, MainQuiet, Zenon
  <2>3. Owners(handles # {})'
    BY <1>1, <1>11, <2>1, <2>2, OwnersKept, Zenon
  <2>4. Held("main")' = Held("main") /\ Held("sender")' = Held("sender")
    BY <2>1, <2>2 DEF Held
  <2>5. QED
    BY <1>11, <2>2, <2>3, <2>4, TypedKeeps, Zenon
<1>12. QED
  BY <1>2, <1>3, <1>4, <1>5, <1>6, <1>7, <1>8, <1>9, <1>10, <1>11, Zenon
     DEF T!Next, T!SenderStep, T!ReceiverStep, T!Terminated, T!clientVars

\* The channel of 05-04 keeps the invariant, whatever its halves do.
THEOREM TypedInvariance == T!Spec => []TypedInv
BY TypedInit, TypedPreserves, PTL DEF T!Spec

\* The invariant gives the three properties.
LEMMA TypedSafe == TypedInv => NoDataRace /\ ReceivesMessage /\ TakenOnce
<1> SUFFICES ASSUME TypedInv
             PROVE  NoDataRace /\ ReceivesMessage /\ TakenOnce
  BY Zenon
<1>1. HalvesInv /\ Owners(handles # {}) /\ (handles # {}) \in BOOLEAN
  BY Zenon DEF TypedInv
<1>2. Finished => ~(handles # {})
  BY Zenon DEF TypedInv, HalvesInv, Kinds, Finished, Holders, Held
<1>3. QED
  BY <1>1, <1>2, HalvesSafe, OwnersSafe, Zenon

\* The accesses to the cell of 05-04_safety-with-types.rs are ordered, receive()
\* returns the message of its round, and every message has one owner in the
\* end, whichever half is dropped last.
THEOREM TypedIsSafe == T!Spec => []NoDataRace /\ []ReceivesMessage /\ []TakenOnce
BY TypedInvariance, TypedSafe, PTL

-----------------------------------------------------------------------------
(***************************************************************************)
(* The channels of 05-05 and 05-06, which main() keeps to its end.         *)
(***************************************************************************)

\* The statements of the instance are those of OneShotHalves.
LEMMA SplitBridge ==
  /\ S!SendWrite => SendWrite
  /\ S!SendStore("unpark") => SendStore("unpark")
  /\ S!UnparkMain => UnparkMain
  /\ S!IsReady => IsReady
  /\ S!Park("is_ready") => Park("is_ready")
  /\ S!Park("swap") => Park("swap")
  /\ S!SpuriousPark("is_ready") => SpuriousPark("is_ready")
  /\ S!SpuriousPark("swap") => SpuriousPark("swap")
  /\ S!Swap("join") => Swap("join")
  /\ S!Swap("park") => Swap("park")
  /\ S!Read("join") => Read("join")
  /\ S!Join => Join
  /\ S!DropContent => DropContent
<1>1. S!SendWrite => SendWrite
  BY Zenon DEF SendWrite, S!SendWrite, WriteMessage, S!WriteMessage, Access, S!Access,
       AfterAccess, S!AfterAccess, ViewAfterAccess, S!ViewAfterAccess, S!Goto,
       S!cellVars
<1>2. S!SendStore("unpark") => SendStore("unpark")
  BY Zenon
     DEF SendStore, S!SendStore, Store, S!Store, Current, S!Current, ReleaseStoreView,
       S!ReleaseStoreView, S!Goto, S!cellVars
<1>3. S!UnparkMain => UnparkMain
  BY Zenon
     DEF UnparkMain, S!UnparkMain, Unpark, S!Unpark, Max, S!Max, S!Goto, S!cellVars
<1>4. S!IsReady => IsReady
  BY Zenon
     DEF IsReady, S!IsReady, Loadable, S!Loadable, LoadAt, S!LoadAt, S!Goto, S!cellVars
<1>5. S!Park("is_ready") => Park("is_ready")
  BY Zenon DEF Park, S!Park, ParkReturns, S!ParkReturns, Max, S!Max, S!Goto, S!cellVars
<1>6. S!Park("swap") => Park("swap")
  BY Zenon DEF Park, S!Park, ParkReturns, S!ParkReturns, Max, S!Max, S!Goto, S!cellVars
<1>7. S!SpuriousPark("is_ready") => SpuriousPark("is_ready")
  BY Zenon DEF SpuriousPark, S!SpuriousPark, SpuriousReturn, S!SpuriousReturn, S!Goto,
       S!cellVars
<1>8. S!SpuriousPark("swap") => SpuriousPark("swap")
  BY Zenon DEF SpuriousPark, S!SpuriousPark, SpuriousReturn, S!SpuriousReturn, S!Goto,
       S!cellVars
<1>9. S!Swap("join") => Swap("join")
  BY Zenon
     DEF Swap, S!Swap, Store, S!Store, Current, S!Current, AfterAcquire, S!AfterAcquire,
       S!Goto, S!cellVars
<1>10. S!Swap("park") => Swap("park")
  BY Zenon
     DEF Swap, S!Swap, Store, S!Store, Current, S!Current, AfterAcquire, S!AfterAcquire,
       S!Goto, S!cellVars
<1>11. S!Read("join") => Read("join")
  BY Zenon DEF Read, S!Read, TakeMessage, S!TakeMessage, Access, S!Access, AfterAccess,
       S!AfterAccess, ViewAfterAccess, S!ViewAfterAccess, Take, S!Take, S!Goto,
       S!cellVars
<1>12. S!Join => Join
  BY Zenon DEF Join, S!Join, AfterJoin, S!AfterJoin, S!Goto, S!cellVars
<1>13. S!DropContent => DropContent
  BY Zenon DEF DropContent, S!DropContent, Current, S!Current, Take, S!Take, S!Goto,
       S!cellVars
<1>14. QED
  BY <1>1, <1>2, <1>3, <1>4, <1>5, <1>6, <1>7, <1>8, <1>9, <1>10, <1>11, <1>12, <1>13,
     Zenon

\* The clients of the borrowing channels start in the invariant.
LEMMA SplitInit == S!ClientInit => SplitInv
<1> SUFFICES ASSUME S!ClientInit
             PROVE  SplitInv
  BY Zenon
<1>1. ClientInit
  BY Zenon DEF S!ClientInit, S!CellInit, S!Threads, ClientInit, CellInit
<1>2. HalvesInv /\ Owners(TRUE) /\ pc["main"] = "scope"
  BY <1>1, ClientStart, Zenon
<1>3. (~Finished) = TRUE
  BY <1>2, Zenon DEF Finished
<1>4. QED
  BY <1>2, <1>3, Zenon DEF SplitInv

\* A step after which main() has not ended.
LEMMA SplitKeeps ==
  ASSUME HalvesInv', Owners(TRUE)', pc'["main"] # "done"
  PROVE  SplitInv'
<1>1. (~Finished') = TRUE
  BY Zenon DEF Finished
<1>2. QED
  BY <1>1, Zenon DEF SplitInv, Owners

\* split() drops what the channel holds and makes it new.
LEMMA SplitScope ==
  ASSUME SplitInv, NEW starts, starts \subseteq {"is_ready", "swap", "join"}, NEW waits,
         S!Split(starts, waits)
  PROVE  SplitInv'
<1>1. Scope(starts, waits, "done") /\ DropContent /\ pc["main"] = "scope"
  BY SplitBridge, Zenon DEF S!Split, S!Scope, Scope, S!NewChannel, NewChannel, S!Threads
<1>2. HalvesInv /\ Owners(TRUE) /\ ~Sending /\ pc["main"] # "read"
  <2>1. (~Finished) = TRUE
    BY <1>1, Zenon DEF Finished
  <2>2. QED
    BY <1>1, <2>1, Zenon DEF SplitInv, HalvesInv, Kinds, Sending
<1>3. /\ taken' \in [1..Rounds -> Nat]
      /\ \A m \in 1..Rounds : taken'[m] = IF m \in sent THEN 1 ELSE 0
  BY <1>1, <1>2, DropSettles, Zenon
<1>4. /\ HalvesInv'
      /\ round' = round + 1
      /\ sent' = sent \/ sent' = sent \cup {round'}
      /\ Sending' <=> round' \in sent'
      /\ pc'["main"] \in {"is_ready", "swap", "join"}
  BY <1>1, <1>2, <1>3, ScopeStep, Zenon
<1>5. Owners(TRUE)'
  BY <1>2, <1>3, <1>4, ScopeOwners, Zenon
<1>6. QED
  BY <1>4, <1>5, SplitKeeps, Zenon

\* The end of main() drops the channel.
LEMMA SplitEnds ==
  ASSUME SplitInv, S!DropChannel, UNCHANGED clientVars
  PROVE  SplitInv'
<1>1. /\ DropContent /\ pc["main"] = "scope" /\ pc' = [pc EXCEPT !["main"] = "done"]
      /\ UNCHANGED <<message, mo, view, hb>>
  BY SplitBridge, Zenon DEF S!DropChannel, S!Goto
<1>2. HalvesInv /\ Owners(TRUE) /\ ~Sending /\ pc["main"] # "read"
  <2>1. (~Finished) = TRUE
    BY <1>1, Zenon DEF Finished
  <2>2. QED
    BY <1>1, <2>1, Zenon DEF SplitInv, HalvesInv, Kinds, Sending
<1>3. /\ taken' \in [1..Rounds -> Nat]
      /\ \A m \in 1..Rounds : taken'[m] = IF m \in sent THEN 1 ELSE 0
  BY <1>1, <1>2, DropSettles, Zenon
<1>4. HalvesInv' /\ Sending' = Sending /\ pc'["main"] = "done"
  BY <1>1, <1>2, <1>3, MainQuiet, Zenon
<1>5. Owners(FALSE)'
  BY <1>2, <1>3, <1>4, ClosedOwners, Zenon
<1>6. (~Finished') = FALSE
  BY <1>4, Zenon DEF Finished
<1>7. QED
  BY <1>4, <1>5, <1>6, Zenon DEF SplitInv, Owners

\* The sending thread.
LEMMA SplitSender ==
  ASSUME SplitInv, S!SenderStep
  PROVE  SplitInv'
<1>1. HalvesInv /\ Kinds /\ UNCHANGED clientVars /\ taken \in [1..Rounds -> Nat]
  BY Zenon DEF SplitInv, HalvesInv, S!SenderStep, S!clientVars, Types
<1>2. pc["sender"] \in {"write", "store", "unpark"}
  BY Zenon DEF S!SenderStep, S!SendWrite, S!SendStore, S!UnparkMain
<1>3. Owners(TRUE) /\ pc["main"] # "done"
  <2>1. (~Finished) = TRUE
    BY <1>1, <1>2, Zenon DEF Kinds, Finished
  <2>2. QED
    BY <2>1, Zenon DEF SplitInv, Finished
<1>4. CASE S!SendWrite
  <2>1. /\ HalvesInv' /\ Ready' = Ready /\ Sending' /\ Sending
        /\ pc'["main"] = pc["main"] /\ UNCHANGED taken
    BY <1>1, <1>4, SplitBridge, WriteStep, Zenon
  <2>2. Sending' = Sending
    BY <2>1 DEF Sending
  <2>3. Owners(TRUE)'
    BY <1>1, <1>3, <2>1, <2>2, OwnersKept, Zenon
  <2>4. QED
    BY <1>3, <2>1, <2>3, SplitKeeps, Zenon
<1>5. CASE S!SendStore("unpark")
  <2>1. /\ HalvesInv' /\ Ready' /\ Sending /\ ~Sending'
        /\ pc'["main"] = pc["main"] /\ pc["main"] # "read" /\ UNCHANGED taken
    BY <1>1, <1>5, SplitBridge, StoreStep, Zenon
  <2>2. Owners(TRUE)'
    BY <1>1, <1>3, <2>1, StoreOwners, Zenon
  <2>3. QED
    BY <1>3, <2>1, <2>2, SplitKeeps, Zenon
<1>6. CASE S!UnparkMain
  <2>1. /\ pc["sender"] = "unpark" /\ pc' = [pc EXCEPT !["sender"] = "done"]
        /\ UNCHANGED <<message, mo, view, hb, taken>>
    BY <1>6, Zenon DEF S!UnparkMain, S!Goto
  <2>2. /\ HalvesInv' /\ Ready' = Ready /\ ~Sending' /\ ~Sending
        /\ pc'["main"] = pc["main"]
    BY <1>1, <2>1, SenderQuiet, Zenon
  <2>3. Sending' = Sending
    BY <2>2 DEF Sending
  <2>4. Owners(TRUE)'
    BY <1>1, <1>3, <2>1, <2>2, <2>3, OwnersKept, Zenon
  <2>5. QED
    BY <1>3, <2>2, <2>4, SplitKeeps, Zenon
<1>7. QED
  BY <1>4, <1>5, <1>6, Zenon DEF S!SenderStep

\* main() in receive() or around it.
LEMMA SplitMain ==
  ASSUME SplitInv, UNCHANGED clientVars, NEW l \in {"is_ready", "swap"}, NEW empty \in {"join", "park"},
         IsReady \/ Park(l) \/ SpuriousPark(l) \/ Join \/ Swap(empty) \/ Read("join")
  PROVE  SplitInv'
<1>1. pc["main"] # "done" /\ HalvesInv /\ Owners(TRUE)
  <2>1. (~Finished) = TRUE /\ pc["main"] # "done"
    BY Zenon DEF IsReady, Park, SpuriousPark, Join, Swap, Read, Finished
  <2>2. QED
    BY <2>1, Zenon DEF SplitInv
<1>2. CASE IsReady \/ Park(l) \/ SpuriousPark(l) \/ Join
  <2>1. /\ HalvesInv' /\ Ready' = Ready /\ Sending' = Sending
        /\ pc["main"] # "read" /\ pc'["main"] # "read" /\ UNCHANGED taken
        /\ pc'["main"] # "done"
    BY <1>1, <1>2, MainWaits, Zenon
  <2>2. Owners(TRUE)'
    BY <1>1, <2>1, OwnersKept, Zenon
  <2>3. QED
    BY <2>1, <2>2, SplitKeeps, Zenon
<1>3. CASE Swap(empty)
  <2>1. /\ HalvesInv' /\ ~Ready'
        /\ pc'["main"] = (IF Ready THEN "read" ELSE empty) /\ pc["main"] = "swap"
        /\ pc'["sender"] = pc["sender"] /\ UNCHANGED taken
    BY <1>1, <1>3, SwapStep, Zenon
  <2>2. Owners(TRUE)'
    BY <1>1, <2>1, SwapOwners, Zenon
  <2>3. QED
    BY <2>1, <2>2, SplitKeeps, Zenon
<1>4. CASE Read("join")
  <2>1. /\ HalvesInv' /\ Ready' = Ready
        /\ ~Sending /\ ~Sending' /\ round \in sent
        /\ pc["main"] = "read" /\ pc'["main"] = "join"
        /\ \A m \in 1..Rounds : taken'[m] = IF m = round THEN taken[m] + 1 ELSE taken[m]
    BY <1>1, <1>4, ReadStep, Zenon
  <2>2. Owners(TRUE)'
    BY <1>1, <2>1, ReadOwners, Zenon
  <2>3. QED
    BY <2>1, <2>2, SplitKeeps, Zenon
<1>5. QED
  BY <1>2, <1>3, <1>4, Zenon

\* Every step of either channel keeps the invariant.
LEMMA SplitPreserves == SplitInv /\ [S!PollNext \/ S!BlockNext]_(S!vars) => SplitInv'
<1> SUFFICES ASSUME SplitInv, [S!PollNext \/ S!BlockNext]_(S!vars)
             PROVE  SplitInv'
  BY Zenon
<1>1. CASE UNCHANGED S!vars
  <2>1. UNCHANGED <<message, mo, seen, view, hb, taken, pc, token, round, sent>>
    BY <1>1, Zenon DEF S!vars, S!cellVars, S!clientVars
  <2>2. Values' = Values /\ Ready' = Ready /\ Raised' = Raised
    BY <2>1, SameReady, Zenon
  <2>3. HalvesInv' /\ Sending' = Sending /\ Finished' = Finished
    BY <2>1, <2>2, Zenon
       DEF SplitInv, HalvesInv, Kinds, Types, Ordered, Content, Sending, Stored,
       Waiting,
         Finished
  <2>4. QED
    BY <2>1, <2>2, <2>3, Zenon DEF SplitInv, Owners
<1>2. CASE S!SenderStep
  BY <1>2, SplitSender, Zenon
<1>3. CASE \/ S!Split({"is_ready", "swap", "join"}, {"is_ready"})
           \/ S!Split({"swap", "join"}, {"swap"})
  BY <1>3, SplitScope, Zenon
<1>4. CASE S!DropChannel /\ UNCHANGED clientVars
  BY <1>4, SplitEnds, Zenon
<1>5. CASE /\ \/ S!IsReady \/ S!Park("is_ready") \/ S!SpuriousPark("is_ready")
              \/ S!Swap("join") \/ S!Read("join") \/ S!Join
           /\ UNCHANGED clientVars
  <2>1. \/ IsReady \/ Park("is_ready") \/ SpuriousPark("is_ready") \/ Join
        \/ Swap("join") \/ Read("join")
    BY <1>5, SplitBridge, Zenon
  <2>2. QED
    BY <1>5, <2>1, SplitMain, Zenon
<1>6. CASE /\ S!Park("swap") \/ S!SpuriousPark("swap") \/ S!Swap("park")
           /\ UNCHANGED clientVars
  <2>1. Park("swap") \/ SpuriousPark("swap") \/ Swap("park")
    BY <1>6, SplitBridge, Zenon
  <2>2. QED
    BY <1>6, <2>1, SplitMain, Zenon
<1>7. QED
  BY <1>1, <1>2, <1>3, <1>4, <1>5, <1>6, Zenon
     DEF S!PollNext, S!BlockNext, S!PollStep, S!BlockStep, S!Terminated, S!clientVars

\* The channels of 05-05 and 05-06 keep the invariant.
THEOREM SplitInvariance == (S!PollSpec => []SplitInv) /\ (S!BlockSpec => []SplitInv)
<1>1. S!PollSpec => []SplitInv
  <2>1. SplitInv /\ [S!PollNext]_(S!vars) => SplitInv'
    BY SplitPreserves, Zenon
  <2>2. QED
    BY <2>1, SplitInit, PTL DEF S!PollSpec
<1>2. S!BlockSpec => []SplitInv
  <2>1. SplitInv /\ [S!BlockNext]_(S!vars) => SplitInv'
    BY SplitPreserves, Zenon
  <2>2. QED
    BY <2>1, SplitInit, PTL DEF S!BlockSpec
<1>3. QED
  BY <1>1, <1>2, Zenon

\* The invariant gives the three properties.
LEMMA SplitSafe == SplitInv => NoDataRace /\ ReceivesMessage /\ TakenOnce
<1> SUFFICES ASSUME SplitInv
             PROVE  NoDataRace /\ ReceivesMessage /\ TakenOnce
  BY Zenon
<1>1. HalvesInv /\ Owners(~Finished) /\ (~Finished) \in BOOLEAN
  BY Zenon DEF SplitInv
<1>2. QED
  BY <1>1, HalvesSafe, OwnersSafe, Zenon

\* In 05-05_avoiding-memory-allocation-by-using-borrowing.rs the accesses to the
\* cell are ordered and every message has one owner in the end, although
\* split() makes the channel new again and again.
THEOREM PollIsSafe == S!PollSpec => []NoDataRace /\ []ReceivesMessage /\ []TakenOnce
BY SplitInvariance, SplitSafe, PTL

\* The same for the receive() of 05-06_blocking.rs, which parks by itself.
THEOREM BlockIsSafe == S!BlockSpec => []NoDataRace /\ []ReceivesMessage /\ []TakenOnce
BY SplitInvariance, SplitSafe, PTL

-----------------------------------------------------------------------------
(***************************************************************************)
(* The channel of 05-02 under its contract.                                *)
(***************************************************************************)

\* The statements of the instance are those of OneShotHalves.
LEMMA UnsafeBridge ==
  /\ U!SendWrite => SendWrite
  /\ U!SendStore("drop") => SendStore("drop")
  /\ U!Read("drop") => Read("drop")
  /\ U!Join => Join
  /\ U!DropContent => DropContent
<1>1. U!SendWrite => SendWrite
  BY Zenon DEF SendWrite, U!SendWrite, WriteMessage, U!WriteMessage, Access, U!Access,
       AfterAccess, U!AfterAccess, ViewAfterAccess, U!ViewAfterAccess, U!Goto,
       U!cellVars
<1>2. U!SendStore("drop") => SendStore("drop")
  BY Zenon
     DEF SendStore, U!SendStore, Store, U!Store, Current, U!Current, ReleaseStoreView,
       U!ReleaseStoreView, U!Goto, U!cellVars
<1>3. U!Read("drop") => Read("drop")
  BY Zenon DEF Read, U!Read, TakeMessage, U!TakeMessage, Access, U!Access, AfterAccess,
       U!AfterAccess, ViewAfterAccess, U!ViewAfterAccess, Take, U!Take, U!Goto,
       U!cellVars
<1>4. U!Join => Join
  BY Zenon DEF Join, U!Join, AfterJoin, U!AfterJoin, U!Goto, U!cellVars
<1>5. U!DropContent => DropContent
  BY Zenon DEF DropContent, U!DropContent, Current, U!Current, Take, U!Take, U!Goto,
       U!cellVars
<1>6. QED
  BY <1>1, <1>2, <1>3, <1>4, <1>5

\* The client of the unsafe channel starts in the invariant.
LEMMA UnsafeInit == U!Init => UnsafeInv
<1> SUFFICES ASSUME U!Init
             PROVE  UnsafeInv
  BY Zenon
<1>1. ClientInit /\ handles = {}
  BY Zenon DEF U!Init, U!ClientInit, U!CellInit, U!Threads, ClientInit, CellInit
<1>2. /\ ~Raised /\ HalvesInv /\ pc["main"] = "scope" /\ pc["sender"] = "done"
      /\ seen \in [Threads -> Nat \ {0}]
      /\ \A m \in 1..Rounds : taken[m] = 0
  BY <1>1, ClientStart, Zenon
<1>3. Holders
  BY <1>1, <1>2, Zenon DEF Holders, Held
<1>4. QED
  BY <1>2, <1>3, Zenon DEF UnsafeInv, Untaken

\* is_ready() is an Acquire load: a true one lets main() read the message.
LEMMA UnsafeIsReady ==
  ASSUME UnsafeInv, U!IsReadyAcquire, UNCHANGED clientVars
  PROVE  /\ HalvesInv' /\ seen' \in [Threads -> Nat \ {0}]
         /\ pc["main"] = "is_ready" /\ pc'["main"] \in {"is_ready", "read"}
         /\ pc'["sender"] = pc["sender"] /\ UNCHANGED taken
<1>1. PICK i \in U!Loadable("main") :
        /\ seen' = [seen EXCEPT !["main"] = i]
        /\ hb' = IF mo[i] THEN AfterAcquire(hb, "main", view) ELSE hb
        /\ pc' = [pc EXCEPT !["main"] = IF mo[i] THEN "read" ELSE "is_ready"]
  BY Zenon DEF U!IsReadyAcquire, U!LoadAt, U!Goto, U!AfterAcquire, AfterAcquire
<1>2. /\ pc["main"] = "is_ready" /\ UNCHANGED <<message, mo, view, taken>>
      /\ HalvesInv /\ seen \in [Threads -> Nat \ {0}] /\ Values
  BY Zenon DEF U!IsReadyAcquire, UnsafeInv, HalvesInv, Types
<1>3. i \in 1..Len(mo) /\ i \in Nat \ {0}
  <2>1. seen["main"] \in Nat \ {0} /\ Len(mo) \in Nat
    BY <1>2 DEF Values
  <2>2. QED
    BY <2>1 DEF U!Loadable
<1>4. seen' \in [Threads -> Nat \ {0}]
  BY <1>1, <1>2, <1>3, Zenon
<1>5. \/ pc' = [pc EXCEPT !["main"] = "is_ready"] /\ hb' = hb
      \/ pc' = [pc EXCEPT !["main"] = "read"] /\ hb' = AfterAcquire(hb, "main", view) /\ mo[i] = TRUE
  <2>1. mo[i] \in BOOLEAN
    <3>1. \A V : mo \in Seq(V) => mo[i] \in V
      BY <1>3
    <3>2. QED
      BY <1>2, <3>1, Zenon DEF Values
  <2>2. QED
    BY <1>1, <2>1, Zenon
<1>6. CASE pc' = [pc EXCEPT !["main"] = "is_ready"] /\ hb' = hb
  <2>1. pc'["main"] = "is_ready" /\ pc'["sender"] = pc["sender"]
    BY <1>2, <1>6, Zenon DEF HalvesInv, Kinds
  <2>2. taken \in [1..Rounds -> Nat]
    BY <1>2, Zenon DEF HalvesInv, Types
  <2>3. HalvesInv'
    BY <1>2, <1>6, <2>2, MainQuiet, Zenon
  <2>4. QED
    BY <1>2, <1>4, <2>1, <2>3, Zenon
<1>7. CASE pc' = [pc EXCEPT !["main"] = "read"] /\ hb' = AfterAcquire(hb, "main", view) /\ mo[i] = TRUE
  <2> USE DEF HalvesInv
  <2>1. pc'["main"] = "read" /\ pc'["sender"] = pc["sender"] /\ Kinds'
    BY <1>2, <1>7, Zenon DEF Kinds
  <2>2. Sending' = Sending /\ Stored' = Stored
    BY <2>1, Zenon DEF Sending, Stored
  <2>3. Values' = Values /\ Ready' = Ready /\ Raised' = Raised
    BY <1>2, SameReady, Zenon
  <2>4. Raised
    BY <1>3, <1>7, Zenon DEF Raised
  <2>5. Stored /\ view = Threads
    BY <1>2, <2>4, Zenon DEF UnsafeInv, Ordered, Waiting
  <2>6. /\ hb' \in [Threads -> SUBSET Threads]
        /\ hb'["sender"] = hb["sender"] /\ hb'["main"] = Threads
    BY <1>2, <1>7, <2>5, Zenon DEF Types, AfterAcquire
  <2>7. Types'
    BY <1>2, <2>3, <2>6, Zenon DEF Types
  <2>8. Ordered' /\ Content'
    BY <1>2, <2>1, <2>2, <2>3, <2>5, <2>6 DEF Ordered, Content
  <2>9. QED
    BY <1>2, <1>4, <2>1, <2>7, <2>8
<1>8. QED
  BY <1>5, <1>6, <1>7, Zenon

\* A thread drops its Arc, and the last one the channel, even after the read.
LEMMA UnsafeDrop ==
  ASSUME UnsafeInv, NEW t \in Threads, U!DropArc(t), UNCHANGED clientVars
  PROVE  UnsafeInv'
<1>1. /\ pc[t] = "drop" /\ handles' = handles \ {t}
      /\ UNCHANGED <<message, mo, seen, view>>
      /\ pc' = [pc EXCEPT ![t] = IF t = "main" THEN "join" ELSE "done"]
      /\ IF handles = {t} THEN DropContent /\ hb' = AfterJoin(hb, t) ELSE UNCHANGED <<taken, hb>>
  BY UnsafeBridge, Zenon DEF U!DropArc, U!AfterJoin, AfterJoin, U!Goto
<1>2. HalvesInv /\ Holders /\ Kinds /\ Untaken /\ taken \in [1..Rounds -> Nat]
  BY Zenon DEF UnsafeInv, HalvesInv, Types
<1>3. /\ taken' \in [1..Rounds -> Nat]
      /\ \A m \in 1..Rounds : taken'[m] = taken[m] \/ (m = round /\ handles = {t})
  <2>1. CASE UNCHANGED taken
    BY <1>2, <2>1, Zenon
  <2>2. CASE ~UNCHANGED taken
    <3>1. handles = {t} /\ Take(message) /\ Ready
      <4>1. Current \in BOOLEAN
        BY <1>2, ReadyRaised, Zenon DEF HalvesInv, Types
      <4>2. handles = {t} /\ DropContent
        BY <1>1, <2>2, Zenon
      <4>3. QED
        BY <2>2, <4>1, <4>2, Zenon DEF DropContent, Ready
    <3>2. message = round
      BY <1>2, <3>1, ReadyRaised, Zenon DEF HalvesInv, Ordered, Types, Content
    <3>3. QED
      BY <1>2, <3>1, <3>2 DEF Take
  <2>3. QED
    BY <2>1, <2>2, Zenon
<1>4. HalvesInv'
  <2>1. CASE t = "main"
    BY <1>1, <1>2, <1>3, <2>1, MainQuiet, Zenon
  <2>2. CASE t = "sender"
    BY <1>1, <1>2, <1>3, <2>2, SenderQuiet
  <2>3. QED
    BY <2>1, <2>2, Zenon
<1>5. Holders'
  <2>1. ~Held(t)' /\ \A u \in Threads \ {t} : Held(u)' = Held(u)
    BY <1>1, <1>2, Zenon DEF Held, Kinds
  <2>2. QED
    BY <1>1, <1>2, <2>1, Zenon DEF Holders
<1>6. Untaken'
  <2>1. handles = {t} => pc'["main"] \notin {"is_ready", "read"}
    BY <1>1, <1>2, Zenon DEF Holders, Held, Kinds
  <2>2. pc'["main"] \in {"is_ready", "read"} => pc["main"] \in {"is_ready", "read"}
    BY <1>1, <1>2, Zenon DEF Kinds
  <2>3. round \in Nat /\ ~(round > round)
    BY <1>2 DEF HalvesInv, Types
  <2>4. QED
    BY <1>2, <1>3, <2>1, <2>2, <2>3, Zenon DEF Untaken
<1>7. Raised' = Raised /\ Ready' = Ready
  BY <1>1, SameReady, Zenon
<1>8. QED
  BY <1>1, <1>4, <1>5, <1>6, <1>7, Zenon DEF UnsafeInv

\* Every step of the channel keeps the invariant.
LEMMA UnsafePreserves == UnsafeInv /\ [U!Next]_(U!vars) => UnsafeInv'
<1> SUFFICES ASSUME UnsafeInv, [U!Next]_(U!vars)
             PROVE  UnsafeInv'
  BY Zenon
<1>1. /\ HalvesInv /\ Holders /\ Kinds /\ Untaken /\ taken \in [1..Rounds -> Nat]
      /\ round \in Nat
  BY DEF UnsafeInv, HalvesInv, Types
<1>2. CASE UNCHANGED U!vars
  <2>1. UNCHANGED <<message, mo, seen, view, hb, taken, pc, token, round, sent, handles>>
    BY <1>2, Zenon DEF U!vars, U!cellVars, U!clientVars
  <2>2. Values' = Values /\ Ready' = Ready /\ Raised' = Raised
    BY <2>1, SameReady, Zenon
  <2>3. HalvesInv'
    BY <2>1, <2>2, Zenon
       DEF UnsafeInv, HalvesInv, Kinds, Types, Ordered, Content, Sending, Stored,
       Waiting
  <2>4. QED
    BY <2>1, <2>2, <2>3, Zenon DEF UnsafeInv, Holders, Held, Untaken
<1>3. CASE U!NewArcs
  <2>1. /\ Scope({"is_ready", "drop"}, {"is_ready"}, "drop") /\ UNCHANGED taken
        /\ handles' = Threads
    BY <1>3, Zenon DEF U!NewArcs, U!Scope, Scope, U!NewChannel, NewChannel, U!Threads
  <2>2. /\ HalvesInv' /\ ~Raised'
        /\ round' = round + 1
        /\ pc'["main"] \in {"is_ready", "drop"}
        /\ pc'["sender"] \in {"write", "drop"}
        /\ seen' \in [Threads -> Nat \ {0}]
    BY <1>1, <2>1, ScopeStep, Zenon
  <2>3. Untaken'
    BY <1>1, <2>1, <2>2 DEF Untaken
  <2>4. Holders'
    BY <2>1, <2>2, Zenon DEF Holders, Held
  <2>5. QED
    BY <2>2, <2>3, <2>4, Zenon DEF UnsafeInv
<1>4. CASE (\E t \in Threads : U!DropArc(t)) /\ UNCHANGED clientVars
  BY <1>4, UnsafeDrop, Zenon
<1>5. CASE U!SendWrite /\ UNCHANGED <<handles, clientVars>>
  <2>1. /\ HalvesInv' /\ Sending' /\ Sending
        /\ pc'["main"] = pc["main"] /\ UNCHANGED <<taken, seen>>
    BY <1>1, <1>5, UnsafeBridge, WriteStep, Zenon
  <2>2. Raised' = Raised /\ Ready' = Ready
    BY <1>5, SameReady, Zenon DEF U!SendWrite
  <2>3. Holders'
    BY <1>1, <1>5, <2>1, Zenon DEF Holders, Held, Sending
  <2>4. Untaken'
    BY <1>1, <1>5, <2>1, Zenon DEF Untaken
  <2>5. QED
    BY <2>1, <2>2, <2>3, <2>4, Zenon DEF UnsafeInv
<1>6. CASE U!SendStore("drop") /\ UNCHANGED <<handles, clientVars>>
  <2>1. /\ HalvesInv' /\ Ready' /\ pc["sender"] = "store"
        /\ pc'["main"] = pc["main"] /\ UNCHANGED taken
    BY <1>1, <1>6, UnsafeBridge, StoreStep, Zenon
  <2>2. pc'["sender"] = "drop"
    BY <1>1, <1>6, Zenon DEF U!SendStore, U!Goto, Kinds
  <2>3. seen' \in [Threads -> Nat \ {0}]
    <3>1. seen' = [seen EXCEPT !["sender"] = Len(mo')]
      BY <1>6, UnsafeBridge, Zenon DEF SendStore, Store
    <3>2. Len(mo') \in Nat \ {0}
      BY <2>1 DEF HalvesInv, Types, Values
    <3>3. QED
      BY <3>1, <3>2, Zenon DEF UnsafeInv
  <2>4. Holders'
    BY <1>1, <1>6, <2>1, <2>2, Zenon DEF Holders, Held
  <2>5. Untaken'
    BY <1>1, <1>6, <2>1, Zenon DEF Untaken
  <2>6. QED
    BY <2>1, <2>3, <2>4, <2>5, Zenon DEF UnsafeInv
<1>7. CASE U!IsReadyAcquire /\ UNCHANGED <<handles, clientVars>>
  <2>1. /\ HalvesInv' /\ seen' \in [Threads -> Nat \ {0}]
        /\ pc["main"] = "is_ready" /\ pc'["main"] \in {"is_ready", "read"}
        /\ pc'["sender"] = pc["sender"] /\ UNCHANGED taken
    BY <1>7, UnsafeIsReady, Zenon
  <2>2. Raised' = Raised /\ Ready' = Ready
    BY <1>7, SameReady, Zenon DEF U!IsReadyAcquire
  <2>3. Holders'
    BY <1>1, <1>7, <2>1, Zenon DEF Holders, Held
  <2>4. Untaken'
    BY <1>1, <1>7, <2>1, Zenon DEF Untaken
  <2>5. QED
    BY <2>1, <2>2, <2>3, <2>4, Zenon DEF UnsafeInv
<1>8. CASE U!Read("drop") /\ UNCHANGED <<handles, clientVars>>
  <2>1. /\ HalvesInv'
        /\ pc["main"] = "read" /\ pc'["main"] = "drop" /\ pc'["sender"] = pc["sender"]
        /\ \A m \in 1..Rounds : taken'[m] = IF m = round THEN taken[m] + 1 ELSE taken[m]
        /\ UNCHANGED seen
    BY <1>1, <1>8, UnsafeBridge, ReadStep, Zenon
  <2>2. Raised' = Raised /\ Ready' = Ready
    BY <1>8, SameReady, Zenon DEF U!Read
  <2>3. Holders'
    BY <1>1, <1>8, <2>1, Zenon DEF Holders, Held
  <2>4. Untaken'
    BY <1>1, <1>8, <2>1 DEF Untaken
  <2>5. QED
    BY <2>1, <2>2, <2>3, <2>4, Zenon DEF UnsafeInv
<1>9. CASE (U!Join \/ U!End) /\ UNCHANGED <<handles, clientVars>>
  <2>1. PICK l \in {"scope", "done"} :
          /\ pc' = [pc EXCEPT !["main"] = l]
          /\ \/ pc["main"] = "join" /\ l = "scope" /\ pc["sender"] = "done"
             \/ pc["main"] = "scope" /\ l = "done"
    BY <1>9, Zenon DEF U!Join, U!End, U!Goto
  <2>2. /\ UNCHANGED <<message, mo, seen, view, taken>>
        /\ hb' = hb \/ hb' = AfterJoin(hb, "main")
    BY <1>9, Zenon DEF U!Join, U!End, U!AfterJoin, AfterJoin
  <2>3. HalvesInv' /\ pc'["main"] = l /\ pc'["sender"] = pc["sender"]
    BY <1>1, <1>9, <2>1, <2>2, MainQuiet, Zenon
  <2>4. Raised' = Raised /\ Ready' = Ready
    BY <2>2, SameReady, Zenon
  <2>5. Holders'
    BY <1>1, <1>9, <2>1, <2>3, Zenon DEF Holders, Held
  <2>6. Untaken'
    BY <1>1, <1>9, <2>2, <2>3 DEF Untaken
  <2>7. QED
    BY <2>2, <2>3, <2>4, <2>5, <2>6, Zenon DEF UnsafeInv
<1>10. QED
  BY <1>2, <1>3, <1>4, <1>5, <1>6, <1>7, <1>8, <1>9, Zenon
     DEF U!Next, U!SenderStep, U!ReceiverStep, U!Terminated, U!clientVars

\* The channel of 05-02 keeps the invariant under its contract.
THEOREM UnsafeInvariance == U!Spec => []UnsafeInv
BY UnsafeInit, UnsafePreserves, PTL DEF U!Spec

\* The invariant gives the properties that the contract promises.
LEMMA UnsafeSafe == UnsafeInv => NoDataRace /\ ReceivesMessage
<1> SUFFICES ASSUME UnsafeInv
             PROVE  NoDataRace /\ ReceivesMessage
  BY Zenon
<1>1. HalvesInv /\ Untaken
  BY Zenon DEF UnsafeInv
<1>2. pc["main"] = "read" => round \in 1..Rounds
  BY <1>1 DEF HalvesInv, Ordered, Stored, Types
<1>3. QED
  BY <1>1, <1>2, HalvesSafe, Zenon DEF ReceivesMessage, Untaken

\* A user of 05-02_unsafe-oneshot-channel.rs that keeps the contract gets the
\* message that was sent, without a data race.
THEOREM UnsafeIsSafe == U!Spec => []NoDataRace /\ []ReceivesMessage
BY UnsafeInvariance, UnsafeSafe, PTL

-----------------------------------------------------------------------------
(***************************************************************************)
(* The four channels together, as MCOneShotChannels composes them.         *)
(***************************************************************************)
ChannelInv ==
  /\ channel \in {"5.2", "5.4", "5.5", "5.6"}
  /\ channel = "5.2" => UnsafeInv
  /\ channel = "5.4" => TypedInv
  /\ channel \in {"5.5", "5.6"} => SplitInv

\* Whichever of the four channels it is, it starts in its invariant.
LEMMA ChannelInit == MCInit => ChannelInv
<1> SUFFICES ASSUME MCInit
             PROVE  ChannelInv
  BY Zenon
<1>1. U!Init /\ T!Init /\ S!ClientInit
  BY Zenon
     DEF MCInit, ClientInit, CellInit, U!Init, U!ClientInit, U!CellInit, U!Threads,
               T!Init, T!ClientInit, T!CellInit, T!Threads,
               S!ClientInit, S!CellInit, S!Threads
<1>2. QED
  BY <1>1, UnsafeInit, TypedInit, SplitInit, Zenon DEF ChannelInv, MCInit

\* A step of the composition is a step of the channel in use, which keeps its
\* invariant.
LEMMA ChannelPreserves == ChannelInv /\ [MCNext]_mcVars => ChannelInv'
<1> SUFFICES ASSUME ChannelInv, [MCNext]_mcVars
             PROVE  ChannelInv'
  BY Zenon
<1>1. /\ channel' = channel
      /\ channel = "5.2" => [U!Next]_(U!vars)
      /\ channel = "5.4" => [T!Next]_(T!vars)
      /\ channel \in {"5.5", "5.6"} => [S!PollNext \/ S!BlockNext]_(S!vars)
  <2>1. CASE UNCHANGED mcVars
    BY <2>1, Zenon DEF mcVars, cellVars, clientVars, U!vars, U!cellVars, U!clientVars,
         T!vars, T!cellVars, T!clientVars, S!vars, S!cellVars, S!clientVars
  <2>2. CASE MCNext
    BY <2>2, Zenon DEF MCNext
  <2>3. QED
    BY <2>1, <2>2, Zenon
<1>2. CASE channel = "5.2"
  BY <1>1, <1>2, UnsafePreserves, Zenon DEF ChannelInv
<1>3. CASE channel = "5.4"
  BY <1>1, <1>3, TypedPreserves, Zenon DEF ChannelInv
<1>4. CASE channel \in {"5.5", "5.6"}
  BY <1>1, <1>4, SplitPreserves, Zenon DEF ChannelInv
<1>5. QED
  BY <1>1, <1>2, <1>3, <1>4, Zenon DEF ChannelInv

\* The composition of the four channels keeps the invariant of each.
THEOREM ChannelInvariance == MCSpec => []ChannelInv
BY ChannelInit, ChannelPreserves, PTL DEF MCSpec

\* In every one-shot channel of 05-02, 05-04, 05-05 and 05-06 the write in send(),
\* the read in receive() and the end of the cell are ordered, for any number of
\* rounds.
THEOREM OneShotRaceFree == MCSpec => []NoDataRace
<1>1. ChannelInv => NoDataRace
  BY UnsafeSafe, TypedSafe, SplitSafe, Zenon DEF ChannelInv
<1>2. QED
  BY <1>1, ChannelInvariance, PTL

\* receive() of each of them returns the message of its own round, which nobody
\* has taken yet.
THEOREM OneShotReceives == MCSpec => []ReceivesMessage
<1>1. ChannelInv => ReceivesMessage
  BY UnsafeSafe, TypedSafe, SplitSafe, Zenon DEF ChannelInv
<1>2. QED
  BY <1>1, ChannelInvariance, PTL

\* In 05-04, 05-05 and 05-06 every message has exactly one owner in the end,
\* whichever of receive(), split() and the drops of the halves comes first.
THEOREM OneShotTakenOnce == MCSpec => []SafeTakenOnce
<1>1. ChannelInv => SafeTakenOnce
  BY TypedSafe, SplitSafe, Zenon DEF ChannelInv, SafeTakenOnce
<1>2. QED
  BY <1>1, ChannelInvariance, PTL
=============================================================================
