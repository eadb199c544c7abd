-------------------------------- MODULE Queue -------------------------------
(***************************************************************************)
(* What the queues of sections 1.8 and 5.1 share: a VecDeque in a mutex of *)
(* the standard library, and the threads that push.  A sender pushes,      *)
(* which unlocks at the end of the statement, and only then wakes.  The    *)
(* k-th item of sender s is <<s, k>>.                                      *)
(*                                                                         *)
(* Labels of pc:                                                           *)
(*   "lock"     before queue.lock()                                        *)
(*   "push"     a sender with the guard                                    *)
(*   "notify"   after the push, before notify_one() or unpark()            *)
(*   "pop"      a receiver with the guard, before pop_front()              *)
(*   "wait"     the queue was empty: before wait(), with the guard         *)
(*   "waiting"  asleep in wait()                                           *)
(*   "relock"   woken, before wait() has the guard again                   *)
(*   "item"     with an item and still with the guard                      *)
(*   "park"     the queue was empty: at park()                             *)
(***************************************************************************)
EXTENDS Naturals, Sequences, FiniteSets

CONSTANTS Senders, Receivers,
          Calls,     \* the number of items a thread sends or receives
          Nobody

ASSUME QueueAssumption ==
  /\ IsFiniteSet(Senders) /\ IsFiniteSet(Receivers)
  /\ Senders \cap Receivers = {}
  /\ Nobody \notin Senders \cup Receivers
  /\ Calls \in [Senders \cup Receivers -> Nat]
  /\ \A s \in Senders : Calls[s] > 0

VARIABLES owner,   \* the thread that holds the mutex, or Nobody
          queue,   \* the VecDeque in it
          pc,      \* where each thread is
          made,    \* how many items each thread has sent or received
          got,     \* the items received so far, each with its receiver
          token    \* the receivers that have a park token

queueVars == <<owner, queue, pc, made, got, token>>

Threads == Senders \cup Receivers

\* The senders start, and these receivers.
QueueInit(receivers) ==
  /\ owner = Nobody
  /\ queue = <<>>
  /\ pc = [t \in Threads |-> IF t \in Senders \cup receivers THEN "lock" ELSE "done"]
  /\ made = [t \in Threads |-> 0]
  /\ got = <<>>
  /\ token = {}

Goto(t, label) == pc' = [pc EXCEPT ![t] = label]

\* queue.lock() returns, or wait() returns with the guard.
Lock(t) ==
  /\ pc[t] \in {"lock", "relock"}
  /\ owner = Nobody
  /\ owner' = t
  /\ Goto(t, IF t \in Senders THEN "push" ELSE "pop")
  /\ UNCHANGED <<queue, made, got, token>>

\* Where a sender goes on after the wake-up.
NextSend(s) == IF made[s] < Calls[s] THEN "lock" ELSE "done"

\* Fault: only a push to an empty queue is followed by a wake-up.
PushWakesIfEmpty(s) ==
  /\ pc[s] = "push"
  /\ queue' = Append(queue, <<s, made[s] + 1>>)
  /\ made' = [made EXCEPT ![s] = @ + 1]
  /\ owner' = Nobody
  /\ Goto(s, IF queue = <<>> THEN "notify"
             ELSE IF made[s] + 1 < Calls[s] THEN "lock" ELSE "done")
  /\ UNCHANGED <<got, token>>

\* Fault: the item is put in front.
PushFront(s) ==
  /\ pc[s] = "push"
  /\ queue' = <<<<s, made[s] + 1>>>> \o queue
  /\ made' = [made EXCEPT ![s] = @ + 1]
  /\ owner' = Nobody
  /\ Goto(s, "notify")
  /\ UNCHANGED <<got, token>>

\* queue.lock().unwrap().push_back(item), from its guard on.
Push(s) ==
  /\ pc[s] = "push"
  /\ queue' = Append(queue, <<s, made[s] + 1>>)
  /\ made' = [made EXCEPT ![s] = @ + 1]
  /\ owner' = Nobody
  /\ Goto(s, "notify")
  /\ UNCHANGED <<got, token>>

\* r takes the first item out of the queue.
PopFront(r) ==
  /\ queue # <<>>
  /\ queue' = Tail(queue)
  /\ got' = Append(got, <<r, Head(queue)>>)
  /\ made' = [made EXCEPT ![r] = @ + 1]

-----------------------------------------------------------------------------
Asleep == {r \in Receivers : pc[r] = "waiting" \/ (pc[r] = "park" /\ r \notin token)}

Notifying == {s \in Senders : pc[s] = "notify"}

Awake == {r \in Receivers : pc[r] \in {"lock", "relock", "pop", "item"}}

\* No wake-up is lost.  While some receiver sleeps in wait() or park(), every
\* item in the queue has a sender that is still about to wake somebody for it,
\* or a receiver awake that will look into the queue again; so no receiver
\* sleeps for good while there is an item nobody comes for.
NoLostWakeup ==
  Asleep # {} => Len(queue) <= Cardinality(Notifying) + Cardinality(Awake)

\* The line of Fifo is what has been received and then what is in the queue.
F == INSTANCE Fifo WITH
  line   <- [i \in 1..Len(got) |-> got[i][2]] \o queue,
  takers <- [i \in 1..Len(got) |-> got[i][1]]

\* The queue with its mutex and its wake-ups is a Fifo: whatever the threads
\* do at the same time, and however they are woken, no item is lost, received
\* twice or overtaken, and pop_front() after a wake-up returns an item or the
\* receiver sleeps again.
ImplementsFifo == F!Spec

Delivered ==
  /\ \A s \in Senders : made[s] = Calls[s]
  /\ queue = <<>>

\* A receiver leaves its sleep and no sender has woken it.
WokenForNothing ==
  \E r \in Asleep : pc'[r] # pc[r] /\ \A s \in Senders : pc'[s] = pc[s]

\* Every item is sent and is received: no receiver sleeps through it.  The
\* mutex is not assumed to be fair, so a receiver that woke for nothing again
\* and again could keep the others from it; that is assumed to end.
AllDelivered == <>[][~WokenForNothing]_queueVars => <>Delivered
=============================================================================
