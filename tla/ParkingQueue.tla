---------------------------- MODULE ParkingQueue ----------------------------
(***************************************************************************)
(* The queue of examples/01-08-01_thread-parking.rs.  The consumer polls   *)
(* in an endless loop and parks if it finds nothing.                       *)
(***************************************************************************)
EXTENDS Queue

\* The thread whose handle the producer has.
Consumer == CHOOSE r \in Receivers : TRUE

ParkInit == QueueInit({Consumer})

\* Fault: the consumer parks after every item, although one token may stand for
\* several.
PopThenPark(r) ==
  /\ pc[r] = "pop"
  /\ owner' = Nobody
  /\ \/ PopFront(r)
     \/ queue = <<>> /\ UNCHANGED <<queue, got, made>>
  /\ Goto(r, "park")
  /\ UNCHANGED token

\* let item = queue.lock().unwrap().pop_front(), from its guard on.
Pop(r) ==
  /\ pc[r] = "pop"
  /\ owner' = Nobody
  /\ \/ PopFront(r) /\ Goto(r, "lock")
     \/ queue = <<>> /\ Goto(r, "park") /\ UNCHANGED <<queue, got, made>>
  /\ UNCHANGED token

\* t.thread().unpark(): the consumer gets a token, wherever it is.
Unpark(s) ==
  /\ pc[s] = "notify"
  /\ token' = token \cup {Consumer}
  /\ Goto(s, NextSend(s))
  /\ UNCHANGED <<owner, queue, made, got>>

\* park() returns, and takes the token away.
Park(r) ==
  /\ pc[r] = "park"
  /\ r \in token
  /\ token' = token \ {r}
  /\ Goto(r, "lock")
  /\ UNCHANGED <<owner, queue, made, got>>

SpuriousPark(r) ==
  /\ pc[r] = "park"
  /\ r \notin token
  /\ Goto(r, "lock")
  /\ UNCHANGED <<owner, queue, made, got, token>>

ParkStep(t) ==
  \/ Lock(t)
  \/ t \in Senders /\ (Push(t) \/ Unpark(t))
  \/ t \in Receivers /\ (Pop(t) \/ Park(t))

ParkNext == (\E t \in Threads : ParkStep(t)) \/ \E r \in Receivers : SpuriousPark(r)

ParkSpec ==
  ParkInit /\ [][ParkNext]_queueVars /\ \A t \in Threads : WF_queueVars(ParkStep(t))
=============================================================================
