--------------------------- MODULE CheckedChannel ---------------------------
(***************************************************************************)
(* The channel of examples/05-03_safety-through-runtime-checks.rs: in_use  *)
(* lets one send() through, ready lets one receive() through.              *)
(***************************************************************************)
EXTENDS SharedChannel

VARIABLE in_use   \* Channel.in_use, an AtomicBool

vars == <<cellVars, in_use>>

Init == SharedInit(FALSE) /\ in_use = FALSE

\* if in_use.swap(true, Relaxed) { panic }
Send(s) ==
  /\ pc[s] = "send"
  /\ in_use' = TRUE
  /\ IF in_use
       THEN SendPanics(s) /\ UNCHANGED <<mo, seen>>
       ELSE Goto(s, "write") /\ UNCHANGED <<message, mo, seen, view, hb, taken, token>>

\* ready.store(true, Release)
Publish(s) ==
  /\ pc[s] = "store"
  /\ Store(s, TRUE)
  /\ view' = ReleaseStoreView(hb, s)
  /\ Goto(s, "unpark")
  /\ UNCHANGED <<message, hb, taken, token, in_use>>

\* Fault: ready is loaded and stays true.
ReceiveLoads(t) ==
  /\ pc[t] = "receive"
  /\ hb' = AfterAcquire(hb, t, view)
  /\ Goto(t, IF Current THEN "read" ELSE After(t, "panicked"))
  /\ UNCHANGED <<message, mo, seen, view, taken, token, in_use>>

\* if !ready.swap(false, Acquire) { panic }
Receive(t) ==
  /\ pc[t] = "receive"
  /\ Store(t, FALSE)
  /\ hb' = AfterAcquire(hb, t, view)
  /\ Goto(t, IF Current THEN "read" ELSE After(t, "panicked"))
  /\ UNCHANGED <<message, view, taken, token, in_use>>

Step(t) ==
  \/ t \in Senders /\ (Send(t) \/ Publish(t))
  \/ Receive(t)
  \/ SharedStep(t, TRUE) /\ UNCHANGED in_use

Terminated == Finished /\ UNCHANGED vars

Next ==
  \/ \E t \in Threads : Step(t)
  \/ SpuriousPark /\ UNCHANGED in_use
  \/ Terminated

Spec == Init /\ [][Next]_vars /\ \A t \in Threads : WF_vars(Step(t))
=============================================================================
