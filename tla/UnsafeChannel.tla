--------------------------- MODULE UnsafeChannel ---------------------------
(***************************************************************************)
(* The one-shot channel of examples/05-02_unsafe-oneshot-channel.rs, under *)
(* a client that keeps the contract in the comment on Channel: send() is   *)
(* called once, receive() once and only after is_ready() returned true.    *)
(* Both threads own the channel through std's Arc, and the one that ends   *)
(* last drops it; either may also end without using the channel.  "main"   *)
(* is the thread `receiver`; it makes the next channel, too.               *)
(***************************************************************************)
EXTENDS OneShotHalves

VARIABLE handles   \* the threads that still hold their Arc

vars == <<cellVars, clientVars, handles>>

Init == ClientInit /\ handles = {}

\* Channel::default() and Arc::clone(), in a new scope.
NewArcs ==
  /\ Scope({"is_ready", "drop"}, {"is_ready"}, "drop")
  /\ handles' = Threads
  /\ UNCHANGED taken

\* Fault: is_ready() is Relaxed.
IsReadyRelaxed ==
  /\ pc["main"] = "is_ready"
  /\ \E i \in Loadable("main") :
       /\ LoadAt("main", i)
       /\ Goto("main", IF mo[i] THEN "read" ELSE "is_ready")
  /\ UNCHANGED <<message, mo, view, hb, taken, token>>

\* while !channel.is_ready() { spin_loop() }: an Acquire load.  Nothing is
\* published by the first value of ready.
IsReadyAcquire ==
  /\ pc["main"] = "is_ready"
  /\ \E i \in Loadable("main") :
       /\ LoadAt("main", i)
       /\ hb' = IF mo[i] THEN AfterAcquire(hb, "main", view) ELSE hb
       /\ Goto("main", IF mo[i] THEN "read" ELSE "is_ready")
  /\ UNCHANGED <<message, mo, view, taken, token>>

\* A thread ends and drops its Arc; the last one drops the channel.
DropArc(t) ==
  /\ pc[t] = "drop"
  /\ handles' = handles \ {t}
  /\ IF handles = {t}
       THEN DropContent /\ hb' = AfterJoin(hb, t)
       ELSE UNCHANGED <<taken, hb>>
  /\ Goto(t, IF t = "main" THEN "join" ELSE "done")
  /\ UNCHANGED <<message, mo, seen, view, token>>

End ==
  /\ pc["main"] = "scope"
  /\ Goto("main", "done")
  /\ UNCHANGED <<message, mo, seen, view, hb, taken, token>>

SenderStep ==
  /\ \/ DropArc("sender")
     \/ (SendWrite \/ SendStore("drop")) /\ UNCHANGED handles
  /\ UNCHANGED clientVars

ReceiverStep ==
  \/ NewArcs
  \/ DropArc("main") /\ UNCHANGED clientVars
  \/ /\ IsReadyAcquire \/ Read("drop") \/ Join \/ End
     /\ UNCHANGED <<handles, clientVars>>

Terminated == Finished /\ UNCHANGED vars

Next == SenderStep \/ ReceiverStep \/ Terminated

\* A load that returns an old value changes nothing, so fairness of the
\* receiver includes that the store to ready becomes visible in finite time.
Spec == Init /\ [][Next]_vars /\ WF_vars(SenderStep) /\ WF_vars(ReceiverStep)
=============================================================================
