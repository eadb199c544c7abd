---------------------------- MODULE StateChannel ----------------------------
(***************************************************************************)
(* The channel of examples/05-03_represent_channel_state_with_single_      *)
(* atomic_variable.rs: one atomic, state, replaces in_use and ready.       *)
(***************************************************************************)
EXTENDS SharedChannel

vars == cellVars

Init == SharedInit("EMPTY")

\* Fault: state is checked, but the first store is that of READY.
SendUnclaimed(s) ==
  /\ pc[s] = "send"
  /\ \/ /\ Current = "EMPTY"
        /\ Goto(s, "write")
        /\ UNCHANGED <<message, mo, seen, view, hb, taken, token>>
     \/ \E i \in Loadable(s) :
          mo[i] # "EMPTY" /\ LoadAt(s, i) /\ SendPanics(s) /\ UNCHANGED mo

\* compare_exchange(EMPTY, WRITING, Relaxed, Relaxed), or panic.  A Relaxed
\* read-modify-write continues the release sequence it finds.
Send(s) ==
  /\ pc[s] = "send"
  /\ \/ /\ Current = "EMPTY"
        /\ Store(s, "WRITING")
        /\ Goto(s, "write")
        /\ UNCHANGED <<message, view, hb, taken, token>>
     \/ \E i \in Loadable(s) :
          mo[i] # "EMPTY" /\ LoadAt(s, i) /\ SendPanics(s) /\ UNCHANGED mo

\* state.store(READY, Release)
Publish(s) ==
  /\ pc[s] = "store"
  /\ Store(s, "READY")
  /\ view' = ReleaseStoreView(hb, s)
  /\ Goto(s, "unpark")
  /\ UNCHANGED <<message, hb, taken, token>>

\* A failed exchange in receive(): a Relaxed load of another value than READY.
ReceivePanics(t) ==
  \E i \in Loadable(t) :
    /\ mo[i] # "READY"
    /\ LoadAt(t, i)
    /\ Goto(t, After(t, "panicked"))
    /\ UNCHANGED <<message, mo, view, hb, taken, token>>

\* Fault: the exchange is Relaxed.
ReceiveRelaxed(t) ==
  /\ pc[t] = "receive"
  /\ \/ /\ Current = "READY"
        /\ Store(t, "READING")
        /\ Goto(t, "read")
        /\ UNCHANGED <<message, view, hb, taken, token>>
     \/ ReceivePanics(t)

\* compare_exchange(READY, READING, Acquire, Relaxed), or panic.
Receive(t) ==
  /\ pc[t] = "receive"
  /\ \/ /\ Current = "READY"
        /\ Store(t, "READING")
        /\ hb' = AfterAcquire(hb, t, view)
        /\ Goto(t, "read")
        /\ UNCHANGED <<message, view, taken, token>>
     \/ ReceivePanics(t)

Step(t) ==
  \/ t \in Senders /\ (Send(t) \/ Publish(t))
  \/ Receive(t)
  \/ SharedStep(t, "READY")

Terminated == Finished /\ UNCHANGED vars

Next == (\E t \in Threads : Step(t)) \/ SpuriousPark \/ Terminated

Spec == Init /\ [][Next]_vars /\ \A t \in Threads : WF_vars(Step(t))
=============================================================================
