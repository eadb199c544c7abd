---------------------------- MODULE TypedChannel ----------------------------
(***************************************************************************)
(* The one-shot channel of examples/05-04_safety-with-types.rs: channel()  *)
(* makes a Sender and a Receiver that own the channel together through     *)
(* std's Arc.  send(self) and receive(self) consume their half, and the    *)
(* half that goes last drops the channel.  main() polls is_ready() as in   *)
(* the example, or calls receive() right away and may panic, or drops the  *)
(* receiver; the sender sends or is dropped.  Label of pc, besides those   *)
(* of OneShotHalves: "drop", before a thread drops its half.               *)
(***************************************************************************)
EXTENDS OneShotHalves

VARIABLE handles   \* the threads whose half still holds its Arc

vars == <<cellVars, clientVars, handles>>

Init == ClientInit /\ handles = {}

\* channel(), in a new scope.
NewHalves ==
  /\ Scope({"is_ready", "swap", "drop"}, {"is_ready"}, "drop")
  /\ handles' = Threads
  /\ UNCHANGED taken

\* Where a thread goes on when its half is gone.
AfterDrop(t) ==
  CASE t = "main" -> "join"
    [] t = "sender" /\ round \in sent -> "unpark"
    [] OTHER -> "done"

\* Fault: the sender's half never drops the channel, as if main() always
\* outlived it.
DropHalfOfMain(t) ==
  /\ pc[t] = "drop"
  /\ handles' = handles \ {t}
  /\ IF t = "main"
       THEN DropContent /\ hb' = AfterJoin(hb, t)
       ELSE UNCHANGED <<taken, hb>>
  /\ Goto(t, AfterDrop(t))
  /\ UNCHANGED <<message, mo, seen, view, token>>

\* t drops its Arc, and the channel if the other half is gone.  Arc orders the
\* last drop after the other one.
DropHalf(t) ==
  /\ pc[t] = "drop"
  /\ handles' = handles \ {t}
  /\ IF handles = {t}
       THEN DropContent /\ hb' = AfterJoin(hb, t)
       ELSE UNCHANGED <<taken, hb>>
  /\ Goto(t, AfterDrop(t))
  /\ UNCHANGED <<message, mo, seen, view, token>>

\* The end of main().
End ==
  /\ pc["main"] = "scope"
  /\ Goto("main", "done")
  /\ UNCHANGED <<message, mo, seen, view, hb, taken, token>>

SenderStep ==
  /\ \/ DropHalf("sender")
     \/ (SendWrite \/ SendStore("drop") \/ UnparkMain) /\ UNCHANGED handles
  /\ UNCHANGED clientVars

ReceiverStep ==
  \/ NewHalves
  \/ DropHalf("main") /\ UNCHANGED clientVars
  \/ /\ IsReady \/ Park("is_ready") \/ Swap("drop") \/ Read("drop") \/ Join \/ End
     /\ UNCHANGED <<handles, clientVars>>

Terminated == Finished /\ UNCHANGED vars

Next ==
  \/ SenderStep \/ ReceiverStep
  \/ SpuriousPark("is_ready") /\ UNCHANGED <<handles, clientVars>>
  \/ Terminated

Spec == Init /\ [][Next]_vars /\ WF_vars(SenderStep) /\ WF_vars(ReceiverStep)
=============================================================================
