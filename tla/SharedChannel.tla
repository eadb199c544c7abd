--------------------------- MODULE SharedChannel ---------------------------
(***************************************************************************)
(* What the two channels of section 5.3 share.  Both check at run time     *)
(* what they cannot leave to the caller: send() and receive() take &self,  *)
(* any thread may call them at any time, and a call that must not succeed  *)
(* panics.                                                                 *)
(*                                                                         *)
(* The client is main() of the examples with more threads: every sender    *)
(* calls send() once and then unparks main(), which polls is_ready(),      *)
(* parks and calls receive(); some of the eager receivers, or none, call   *)
(* receive() without asking first.  The message of sender s is named s.    *)
(*                                                                         *)
(* Labels of pc:                                                           *)
(*   "send"                before the check of send()                      *)
(*   "write", "store"      its other statements                            *)
(*   "unpark"              before unpark() of main()                       *)
(*   "is_ready", "park"    the loop of main()                              *)
(*   "receive", "read"     the check and the read of receive()             *)
(*   "idle"                an eager receiver that never calls receive()    *)
(*   "returned", "panicked", and "done" for main(): the end                *)
(***************************************************************************)
EXTENDS ChannelCell

CONSTANTS Senders, Eager, Main

ASSUME SharedAssumption ==
  /\ IsFiniteSet(Senders) /\ IsFiniteSet(Eager)
  /\ Senders \cap Eager = {}
  /\ Main \notin Senders \cup Eager
  /\ Uninit \notin Senders

Threads == Senders \cup Eager \cup {Main}

SharedInit(first) ==
  /\ CellInit(Threads, Senders, first)
  /\ \E callers \in SUBSET Eager :
       pc = [t \in Threads |-> CASE t \in Senders -> "send"
                                 [] t = Main -> "is_ready"
                                 [] t \in callers -> "receive"
                                 [] OTHER -> "idle"]

\* send() panics; unwinding drops the message it was given.
SendPanics(s) ==
  /\ Take(s)
  /\ Goto(s, "panicked")
  /\ UNCHANGED <<message, view, hb, token>>

\* (*message.get()).write(message)
Write(s) ==
  /\ pc[s] = "write"
  /\ WriteMessage(s, s)
  /\ Goto(s, "store")
  /\ UNCHANGED <<mo, seen, taken, token>>

\* Fault: nobody wakes main().
UnparkForgotten(s) ==
  /\ pc[s] = "unpark"
  /\ Goto(s, "returned")
  /\ UNCHANGED <<message, mo, seen, view, hb, taken, token>>

\* t.unpark() after send().
UnparkMain(s) ==
  /\ pc[s] = "unpark"
  /\ Unpark(s, Main)
  /\ Goto(s, "returned")
  /\ UNCHANGED <<message, mo, seen, view, hb, taken>>

\* while !channel.is_ready() { park() }: a Relaxed load, perhaps of an old
\* value; v is the value that means ready.
IsReady(v) ==
  /\ pc[Main] = "is_ready"
  /\ \E i \in Loadable(Main) :
       /\ LoadAt(Main, i)
       /\ Goto(Main, IF mo[i] = v THEN "receive" ELSE "park")
  /\ UNCHANGED <<message, mo, view, hb, taken, token>>

Park == pc[Main] = "park" /\ ParkReturns(Main, "is_ready")

\* Fault: main() takes its return from park() for the message.
SpuriousParkReceives ==
  pc[Main] = "park" /\ SpuriousReturn(Main, "receive")

SpuriousPark == pc[Main] = "park" /\ SpuriousReturn(Main, "is_ready")

\* Where a thread goes on after receive(), and after its panic: main() to the
\* end of the scope.
After(t, label) == IF t = Main THEN "join" ELSE label

\* assume_init_read() in receive().
Read(t) ==
  /\ pc[t] = "read"
  /\ TakeMessage(t)
  /\ Goto(t, After(t, "returned"))
  /\ UNCHANGED <<mo, seen, token>>

Ended(t) == pc[t] \in {"idle", "returned", "panicked"}

\* The scope ends with its threads, and the channel is dropped; v is the value
\* that means ready.
JoinAndDrop(v) ==
  /\ pc[Main] = "join"
  /\ \A t \in Threads \ {Main} : Ended(t)
  /\ hb' = AfterJoin(hb, Main)
  /\ IF Current = v THEN Take(message) ELSE UNCHANGED taken
  /\ Goto(Main, "done")
  /\ UNCHANGED <<message, mo, seen, view, token>>

SharedStep(t, v) ==
  \/ t \in Senders /\ (Write(t) \/ UnparkMain(t))
  \/ t = Main /\ (IsReady(v) \/ Park \/ JoinAndDrop(v))
  \/ Read(t)

Finished == pc[Main] = "done"

-----------------------------------------------------------------------------
\* The write in send() and the reads in receive() never race, however many
\* threads call them: the check of send() lets one sender through, and the
\* Release store of ready or READY orders its write before the read.
NoDataRace ==
  \A t \in Threads : pc[t] \in {"write", "read"} => OrderedAfterOthers(t)

\* receive() returns a message that was sent and that no other call of
\* receive() has returned.
ReceivesMessage ==
  \A t \in Threads : pc[t] = "read" => message \in Senders /\ taken[message] = 0

\* Every message gets exactly one owner or is dropped exactly once: by
\* receive(), by the channel's drop(), or by the send() that panics.
TakenOnce ==
  /\ \A s \in Senders : taken[s] <= 1
  /\ Finished => \A s \in Senders : taken[s] = 1

OnlyMainReceives == \A e \in Eager : pc[e] = "idle"

\* Unless somebody else calls receive(), the receive() of main() that follows
\* a true is_ready() does not panic, although is_ready() is a Relaxed load and
\* other senders are at work.  The comment on is_ready() of 05-03 (lines 45-46)
\* says that this is not guaranteed; but both are operations of one thread on
\* one atomic, the second reads the newest value, and only receive() clears it.
MainNeverPanics ==
  [][OnlyMainReceives /\ pc[Main] = "receive" => pc'[Main] # "join"]_cellVars

\* main() ends: it is not left parked because of a wake-up that it missed.  An
\* eager receiver could take its message away, and then main() parks forever.
Termination == OnlyMainReceives => <>Finished
=============================================================================
