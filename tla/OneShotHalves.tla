--------------------------- MODULE OneShotHalves ---------------------------
(***************************************************************************)
(* The statements of send(), is_ready() and receive() in the channels that *)
(* have a Sender and a Receiver (05-04, 05-05, 05-06), with the parking of *)
(* the receiving thread, and their client.  The sending thread is          *)
(* "sender", the receiving one is "main"; a parameter says where the       *)
(* thread goes on.                                                         *)
(*                                                                         *)
(* The client runs the example's thread scope up to Rounds times.  The     *)
(* types allow one send() and one receive() in a scope, and either half    *)
(* may be dropped unused.  A client that waits for a message which nobody  *)
(* sends hangs, and is left out.  The message of round r is named r.       *)
(*                                                                         *)
(* Labels of pc:                                                           *)
(*   "scope", "join"      main() outside and at the end of a thread scope  *)
(*   "write", "store"     the statements of send()                         *)
(*   "unpark"             before unpark() of main()                        *)
(*   "is_ready", "park"   the loop that waits for a message                *)
(*   "swap", "read"       the statements of receive()                      *)
(***************************************************************************)
EXTENDS ChannelCell

CONSTANT Rounds   \* bound on the number of thread scopes

ASSUME RoundsAssumption == Rounds \in Nat \ {0}

VARIABLES round,   \* scopes so far
          sent     \* the rounds in which the sender calls send()

clientVars == <<round, sent>>

Threads == {"sender", "main"}

\* A new channel; a token of an earlier round stays.
NewChannel ==
  /\ message' = Uninit
  /\ mo' = <<FALSE>>
  /\ seen' = [t \in Threads |-> 1]
  /\ view' = Threads
  /\ hb' = [t \in Threads |-> Threads]
  /\ token' = [t \in Threads |-> IF token[t] = 0 THEN 0 ELSE 1]

\* main() makes a channel and spawns the sender.  The client chooses whether
\* the sender sends, or starts at unsent; and what main() does with the
\* receiver: one of starts, where those in waits wait for a message.
Scope(starts, waits, unsent) ==
  /\ pc["main"] = "scope"
  /\ round < Rounds
  /\ round' = round + 1
  /\ NewChannel
  /\ \E start \in starts, sends \in BOOLEAN :
       /\ start \in waits => sends
       /\ sent' = IF sends THEN sent \cup {round'} ELSE sent
       /\ pc' = [main |-> start, sender |-> IF sends THEN "write" ELSE unsent]

\* The scope ends when the sender has ended.
Join ==
  /\ pc["main"] = "join"
  /\ pc["sender"] = "done"
  /\ hb' = AfterJoin(hb, "main")
  /\ Goto("main", "scope")
  /\ UNCHANGED <<message, mo, seen, view, taken, token>>

\* send(): the message is written to the cell ...
SendWrite ==
  /\ pc["sender"] = "write"
  /\ WriteMessage("sender", round)
  /\ Goto("sender", "store")
  /\ UNCHANGED <<mo, seen, taken, token>>

\* ... and published: ready.store(true, Release).
SendStore(next) ==
  /\ pc["sender"] = "store"
  /\ Store("sender", TRUE)
  /\ view' = ReleaseStoreView(hb, "sender")
  /\ Goto("sender", next)
  /\ UNCHANGED <<message, hb, taken, token>>

\* unpark(): within send() in 05-06, after it in 05-04 and 05-05.
UnparkMain ==
  /\ pc["sender"] = "unpark"
  /\ Unpark("sender", "main")
  /\ Goto("sender", "done")
  /\ UNCHANGED <<message, mo, seen, view, hb, taken>>

\* while !receiver.is_ready() { park() }: a Relaxed load, perhaps of an old
\* value.
IsReady ==
  /\ pc["main"] = "is_ready"
  /\ \E i \in Loadable("main") :
       /\ LoadAt("main", i)
       /\ Goto("main", IF mo[i] THEN "swap" ELSE "park")
  /\ UNCHANGED <<message, mo, view, hb, taken, token>>

\* thread::park() returns with a token, or for no reason.
Park(next) == pc["main"] = "park" /\ ParkReturns("main", next)

SpuriousPark(next) == pc["main"] = "park" /\ SpuriousReturn("main", next)

\* Fault: the result of the swap is not looked at.
SwapUnchecked(empty) ==
  /\ pc["main"] = "swap"
  /\ Store("main", FALSE)
  /\ hb' = AfterAcquire(hb, "main", view)
  /\ Goto("main", "read")
  /\ UNCHANGED <<message, view, taken, token>>

\* receive(): ready.swap(false, Acquire); without a message, main() goes on at
\* empty: in 05-06 it parks, in the others it panics.
Swap(empty) ==
  /\ pc["main"] = "swap"
  /\ Store("main", FALSE)
  /\ hb' = AfterAcquire(hb, "main", view)
  /\ Goto("main", IF Current THEN "read" ELSE empty)
  /\ UNCHANGED <<message, view, taken, token>>

\* assume_init_read() in receive().
Read(next) ==
  /\ pc["main"] = "read"
  /\ TakeMessage("main")
  /\ Goto("main", next)
  /\ UNCHANGED <<mo, seen, token>>

\* impl Drop for Channel: a message that is still there is dropped in place.
DropContent == IF Current THEN Take(message) ELSE UNCHANGED taken

-----------------------------------------------------------------------------
\* The whole state before the first round.
ClientInit ==
  /\ CellInit(Threads, 1..Rounds, FALSE)
  /\ pc = [t \in Threads |-> IF t = "main" THEN "scope" ELSE "done"]
  /\ round = 0
  /\ sent = {}

Finished == pc["main"] = "done"

-----------------------------------------------------------------------------
\* The write in send() and the read in receive() are ordered by the Release
\* store and the Acquire swap of ready; is_ready() orders nothing.
NoDataRace ==
  /\ pc["sender"] = "write" => OrderedAfterOthers("sender")
  /\ pc["main"] = "read" => OrderedAfterOthers("main")

\* receive() returns the message of its own round: the cell is initialized,
\* its content was sent in this scope and nobody has moved it out.
ReceivesMessage ==
  pc["main"] = "read" => message = round /\ taken[round] = 0

\* Every message handed to send() gets exactly one owner or is dropped exactly
\* once, by receive() or by a drop of the channel.
TakenOnce ==
  /\ \A m \in 1..Rounds : taken[m] <= 1
  /\ Finished => \A m \in 1..Rounds : taken[m] = IF m \in sent THEN 1 ELSE 0

\* No client that waits for a message which is sent stays parked, whatever
\* token an earlier round has left behind.
Termination == <>Finished
=============================================================================
