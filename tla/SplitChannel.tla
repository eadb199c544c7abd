---------------------------- MODULE SplitChannel ----------------------------
(***************************************************************************)
(* The one-shot channels that lend themselves to a Sender and a Receiver:  *)
(* split() makes the channel new, in each scope, and the channel itself is *)
(* dropped at the end of main().                                           *)
(*                                                                         *)
(*   PollSpec   examples/05-05_avoiding-memory-allocation-by-using-        *)
(*              borrowing.rs: main() polls is_ready() and parks, or calls  *)
(*              receive() right away and may panic; the sending thread     *)
(*              calls unpark() after send();                               *)
(*   BlockSpec  examples/05-06_blocking.rs: receive() parks by itself, and *)
(*              send() calls unpark().                                     *)
(***************************************************************************)
EXTENDS OneShotHalves

vars == <<cellVars, clientVars>>

\* split(): `*self = Self::default()` drops the old content.
Split(starts, waits) ==
  /\ Scope(starts, waits, "done")
  /\ DropContent

\* The end of main(), or a panic that leaves it: the channel is dropped.
DropChannel ==
  /\ pc["main"] = "scope"
  /\ DropContent
  /\ Goto("main", "done")
  /\ UNCHANGED <<message, mo, seen, view, hb, token>>

SenderStep ==
  /\ SendWrite \/ SendStore("unpark") \/ UnparkMain
  /\ UNCHANGED clientVars

Terminated == Finished /\ UNCHANGED vars

\* main() of 05-05.
PollStep ==
  \/ Split({"is_ready", "swap", "join"}, {"is_ready"})
  \/ /\ \/ IsReady \/ Park("is_ready") \/ Swap("join") \/ Read("join")
        \/ Join \/ DropChannel
     /\ UNCHANGED clientVars

PollNext ==
  \/ SenderStep \/ PollStep
  \/ SpuriousPark("is_ready") /\ UNCHANGED clientVars
  \/ Terminated

PollSpec ==
  /\ ClientInit /\ [][PollNext]_vars
  /\ WF_vars(SenderStep) /\ WF_vars(PollStep)

\* Fault: the loop of receive() parks again without another look at ready.
BlockStepParksOn ==
  \/ Split({"swap", "join"}, {"swap"})
  \/ /\ Park("park") \/ Swap("park") \/ Read("join") \/ Join \/ DropChannel
     /\ UNCHANGED clientVars

\* main() and the loop in receive() of 05-06.
BlockStep ==
  \/ Split({"swap", "join"}, {"swap"})
  \/ /\ Park("swap") \/ Swap("park") \/ Read("join") \/ Join \/ DropChannel
     /\ UNCHANGED clientVars

BlockNext ==
  \/ SenderStep \/ BlockStep
  \/ SpuriousPark("swap") /\ UNCHANGED clientVars
  \/ Terminated

BlockSpec ==
  /\ ClientInit /\ [][BlockNext]_vars
  /\ WF_vars(SenderStep) /\ WF_vars(BlockStep)
=============================================================================
