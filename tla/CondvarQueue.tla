---------------------------- MODULE CondvarQueue ----------------------------
(***************************************************************************)
(* Channel of examples/05-01_simple-channel-with-mutex.rs (ChannelSpec),   *)
(* whose receivers make a number of calls and end, and the queue of        *)
(* examples/01-08-02_condition_variables.rs (LoopSpec), whose consumer     *)
(* loops forever and keeps the guard until it is done with its item.  Both *)
(* sleep in wait() of a condition variable of the standard library.        *)
(***************************************************************************)
EXTENDS Queue

vars == queueVars

Init == QueueInit(Receivers)

\* The receiver with the guard finds nothing.
PopNothing(r) ==
  /\ pc[r] = "pop"
  /\ queue = <<>>
  /\ Goto(r, "wait")
  /\ UNCHANGED <<owner, queue, made, got, token>>

\* return message: receive() drops its guard.
PopAndReturn(r) ==
  /\ pc[r] = "pop"
  /\ PopFront(r)
  /\ owner' = Nobody
  /\ Goto(r, IF made[r] + 1 < Calls[r] THEN "lock" ELSE "done")
  /\ UNCHANGED token

\* break item: the guard is kept.
PopAndBreak(r) ==
  /\ pc[r] = "pop"
  /\ PopFront(r)
  /\ Goto(r, "item")
  /\ UNCHANGED <<owner, token>>

\* The body of the loop ends after dbg!(item), and the guard with it.
DropGuard(r) ==
  /\ pc[r] = "item"
  /\ owner' = Nobody
  /\ Goto(r, "lock")
  /\ UNCHANGED <<queue, made, got, token>>

\* Condvar::wait(guard): unlocks and sleeps, in one step.
Wait(r) ==
  /\ pc[r] = "wait"
  /\ owner' = Nobody
  /\ Goto(r, "waiting")
  /\ UNCHANGED <<queue, made, got, token>>

SpuriousWake(r) ==
  /\ pc[r] = "waiting"
  /\ Goto(r, "relock")
  /\ UNCHANGED <<owner, queue, made, got, token>>

\* Condvar::notify_one(): one of the threads in wait() wakes up, if any does.
NotifyOne(s) ==
  /\ pc[s] = "notify"
  /\ \/ \E r \in Receivers :
          /\ pc[r] = "waiting"
          /\ pc' = [pc EXCEPT ![s] = NextSend(s), ![r] = "relock"]
     \/ /\ \A r \in Receivers : pc[r] # "waiting"
        /\ Goto(s, NextSend(s))
  /\ UNCHANGED <<owner, queue, made, got, token>>

CondvarStep(t) ==
  \/ Lock(t)
  \/ t \in Senders /\ (Push(t) \/ NotifyOne(t))
  \/ t \in Receivers /\ (PopNothing(t) \/ Wait(t))

ChannelStep(t) == CondvarStep(t) \/ (t \in Receivers /\ PopAndReturn(t))

\* main() of 05-01 joins both threads.
Finished == \A t \in Threads : pc[t] = "done"

Terminated == Finished /\ UNCHANGED vars

Spurious == \E r \in Receivers : SpuriousWake(r)

ChannelNext == (\E t \in Threads : ChannelStep(t)) \/ Spurious \/ Terminated

ChannelSpec ==
  Init /\ [][ChannelNext]_vars /\ \A t \in Threads : WF_vars(ChannelStep(t))

LoopStep(t) ==
  CondvarStep(t) \/ (t \in Receivers /\ (PopAndBreak(t) \/ DropGuard(t)))

LoopNext == (\E t \in Threads : LoopStep(t)) \/ Spurious

LoopSpec == Init /\ [][LoopNext]_vars /\ \A t \in Threads : WF_vars(LoopStep(t))
=============================================================================
