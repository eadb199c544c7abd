------------------------------ MODULE MCQueues ------------------------------
(***************************************************************************)
(* The three queues in one state space; kind says which one it is.  There  *)
(* are two senders, and three receivers unless the queue is that of        *)
(* 01-08-01, where one thread is unparked.  The receivers of the channel   *)
(* of 05-01 receive together what the senders send.                        *)
(***************************************************************************)
EXTENDS Queue

CONSTANTS s1, s2, r1, r2, r3

VARIABLE kind   \* the queue in use

MCSenders == {s1, s2}

MCReceivers == {r1, r2, r3}

MCCalls == [t \in MCSenders \cup MCReceivers |-> IF t \in {r2, r3} THEN 1 ELSE 2]

P == INSTANCE ParkingQueue
C == INSTANCE CondvarQueue

mcVars == <<queueVars, kind>>

MCInit ==
  \/ kind \in {"channel", "condvar"} /\ C!Init
  \/ kind = "parking" /\ P!ParkInit

MCNext ==
  /\ \/ kind = "channel" /\ C!ChannelNext
     \/ kind = "condvar" /\ C!LoopNext
     \/ kind = "parking" /\ P!ParkNext
  /\ UNCHANGED kind

Step(t) ==
  \/ kind = "channel" /\ C!ChannelStep(t)
  \/ kind = "condvar" /\ C!LoopStep(t)
  \/ kind = "parking" /\ P!ParkStep(t)

MCSpec == MCInit /\ [][MCNext]_mcVars /\ \A t \in Threads : WF_queueVars(Step(t))
=============================================================================
