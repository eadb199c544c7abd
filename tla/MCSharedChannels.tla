-------------------------- MODULE MCSharedChannels --------------------------
(***************************************************************************)
(* The two channels of section 5.3 under one client, in one state space:   *)
(* channel says which of them it is.                                       *)
(***************************************************************************)
EXTENDS SharedChannel

VARIABLES in_use,    \* of CheckedChannel
          channel    \* the channel in use

C == INSTANCE CheckedChannel
A == INSTANCE StateChannel

mcVars == <<cellVars, in_use, channel>>

MCInit ==
  /\ in_use = FALSE
  /\ \/ channel = "in_use" /\ C!Init
     \/ channel = "state" /\ A!Init

MCNext ==
  /\ \/ channel = "in_use" /\ C!Next
     \/ channel = "state" /\ A!Next /\ UNCHANGED in_use
  /\ UNCHANGED channel

\* Every thread is fair, whichever the channel is.
Step(t) ==
  \/ channel = "in_use" /\ C!Step(t)
  \/ channel = "state" /\ A!Step(t)

MCSpec == MCInit /\ [][MCNext]_mcVars /\ \A t \in Threads : WF_cellVars(Step(t))
=============================================================================
