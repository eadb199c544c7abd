------------------------- MODULE MCOneShotChannels -------------------------
(***************************************************************************)
(* The four one-shot channels with one sender and one receiver, each under *)
(* its client, in one state space: channel says which of them it is.       *)
(***************************************************************************)
EXTENDS OneShotHalves

VARIABLES handles,   \* of UnsafeChannel and TypedChannel
          channel    \* the section of the channel in use

U == INSTANCE UnsafeChannel
T == INSTANCE TypedChannel
S == INSTANCE SplitChannel

mcVars == <<cellVars, clientVars, handles, channel>>

MCInit ==
  /\ ClientInit
  /\ handles = {}
  /\ channel \in {"5.2", "5.4", "5.5", "5.6"}

MCNext ==
  /\ \/ channel = "5.2" /\ U!Next
     \/ channel = "5.4" /\ T!Next
     \/ channel = "5.5" /\ S!PollNext /\ UNCHANGED handles
     \/ channel = "5.6" /\ S!BlockNext /\ UNCHANGED handles
  /\ UNCHANGED channel

\* The sending thread, and the receiving thread with main(), are fair.
SenderStep ==
  \/ channel = "5.2" /\ U!SenderStep
  \/ channel = "5.4" /\ T!SenderStep
  \/ channel \in {"5.5", "5.6"} /\ S!SenderStep

ReceiverStep ==
  \/ channel = "5.2" /\ U!ReceiverStep
  \/ channel = "5.4" /\ T!ReceiverStep
  \/ channel = "5.5" /\ S!PollStep
  \/ channel = "5.6" /\ S!BlockStep

MCSpec ==
  /\ MCInit /\ [][MCNext]_mcVars
  /\ WF_<<cellVars, clientVars>>(SenderStep)
  /\ WF_<<cellVars, clientVars>>(ReceiverStep)

\* Every message has exactly one owner in the end (TakenOnce) in 05-04, 05-05
\* and 05-06, whichever of receive(), split() and the drops comes first; that
\* of 05-02 leaves it to its user.
SafeTakenOnce == channel # "5.2" => TakenOnce
=============================================================================
