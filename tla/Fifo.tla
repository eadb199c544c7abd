-------------------------------- MODULE Fifo --------------------------------
(***************************************************************************)
(* What the queues of sections 1.8 and 5.1 promise.  All items stand in    *)
(* one line, in the order in which they were sent, and every receive takes *)
(* the first one that nobody has taken.  The k-th item of sender s is      *)
(* <<s, k>>.                                                               *)
(***************************************************************************)
EXTENDS Naturals, Sequences

CONSTANTS Senders, Receivers

VARIABLES line,    \* the items sent, those that have been taken included
          takers   \* takers[i] is the receiver of line[i]

fifoVars == <<line, takers>>

Init == line = <<>> /\ takers = <<>>

\* s sends its next item: it has sent those before it, and not yet this one.
Send(s, k) ==
  /\ \A j \in 1..k - 1 : \E i \in DOMAIN line : line[i] = <<s, j>>
  /\ \A i \in DOMAIN line : line[i] # <<s, k>>
  /\ line' = Append(line, <<s, k>>)
  /\ UNCHANGED takers

\* r takes the next item.
Receive(r) ==
  /\ Len(takers) < Len(line)
  /\ takers' = Append(takers, r)
  /\ UNCHANGED line

Next ==
  \/ \E s \in Senders, k \in 1..Len(line) + 1 : Send(s, k)
  \/ \E r \in Receivers : Receive(r)

Spec == Init /\ [][Next]_fifoVars
=============================================================================
