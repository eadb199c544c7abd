---------------------------- MODULE AtomicMemory ----------------------------
(***************************************************************************)
(* A memory of several atomic variables and of the data they protect, for  *)
(* the programs in which one atomic tells about another.  A memory is a    *)
(* record of                                                               *)
(*   mo     for each atomic its messages in modification order, each with  *)
(*          its val and with the view that an acquiring reader learns;     *)
(*   view   the view of each thread;                                       *)
(*   pend   for each thread the views in the messages that it has read:    *)
(*          what fence(Acquire) adds to its own.                           *)
(* A view holds in at, for each atomic, the index of the oldest message    *)
(* that may still be loaded (coherence), and in hb the accesses to the     *)
(* data that happen before.  An access is named by what and whose it is,   *)
(* and the name stands for the latest such access.                         *)
(*                                                                         *)
(* The operators return the memory after an operation of thread t.  An     *)
(* ordering is the set of what it does: Relaxed is {}.  A thread executes  *)
(* its operations in program order.                                        *)
(***************************************************************************)
EXTENDS Naturals, Sequences, FiniteSets

CONSTANT Threads

Relaxed == {}
Acquire == {"Acquire"}
Release == {"Release"}
SeqCst  == {"Acquire", "Release", "SeqCst"}

\* Who knows nothing of the atomics in locations.
NoView(locations) == [at |-> [x \in locations |-> 1], hb |-> {}]

Join(v, w) ==
  [at |-> [x \in DOMAIN v.at |-> IF v.at[x] < w.at[x] THEN w.at[x] ELSE v.at[x]],
   hb |-> v.hb \cup w.hb]

\* The memory when the threads start: the atomics have the values in first, and
\* of the accesses to data, accesses, nobody has made one.
FirstMemory(first, accesses) ==
  LET view == [NoView(DOMAIN first) EXCEPT !.hb = accesses]
  IN  [mo   |-> [x \in DOMAIN first |-> <<[val |-> first[x], view |-> view]>>],
       view |-> [t \in Threads |-> view],
       pend |-> [t \in Threads |-> NoView(DOMAIN first)]]

Newest(m, x) == m.mo[x][Len(m.mo[x])]

\* The messages of x that a load by t may return.  There is one order of all
\* SeqCst operations, and it is the order of the steps: if all operations on x
\* are SeqCst, a load returns the newest.
Loadable(m, t, x, ord) ==
  IF "SeqCst" \in ord THEN {Len(m.mo[x])} ELSE m.view[t].at[x]..Len(m.mo[x])

\* x.load(ord) returns the i-th value.
Load(m, t, x, i, ord) ==
  LET read == m.mo[x][i].view
      own == IF "Acquire" \in ord THEN Join(m.view[t], read) ELSE m.view[t]
  IN  [m EXCEPT !.view[t] = [own EXCEPT !.at[x] = i],
                !.pend[t] = Join(@, read)]

\* A read-modify-write of x.  A reader of the new message also learns what the
\* message before it publishes.
Rmw(m, t, x, v, ord) ==
  LET old == Newest(m, x)
      i == Len(m.mo[x]) + 1
      own == IF "Acquire" \in ord THEN Join(m.view[t], old.view) ELSE m.view[t]
      published == IF "Release" \in ord THEN Join(own, old.view) ELSE old.view
  IN  [mo   |-> [m.mo EXCEPT ![x] = Append(@, [val |-> v, view |-> [published EXCEPT !.at[x] = i]])],
       view |-> [m.view EXCEPT ![t] = [own EXCEPT !.at[x] = i]],
       pend |-> [m.pend EXCEPT ![t] = Join(@, old.view)]]

\* x.store(v, ord)
Store(m, t, x, v, ord) ==
  LET i == Len(m.mo[x]) + 1
      own == [m.view[t] EXCEPT !.at[x] = i]
      published == IF "Release" \in ord THEN own ELSE [NoView(DOMAIN m.mo) EXCEPT !.at[x] = i]
  IN  [m EXCEPT !.mo[x] = Append(@, [val |-> v, view |-> published]), !.view[t] = own]

\* t learns what is in v: fence(Acquire) with the views t has read, the end of
\* a thread that t joins, the token of park().
Learn(m, t, v) == [m EXCEPT !.view[t] = Join(@, v)]

Fence(m, t) == Learn(m, t, m.pend[t])

\* Every message and every thread with its view replaced by F of it.
MapViews(m, F(_)) ==
  [mo   |-> [x \in DOMAIN m.mo |->
               [i \in DOMAIN m.mo[x] |-> [m.mo[x][i] EXCEPT !.view = F(@)]]],
   view |-> [t \in Threads |-> F(m.view[t])],
   pend |-> [t \in Threads |-> F(m.pend[t])]]

\* t makes the access a: nobody else is ordered after that.
Access(m, t, a) ==
  LET Without(v) == [v EXCEPT !.hb = @ \ {a}]
  IN  [MapViews(m, Without) EXCEPT !.view[t].hb = @ \cup {a}]

\* For each atomic the first message that a thread in live can still load.
FirstLoadable(m, live) ==
  LET Oldest(S) == CHOOSE i \in S : \A j \in S : i <= j
  IN  [x \in DOMAIN m.mo |-> Oldest({m.view[t].at[x] : t \in live} \cup {Len(m.mo[x])})]

\* Forget the messages before these, and what the threads not in live know:
\* they take no further step.
Forget(m, first, live) ==
  LET Index(i, x) == IF i < first[x] THEN 1 ELSE i - first[x] + 1
      Shift(v) == [v EXCEPT !.at = [x \in DOMAIN first |-> Index(v.at[x], x)]]
  IN  [mo   |-> [x \in DOMAIN first |->
                   [i \in 1..Len(m.mo[x]) - first[x] + 1 |->
                      [m.mo[x][i + first[x] - 1] EXCEPT !.view = Shift(@)]]],
       view |-> [t \in Threads |-> IF t \in live THEN Shift(m.view[t]) ELSE NoView(DOMAIN first)],
       pend |-> [t \in Threads |-> IF t \in live THEN Shift(m.pend[t]) ELSE NoView(DOMAIN first)]]

\* No fence of t is to come that could profit from what t has read.
Settle(m, t) == [m EXCEPT !.pend[t] = NoView(DOMAIN m.mo)]
=============================================================================
