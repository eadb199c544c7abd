---------------------------- MODULE ChannelCell ----------------------------
(***************************************************************************)
(* What the one-shot channels of chapter 5 share: a cell for one message,  *)
(* UnsafeCell<MaybeUninit<T>>, the atomic variable that publishes it, and  *)
(* thread parking.                                                         *)
(*                                                                         *)
(* mo is the modification order of the atomic: all the values it has had,  *)
(* the current one last.  A load by t may return any of them from the      *)
(* index seen[t] on (coherence); a read-modify-write reads the last.       *)
(***************************************************************************)
EXTENDS Naturals, Sequences, FiniteSets, FiniteSetsExt, MemoryModel

CONSTANT Uninit

VARIABLES message,   \* the content of the cell; it stays when it is moved out
          mo,        \* the values of Channel.ready (05-03 state: of .state)
          seen,      \* index in mo of the oldest value a thread may load
          view,      \* what the last store to the atomic publishes
          hb,        \* accesses to the cell that happen before each thread
          taken,     \* how often each message was moved out or dropped
          pc,        \* where each thread is
          token      \* for each thread the seen of its unparker, 0: no token

cellVars == <<message, mo, seen, view, hb, taken, pc, token>>

\* A new channel and its threads; first is the initial value of the atomic.
CellInit(threads, messages, first) ==
  /\ message = Uninit
  /\ mo = <<first>>
  /\ seen = [t \in threads |-> 1]
  /\ view = threads
  /\ hb = [t \in threads |-> threads]
  /\ taken = [m \in messages |-> 0]
  /\ token = [t \in threads |-> 0]

Goto(t, label) == pc' = [pc EXCEPT ![t] = label]

Current == mo[Len(mo)]

\* t loads the i-th value.
LoadAt(t, i) == seen' = [seen EXCEPT ![t] = i]

Loadable(t) == seen[t]..Len(mo)

\* t writes v, in a store or in a read-modify-write.  Writes of one value in a
\* row count as one, as no load can tell them apart.
Store(t, v) ==
  /\ mo' = IF Current = v THEN mo ELSE Append(mo, v)
  /\ seen' = [seen EXCEPT ![t] = Len(mo')]

\* t reads or writes the cell.
Access(t) ==
  /\ hb' = AfterAccess(hb, t, t)
  /\ view' = ViewAfterAccess(view, t)

\* MaybeUninit::write: what the cell held before is not dropped.
WriteMessage(t, m) ==
  /\ Access(t)
  /\ message' = m

\* The message m has one more owner, or is dropped once more.
Take(m) == taken' = [n \in DOMAIN taken |-> IF n = m THEN taken[n] + 1 ELSE taken[n]]

\* assume_init_read and assume_init_drop make no check and leave the cell as
\* it is.
TakeMessage(t) ==
  /\ Access(t)
  /\ Take(message)
  /\ UNCHANGED message

\* Thread::unpark of u by t, who may have a token already.
Unpark(t, u) == token' = [token EXCEPT ![u] = Max({@, seen[t]})]

\* thread::park of t returns with a token: t sees what its unparker saw.
ParkReturns(t, label) ==
  /\ token[t] # 0
  /\ token' = [token EXCEPT ![t] = 0]
  /\ seen' = [seen EXCEPT ![t] = Max({@, token[t]})]
  /\ Goto(t, label)
  /\ UNCHANGED <<message, mo, view, hb, taken>>

\* thread::park may return although there is no token.
SpuriousReturn(t, label) ==
  /\ token[t] = 0
  /\ Goto(t, label)
  /\ UNCHANGED <<message, mo, seen, view, hb, taken, token>>

\* All other accesses happen before the next one of t.
OrderedAfterOthers(t) == DOMAIN hb \ {t} \subseteq hb[t]
=============================================================================
