-------------------------- MODULE OrderingExamples --------------------------
(***************************************************************************)
(* The examples on memory ordering of chapters 2, 3, 7 and 8 as programs   *)
(* of Litmus.  Where the code starts many equal threads, up to three are   *)
(* started, and loops run Rounds times.                                    *)
(***************************************************************************)
EXTENDS Litmus

CONSTANT Rounds   \* of a worker's loop: items in 02-01, increments in 07-04-03

ASSUME RoundsAssumption == Rounds \in Nat \ {0}

Workers == {"t1", "t2", "t3"}

\* A program whose code is that of main() and of the threads it starts.
Program(atomics, data, main, t1, t2, t3) ==
  [atomics |-> atomics, data |-> data, main |-> main, t1 |-> t1, t2 |-> t2, t3 |-> t3]

\* main() starts three equal threads and waits for their end.
Scope(atomics, data, code(_)) ==
  Program(atomics, data, <<Spawn(Workers), JoinAll(Workers)>>, code("t1"), code("t2"), code("t3"))

Loop(body(_)) == FlattenSeq([n \in 1..Rounds |-> body(n)])

\* 02-01-01: the thread works until it is told to stop.
StopFlag ==
  Program([STOP |-> FALSE], {},
          <<Spawn({"t1"}), Put("STOP", TRUE, Relaxed), JoinAll({"t1"})>>,
          <<Await("STOP", TRUE, Relaxed)>>, <<>>, <<>>)

\* 02-01-02: main() polls until all items are done.
ProgressReport ==
  Program([num_done |-> 0], {},
          <<Spawn({"t1"}), Await("num_done", Rounds, Relaxed), JoinAll({"t1"})>>,
          Loop(LAMBDA n : <<Put("num_done", n, Relaxed)>>), <<>>, <<>>)

\* Fault: the worker wakes main() before it stores.
UnparkFirst ==
  Program([num_done |-> 0], {},
          <<Spawn({"t1"}), AwaitParking("num_done", Rounds), JoinAll({"t1"})>>,
          Loop(LAMBDA n : <<Unpark("main"), Put("num_done", n, Relaxed)>>), <<>>, <<>>)

\* 02-01-02-01: main() parks, and the worker wakes it after every item.
ProgressWithUnpark ==
  Program([num_done |-> 0], {},
          <<Spawn({"t1"}), AwaitParking("num_done", Rounds), JoinAll({"t1"})>>,
          Loop(LAMBDA n : <<Put("num_done", n, Relaxed), Unpark("main")>>), <<>>, <<>>)

\* 08-03-01: main() waits on a futex until a is not 0.
FutexWaitForOne ==
  Program([a |-> 0], {},
          <<Spawn({"t1"}), AwaitFutex("a", 1), JoinAll({"t1"})>>,
          <<Put("a", 1, Relaxed), WakeOne>>, <<>>, <<>>)

Key(t) == CASE t = "t1" -> 1 [] t = "t2" -> 2 [] t = "t3" -> 3

\* Fault: the key is stored and read back.
LazyKeyStores ==
  Scope([KEY |-> 0], {}, LAMBDA t :
    <<Get("KEY", Relaxed), If({<<0>>}, 2), Put("KEY", Key(t), Relaxed), Get("KEY", Relaxed)>>)

\* 02-03-02: get_key() in three threads; whoever finds 0 generates a key.
LazyKey ==
  Scope([KEY |-> 0], {}, LAMBDA t :
    <<Get("KEY", Relaxed), If({<<0>>}, 1), Exchange("KEY", 0, Key(t), Relaxed, Relaxed, 0)>>)

\* 03-05-02: get_data() in three threads; the Box of a thread has its name.
\* The loser of the race frees its own Box.
LazyPointer ==
  Scope([PTR |-> "null"], Workers, LAMBDA t :
    <<Get("PTR", Acquire), If({<<"null">>}, 4),
        Use(t, "write"), Exchange("PTR", "null", t, Release, Acquire, 0),
        If({<<"null", u>> : u \in Workers \ {t}}, 1), Free(t),
      UseLast>>)

\* 03-03-01: the thread reads X while main() stores 2.
SpawnAndJoin ==
  Program([X |-> 0], {},
          <<Put("X", 1, Relaxed), Spawn({"t1"}), Put("X", 2, Relaxed),
            JoinAll({"t1"}), Put("X", 3, Relaxed)>>,
          <<Get("X", Relaxed)>>, <<>>, <<>>)

FourLoads == <<Get("X", Relaxed), Get("X", Relaxed), Get("X", Relaxed), Get("X", Relaxed)>>

\* 03-04: one thread adds 5 and 10 ...
OneAdder ==
  Program([X |-> 0], {},
          <<Spawn({"t1"}), Spawn({"t2"}), JoinAll({"t1"}), JoinAll({"t2"})>>,
          <<Add("X", 5), Add("X", 10)>>, FourLoads, <<>>)

\* ... or two threads do.
TwoAdders ==
  Program([X |-> 0], {},
          <<Spawn({"t3"}), Spawn({"t2"}), Spawn({"t1"}),
            JoinAll({"t1"}), JoinAll({"t2"}), JoinAll({"t3"})>>,
          <<Add("X", 5)>>, <<Add("X", 10)>>, FourLoads)

\* 03-05: READY publishes DATA.
ReleaseAcquire ==
  Program([DATA |-> 0, READY |-> FALSE], {},
          <<Spawn({"t1"}), Await("READY", TRUE, Acquire), Get("DATA", Relaxed)>>,
          <<Put("DATA", 123, Relaxed), Put("READY", TRUE, Release)>>, <<>>, <<>>)

\* 03-05-01: f() of three threads pushes to the String if it gets the lock.
TryLock ==
  Scope([LOCKED |-> FALSE], {"DATA"}, LAMBDA t :
    <<Exchange("LOCKED", FALSE, TRUE, Acquire, Relaxed, 2),
        Use("DATA", "write"), Put("LOCKED", FALSE, Release)>>)

\* Sets its own flag, and pushes unless the other's is set.
Claim(own, other, store, load) ==
  <<Put(own, TRUE, store), Get(other, load), If({<<FALSE>>}, 1), Use("S", "write")>>

\* Fault: Release and Acquire, which give no order of all four operations.
ReleaseAcquireClaims ==
  Program([A |-> FALSE, B |-> FALSE], {"S"},
          <<Spawn({"t1"}), Spawn({"t2"}), JoinAll({"t1"}), JoinAll({"t2"})>>,
          Claim("A", "B", Release, Acquire), Claim("B", "A", Release, Acquire), <<>>)

\* 03-07
SequentiallyConsistent ==
  Program([A |-> FALSE, B |-> FALSE], {"S"},
          <<Spawn({"t1"}), Spawn({"t2"}), JoinAll({"t1"}), JoinAll({"t2"})>>,
          Claim("A", "B", SeqCst, SeqCst), Claim("B", "A", SeqCst, SeqCst), <<>>)

\* What main() has read of the three flags of 03-08.
Flags == [1..3 -> BOOLEAN]

ReadIfReady(k, t) == <<If({r \in Flags : r[k]}, 1), Use(t, "read")>>

\* Fault: no fence.
NoFence ==
  Program([w \in Workers |-> FALSE], Workers,
          <<Spawn(Workers), Get("t1", Relaxed), Get("t2", Relaxed), Get("t3", Relaxed)>>
            \o ReadIfReady(1, "t1") \o ReadIfReady(2, "t2") \o ReadIfReady(3, "t3"),
          <<Use("t1", "write"), Put("t1", TRUE, Release)>>,
          <<Use("t2", "write"), Put("t2", TRUE, Release)>>,
          <<Use("t3", "write"), Put("t3", TRUE, Release)>>)

\* 03-08: main() looks once at all flags, and one fence stands for all of them.
OneFence ==
  Program([w \in Workers |-> FALSE], Workers,
          <<Spawn(Workers), Get("t1", Relaxed), Get("t2", Relaxed), Get("t3", Relaxed),
            If({r \in Flags : \E k \in 1..3 : r[k]}, 7), FenceAcquire>>
            \o ReadIfReady(1, "t1") \o ReadIfReady(2, "t2") \o ReadIfReady(3, "t3"),
          <<Use("t1", "write"), Put("t1", TRUE, Release)>>,
          <<Use("t2", "write"), Put("t2", TRUE, Release)>>,
          <<Use("t3", "write"), Put("t3", TRUE, Release)>>)

\* 07-04-03: increments under a spin lock with these orderings.
Increments(acquire, release) ==
  Loop(LAMBDA n : <<Swap("locked", acquire), Get("counter", Relaxed),
                    PutNext("counter", Relaxed), Put("locked", FALSE, release)>>)

TwoIncrementers(acquire, release) ==
  Program([locked |-> FALSE, counter |-> 0], {},
          <<Spawn({"t1", "t2"}), JoinAll({"t1", "t2"}), Get("counter", Relaxed)>>,
          Increments(acquire, release), Increments(acquire, release), <<>>)

\* The first half of 07-04-03, whose comments call its orderings wrong, and the
\* second.
RelaxedExperiment == TwoIncrementers(Relaxed, Relaxed)
Experiment == TwoIncrementers(Acquire, Release)

Examples ==
  [StopFlag |-> StopFlag, ProgressReport |-> ProgressReport,
   ProgressWithUnpark |-> ProgressWithUnpark, FutexWaitForOne |-> FutexWaitForOne,
   LazyKey |-> LazyKey, LazyPointer |-> LazyPointer, SpawnAndJoin |-> SpawnAndJoin,
   OneAdder |-> OneAdder, TwoAdders |-> TwoAdders, ReleaseAcquire |-> ReleaseAcquire,
   TryLock |-> TryLock, SequentiallyConsistent |-> SequentiallyConsistent,
   OneFence |-> OneFence, RelaxedExperiment |-> RelaxedExperiment,
   Experiment |-> Experiment]

-----------------------------------------------------------------------------
\* No access to data that are not atomic races: the String of 03-05-01 is
\* pushed to by one lock holder after the other, that of 03-07 by one thread at
\* most, the reads after the fence of 03-08 are ordered after the writes of the
\* entries seen ready, and a Box of 03-05-02 is read after its initialization.
NoDataRace ==
  \A t \in Threads : \A a \in NextAccess(t) :
    \A u \in Threads \ {t}, kind \in {"read", "write"} :
      (kind = "write" \/ a[2] = "write") => <<a[1], kind, u>> \in mem.view[t].hb

\* What comments and assertions in the programs expect.  f() of 03-03-01 finds
\* 1 or 2; whoever sees READY true in 03-05 finds 123 in DATA; no load of 03-04
\* goes back behind the one before; at most one thread of 03-07 finds the flag
\* of the other unset; and the correct lock of 07-04-03 loses no increment.  The
\* wrong lock of 07-04-03 may lose all but two: the last round of a thread may
\* read what the first of the other has stored.
OutcomesAsAsserted ==
  /\ example = "SpawnAndJoin" => out["t1"] \in {<<>>, <<1>>, <<2>>}
  /\ example = "ReleaseAcquire" => out["main"] \in {<<>>, <<123>>}
  /\ example \in {"OneAdder", "TwoAdders"} =>
       \A t \in Threads : \A i \in 2..Len(out[t]) : out[t][i - 1] <= out[t][i]
  /\ example = "SequentiallyConsistent" => out["t1"] # <<FALSE>> \/ out["t2"] # <<FALSE>>
  /\ example = "Experiment" => out["main"] \in {<<>>, <<2 * Rounds>>}
  /\ example = "RelaxedExperiment" =>
       out["main"] \in {<<>>} \cup {<<n>> : n \in Min({2, Rounds})..2 * Rounds}

\* All callers of get_key() (02-03-02) and of get_data() (03-05-02) return the
\* same key or pointer, whoever wins the race to create it; the Box behind that
\* pointer is alive, and every other Box that was allocated has been freed.
OneValue ==
  example \in {"LazyKey", "LazyPointer"} =>
    \A t \in Workers : Ended(t) =>
      /\ \A u \in Workers : Ended(u) => Last(out[u]) = Last(out[t])
      /\ Last(out[t]) \notin freed
      /\ example = "LazyPointer" /\ Len(out[t]) = 2 =>
           (t \in freed <=> Last(out[t]) # t)

\* main() ends.  In 02-01-02-01 it is enough that it is unparked: the timeout
\* of park_timeout() is never needed.  In 08-03-01 the futex does not sleep on a
\* value that has changed.
Termination == <>Finished
=============================================================================
