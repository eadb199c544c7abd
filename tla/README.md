# TLA+ models of the concurrent programs in `src/examples`

The repository holds the example programs of a book on atomics and locks. Each
file under `src/examples` is a program of its own: a small concurrent data
structure and a `main()` that uses it from several threads. The models here
cover the data structures, under clients that do what `main()` does with more
threads, more rounds and in more orders.

## The parts of the system

| Part | Files (`src/examples/`) | State | Operations | Model |
| --- | --- | --- | --- | --- |
| Mutex, two states | `09-01_mutex.rs` | `state` 0/1, value | `lock`, guard `deref`, `drop` | `FutexMutex`, `MutexProofs` |
| Mutex, three states | `09-01-01_avoiding-system-call.rs` | `state` 0/1/2, value | the same | `Mutex`, `MutexProofs` |
| Mutex that spins first | `09-01-02_…`, `09-01-03_…` (same code) | the same and `spin_count` | `lock`, `lock_contented`, `drop` | `SpinningMutex`, `MutexProofs` |
| Spin locks | `04-01_…`, `04-02_…`, `04-03_…` | `locked`, value | `lock`, `unlock`, guard | `SpinLock`, `SpinLockProofs` |
| Unsafe one-shot channel | `05-02_…` | cell, `ready` | `send`, `is_ready`, `receive`, `drop` | `UnsafeChannel`, `OneShotProofs` |
| Channel with run-time checks | `05-03_safety-through-…` | cell, `in_use`, `ready` | the same, may panic | `CheckedChannel`, `SharedChannelProofs` |
| Channel with one atomic | `05-03_represent_channel_…` | cell, `state` | the same, may panic | `StateChannel`, `SharedChannelProofs` |
| Channel with two types | `05-04_…` | cell, `ready`, two `Arc`s | `channel`, the same, drops of both halves | `TypedChannel`, `OneShotProofs` |
| Borrowing channel | `05-05_…` | cell, `ready` | `split`, the same | `SplitChannel` (`PollSpec`), `OneShotProofs` |
| Blocking channel | `05-06_…` | cell, `ready`, park token | `split`, `send`, `receive`, `drop` | `SplitChannel` (`BlockSpec`), `OneShotProofs` |
| Channel on std's mutex | `05-01_…` | queue, condition variable | `send`, `receive` | `CondvarQueue` (`ChannelSpec`), `QueueProofs` |
| `Arc` | `06-01_…`, `06-01-02_…` | `ref_count` | `clone`, `deref`, `drop`, `get_mut` | `BasicArc`, `ArcStepProofs`, `ArcProofs` |
| `Arc` and `Weak` | `06-02_…` | two counters | and `upgrade`, `downgrade` | `WeakArc` |
| `Arc` and `Weak`, optimized | `06-03_…` | two counters, one with a lock value | the same | `OptimizedArc` |
| Queue with parking | `01-08-01_…` | queue, park token | push and `unpark`, pop or `park` | `ParkingQueue`, `QueueProofs` |
| Queue with condition variable | `01-08-02_…` | queue, condition variable | push and `notify_one`, pop or `wait` | `CondvarQueue` (`LoopSpec`), `QueueProofs` |
| Flag, progress | `02-01-*` | one atomic | store, load, park with timeout | `OrderingExamples` |
| Statistics | `02-02-02_…` | three counters, or one mutex | record, report | `Statistics` |
| Ids | `02-02-03_…`, `02-03-01_…` | `NEXT_ID` | four ways to allocate | `IdAllocation`, `IdAllocationProofs` |
| Lazy values | `02-03-02_…`, `03-05-02_…` | `KEY`, `PTR` | get or create | `OrderingExamples` |
| Ordering examples | `03-03…`, `03-04…`, `03-05…`, `03-05-01…`, `03-07…`, `03-08…`, `07-04-03…` | a few atomics | straight-line threads | `OrderingExamples`, without `03-04_out-of-thin-air.rs` |
| Futex wrappers | `08-03-01_futex.rs` | one futex word | `wait`, `wake_one` | `OrderingExamples`; the calls themselves are system calls |
| Benchmarks | `07-02-02_*` | – | they measure time | not modelled |
| Thread basics | `01-01_*`, `01-02_…`, `src/src/main.rs` | none shared | spawn, join, print | not modelled |

The programs do not call each other. What they have in common is the memory
model, thread parking, the futex calls, and the `Mutex` and `Condvar` of the
standard library; these are external to the repository and modelled from how it
uses them.

## How the code is modelled

**Steps.** One action per atomic operation, per system call and per access to
the data behind an `UnsafeCell`; `pc[t]` names the next one of thread `t`. A
read-modify-write of plain data (`*guard += 1`, `Vec::push`) is two actions, a
read and a write, so that a lock which fails to exclude loses updates. `wait()`
compares and enqueues in one step, as the futex does; the swap in `drop()` and
the `wake_one()` after it are two steps.

**Memory orderings** (`MemoryModel`). `hb[t]` is the set of data accesses that
happen before the next step of `t`; a Release operation puts it into the `view`
of the atomic, an Acquire operation adds that view to `hb`, and a new access by
one thread leaves everybody else's `hb` and every view. An access by `t` is
free of races if every other thread's latest access is in `hb[t]`. Turning an
Acquire or a Release of the code into Relaxed breaks `NoDataRace`.

**Old values.** A load need not return the last value. The mutexes keep for
each thread the set of values it may still load (`readable`), without their
order: this allows at least what the memory model allows. The channels keep the
modification order `mo` of the atomic and for each thread the oldest index
`seen` that coherence lets it load. A successful read-modify-write always
reads the last value. In 05-02 and 05-04 to 05-06 the sequence is at most three
long in each round. `unpark()` hands its caller's `seen` to the thread that
`park()` returns to; without that, a receiver could read an old `ready` after
the last wake-up and park forever.

The `Arc`s and the ordering examples have several atomics and fences, and join
the two parts (`AtomicMemory`): each message of an atomic carries a view, which
is what an Acquire read of it learns, both of the accesses and of the other
atomics; a Relaxed read keeps the view aside for the fence that may follow. An
access there is named by datum, kind and thread, so that two reads do not race.
In the `Arc`s, messages that no thread can load any more, and what threads
without a handle know, are forgotten (`Forget`), which keeps the state space
small and changes nothing a thread can still observe. A thread executes its
operations in program order, so that a store cannot be seen before a load that
precedes it in the same thread. SeqCst operations are ordered as the steps are;
the two atomics with SeqCst operations (03-07) have no others.

**Short programs** (`Litmus`). The examples of chapters 2, 3, 7 and 8 that are a
few statements per thread are sequences of statements, which `Litmus`
interprets: one action per kind of statement, one step per statement.
`OrderingExamples` has the fifteen programs, with the orderings in the code.
`out[t]` is what thread `t` has read.

**Queues** (`Queue`). The guard of the standard library's mutex is `owner`, which
excludes and orders; `Condvar::wait` unlocks and sleeps in one step, and
`notify_one()` wakes one sleeping thread if there is any. The push with its
guard ends before the sender wakes anybody: two steps.

**Counters.** `NEXT_ID` is reduced to `Modulus` values and wraps around. What a
thread may load of it in 02-03-01, where it only counts up, is any value between
the last one it read and the current one. In `Statistics`, `mo` keeps of each
field the values that `main()`, its only reader, may still load.

**Wake-ups.** `wait()` (of the futex and of the condition variable) and `park()`
may return for no reason. `park()` returns
at once if there is a token, and a token may be left from an earlier round.

**Ownership.** The cell of a channel is not cleared by `receive()`: as in the
code, `assume_init_read` leaves its bytes. `taken[m]` counts how often message
`m` was moved out or dropped; correct code brings it to exactly 1.

An `Arc` or a `Weak` is one unit of `arcs[t]` or `weaks[t]`; `dropped` and
`freed` count the ends of the value and of its memory. Whoever has an `Arc` may
read the value at any time. The model contains the last of these reads, just
before the `Arc` is dropped: what is ordered after it is ordered after the
earlier ones.

**Data.** Payloads are names: a sender's own name, the number of a round, or a
pair of worker and index. Timing, `black_box`, sleeping and printing are left
out, except for the number that `main()` of the mutex programs prints and the
three that the statistics report.

Operators whose comment begins with "Fault:" are deliberate mistakes. No
specification uses them; each is put in the place of the definition that
follows it to see that a property notices.

## Modules

- `MemoryModel`: operators for happens-before and for old values.
- `LockedCounter`: the abstract specification of a mutex with its client.
  `Acquire`, `Increment`, `PrintTotal`, `Release` are atomic.
- `MutexClient`: `struct Mutex`, the guard's `deref`, `main()` of the
  chapter 9 programs, the refinement mapping to `LockedCounter` (the holders
  are the threads between lock and drop).
- `FutexMutex`, `Mutex`: `lock()` and `drop()` of 09-01 and 09-01-01.
- `SpinningMutex`: extends `Mutex` by `lock_contented()` of 09-01-02. Mapped to
  `Mutex` by reading a spinning or retrying thread as one that is still before
  its first exchange.
- `MutexProofs`: the proofs about the three.
- `SpinLock`, `MCSpinLock`: the three spin locks under `main()` of 04-03.
  `SpinLockProofs`: the proofs.
- `ChannelCell`: cell, atomic, parking.
- `OneShotHalves`: the statements of `send`, `is_ready`, `receive` and the
  client of the channels with one sender and one receiver. `UnsafeChannel`,
  `TypedChannel`, `SplitChannel` put them together; `MCOneShotChannels` is the
  union of the four, `channel` being chosen at the start. `OneShotProofs`: the
  proofs, of the instances `U`, `T` and `S` and of the union.
- `SharedChannel`: the same for the channels of 05-03, which any number of
  threads may call. `CheckedChannel`, `StateChannel` add the run-time checks;
  `MCSharedChannels` is the union of the two. `SharedChannelProofs`: the proofs, of
  the instances `C` and `A`.
- `AtomicMemory`: several atomics and the data they protect, as pure operators on
  a memory. `RefCount`: the statements that the `Arc`s share, their client, their
  properties. `BasicArc` (06-01 and 06-01-02), `WeakArc` (06-02), `OptimizedArc`
  (06-03) put them together and add what they do differently; `MCArcs` is the
  union of the three. `ArcStepProofs`: the inductive invariants of `BasicArc` and
  `WeakArc`, that every step keeps them, and the lemmas on `AtomicMemory` this needs;
  `ArcProofs`: the counting of the handles, and the theorems.
- `Fifo`: the abstract specification of a queue: one line of items, of which each
  receive takes the first that is left. `Queue`: the queue in its mutex, the
  senders, and the refinement mapping to `Fifo` (the line is what has been
  received and then what is queued). `ParkingQueue`, `CondvarQueue` add the
  receivers; `MCQueues` is the union of the three programs. `QueueProofs`:
  the proofs about both.
- `Litmus`, `OrderingExamples`: the short programs.
- `IdAllocation`, `Statistics`: the counters of chapter 2; `MCCounters` runs the
  one or the other. `IdAllocationProofs`: the proof about the ids.

Every client does at least what the example's `main()` does. Beyond that: the
clients of 05-04 to 05-06 may leave a half unused and may, where the code
permits, call `receive()` without asking `is_ready()`; the client of 05-02 keeps
the contract in the comment on `Channel`; that of 05-03 calls `send()` from all
senders and `receive()` from several threads at once. A client that waits for a
message nobody sends waits forever in this API (05-06 has no notion of a
dropped sender); such clients are left out. The threads of the `Arc`s start with
handles as in the tests, and call anything their handles allow, in any order;
handles are not passed on after the start. The queues have more senders and
receivers than `main()` starts, except that 01-08-01 has one consumer, the one
whose handle the producer has. `usize` is reduced to `MaxUsize`,
with the limit of `clone()` at half of it (`RefCountAssumption`: fewer threads
than numbers above the limit).

## Runs

| Run | Instance | Distinct states |
| --- | --- | --- |
| `Mutex` | 3 workers, 2 iterations | 37,261 |
| `FutexMutex` | 3 workers, 2 iterations | 14,857 |
| `SpinningMutex` | 3 workers, 1 iteration, `SpinLimit` 2 | 16,933 |
| `Mutex_StateOne` | 3 workers, 1 iteration | stops at the violation |
| `SpinLock` | 4 workers with 1, 2, 1, 2 pushes, both kinds of lock | 1,254 |
| `OneShotChannels` | 3 rounds, four channels | 1,590 |
| `UnsafeChannel_Drop` | 1 round | stops at the violation |
| `SharedChannels` | 3 senders, `main()`, up to 2 eager receivers, two channels | 41,214 |
| `Arcs` | 3 threads, `MaxUsize` 9, at most 3 calls besides reads and drops, three `Arc`s | 69,658 |
| `Queues` | 2 senders with 2 items, 3 receivers with 2, 1, 1 calls; three queues | 351,133 |
| `Orderings` | 15 programs, up to 3 threads besides `main()`, 3 rounds | 5,813 |
| `Counters` | 3 threads, 4 calls, limit 3, `Modulus` 7; 2 workers, 2 items, times 1 and 2 | 323,665 |

*Bounds.* Three workers are the least with which one thread unlocks, one is
woken and a third overtakes it or sleeps on; two iterations let a thread come
back to a lock whose waiters it has just woken. Two spins separate "below the
limit", "at the limit" and "left early". Three rounds let a message and a park
token of one round meet the next one, and the next but one. Three senders are
one that gets through and two that meet each other's panic. In `Arcs` the
`Arc`s without `Weak` start with every distribution of handles and three calls;
for the other two, `WeakStarts` and `OptimizedStarts` choose between two threads
with three calls (say `downgrade`, `upgrade` and `get_mut` while the other drops)
and more handles with fewer calls (so that the limit of `clone()` is reached, and
three threads drop at the same time). In `Queues` two senders can both be between
push and wake-up while three receivers sleep, are woken for nothing, or take
the item another one was woken for. In `Counters`, twelve calls take `NEXT_ID`
past the limit and around, and three threads exceed the limit at the same time.
Three rounds in `Orderings` let a park token stand for two items while a third
is still to come. The assertions in the loops of `upgrade()`
and `downgrade()` are in the model, but no counter gets that far. Nothing else is
bounded: counters and sequences end with the programs.

*What is checked.*

- `NoDataRace` (mutexes of 09-01 and 09-01-01, spin locks, one-shot channels,
  `Arcs`, `Orderings`): each access to the protected data or the cell is ordered
  after the other threads' accesses.
- `ImplementsLockedCounter` (`Mutex`, `FutexMutex`): the mutex with its client
  is an atomic counter whose final value is printed. `ImplementsMutex`
  (`SpinningMutex`): the spin phase adds no behaviour.
- `NoLostWakeup` (`Mutex`), `FutexNoLostWakeup` (`FutexMutex`): while a thread sleeps, there is
  something left that leads to its being woken. (`Queues`): while a receiver
  sleeps, there are no more items than senders about to wake somebody and
  receivers awake.
- `ImplementsFifo` (`Queues`): the queue with its mutex and wake-ups is a `Fifo`;
  nothing is lost, received twice or overtaken.
- `AllDelivered` (`Queues`): every item is sent and received.
- `GuardIsAtomic` (`SpinLock`): the items pushed under one guard are adjacent
  and none is lost, which the assertions in `main()` follow from.
- `ReceivesMessage` (channels): `receive()` returns a message that was sent, in
  this round, and that nobody has taken.
- `TakenOnce`, `SafeTakenOnce`: every message is moved out or dropped exactly
  once by the end, whatever panics or is dropped unused, and in which order.
- `MainNeverPanics` (`SharedChannels`): if `main()` is the only receiver, a true
  `is_ready()` is enough for `receive()`, although it is a Relaxed load and a
  comment says that it is not (see below).
- `GetMutIsExclusive` (`Arcs`): when `get_mut()` returns a reference, no other
  handle exists and no other thread is inside an operation, although it decides
  on one or two Relaxed loads.
- `AliveWhileOwned` (`Arcs`): the value outlives every `Arc` and the memory every
  handle and every operation under way; each ends once, in this order.
- `AllocCountIsExact` (`Arcs`, 06-03): `alloc_ref_count` is the number of `Weak`s
  and the implicit one, or the lock value while a `get_mut()` holds it.
- `CountWithinLimit` (`Arcs`, 06-01 and 06-02): `clone()` checks after its increment,
  and `upgrade()` asserts only that its counter is below `usize::MAX`, yet no counter comes near its wrap-around.
- `OutcomesAsAsserted` (`Orderings`): the values that comments and assertions of
  the ordering examples name, and no others, are read. The lock of 07-04-03 with
  Acquire and Release loses no increment. The one that its comments call wrong ends
  with any number from 2 up (TLC reaches each): the last round of a thread may
  read what the first round of the other has stored.
- `OneValue` (`Orderings`): all callers of a lazy initialization get the same
  value; its `Box` is alive and every other one is freed.
- `IdsAreExact` (`Counters`): the ids of 02-03-01 and of the version with
  `fetch_sub` are unique and below the limit, and their callers panic only when
  none is left, although `NEXT_ID` may be beyond the limit for a while. That it is
  so far beyond that it overflows before anybody subtracts takes as many threads as
  there are numbers above the limit, and is excluded by `IdAssumption`. The other
  two versions repeat ids after a wrap-around, and only then.
- `ReportsAreConsistent` (`Counters`): under the mutex, the three numbers of a
  report belong to the same items. Of the three atomics of
  `inaccurate_statistics()` no such thing holds, as its comment (lines 31-35) says;
  only that none of the numbers goes back from one report to the next.
- `Termination`: `main()` ends; in `Arcs`, the value and its memory are gone or the
  process was aborted. In `Orderings` this includes that 02-01-02-01 does not need
  the timeout of `park_timeout()`.
- `TypeOK` (`Mutex`), `FutexTypeOK` (`FutexMutex`): types, and that no worker makes more
  increments than it should.

*Fairness.* Every thread that can take a step of its program takes one in the
end (weak fairness per thread), which a preemptive scheduler gives. Spurious
wake-ups are never fair. In 02-03-01, 06-02 and 06-03 an exchange that is repeated
finds the newest value in the end and does not fail spuriously forever. The
exchange of 04-01 may fail spuriously, but not forever while the lock stays
free. Where a thread loops on loads (02-01, 02-02-02, 03-05, 05-02, 08-03-01), a store
becomes visible in finite time, as the language promises; in `Litmus` and
`Statistics` that is strong fairness of the load that returns the newest value. In
02-02-02, `main()` sleeps between its reports and the workers between their items,
both without the guard, so that `Lock` is strongly fair. In `Queues` no fairness of
the mutex is assumed: a receiver that is woken for nothing again and again might
keep the others from it, so `AllDelivered` has the premise that this ends. The locks do
not promise fairness between threads, and none is assumed: with finitely many
iterations the others eventually stop competing.

*Deadlock* is checked in every run: the only state without a further step of
the program is the end of `main()`. In `SharedChannels` a client whose message
is taken by an eager receiver leaves `main()` parked; a spurious return is then
still possible, and `Termination` is stated for the clients in which `main()`
alone receives. The loops of 01-08-01 and 01-08-02 never end; there a receiver
that has nothing to do sleeps, and a spurious return is possible.

## Where the comments and the code differ

- `Mutex_StateOne`. The comment on `Mutex.state` in 09-01-01 (line 10) says that
  1 means "ロックされており、待機中のスレッドがない状態", no thread is waiting.
  One thread has the lock, a second sleeps after its `swap(2)`. The owner's
  `drop()` swaps 2 to 0, and before it calls `wake_one()` a third thread
  exchanges 0 for 1, while the second still sleeps. This does no harm, as the
  `wake_one()` is still to come and the woken thread sets 2: that is why
  `NoLostWakeup` has to count a thread before its `wake_one()` or its `swap(2)`
  among the reasons for which a sleeper will be woken.
- `UnsafeChannel_Drop`. `receive()` of 05-02 leaves `ready` true, so the
  channel's `drop()` drops a message that has been moved out, although its
  comment (line 85) wants to drop "値が初期化済みの場合のみ", only an initialized
  value, and the client has kept the contract. The later channels clear the
  flag in `receive()`, and `SafeTakenOnce` holds for them.
- `MainNeverPanics`, which holds. The comment on `is_ready()` of
  `05-03_safety-through-runtime-checks.rs` (lines 45-46) says that after a true
  `is_ready()` it is "保証されていない", not guaranteed, that `receive()` in the
  same thread finds true, because the load is Relaxed. For a thread that is the
  only receiver it is guaranteed: `receive()` is a `swap`, which reads the newest
  value of `ready`, and after the store of `send()` only `receive()` clears it.
  `main()` depends on this. What Relaxed does not give is the order with the write
  of the message, and that comes from the `swap` (lines 48-49). With a second
  receiver, which may take the message in between, the comment is right; the
  property leaves those clients out.

## Proofs

The theorems hold for every value of the constants that satisfies the named
assumption of the module; nothing else is assumed.

| Module | Theorem | Statement | From |
| --- | --- | --- | --- |
| `MutexProofs` (09-01-01) | `Invariance` | `Spec => []IInv` | `ClientAssumption`: finitely many workers, `Main` not among them, a positive number of iterations |
| | `TypeCorrect` | `Spec => []TypeOK` | |
| | `DataRaceFree` | `Spec => []NoDataRace` | |
| | `WakeupNotLost` | `Spec => []NoLostWakeup` | |
| | `Refinement` | `Spec => ImplementsLockedCounter` | |
| `MutexProofs` (09-01) | `FutexInvariance` and `FutexTypeCorrect`, `FutexDataRaceFree`, `FutexWakeupNotLost`, `FutexRefinement` | the same of `FutexSpec`, `FutexTypeOK`, `FutexNoLostWakeup` | `ClientAssumption` |
| `MutexProofs` (09-01-02) | `SpinningRefinement` | `SpinSpec => ImplementsMutex` | `ClientAssumption` |
| | `SpinInvariance` | `SpinSpec => []SpinInv` | |
| | `SpinDataRaceFree` | `SpinSpec => []NoDataRace` | |
| | `SpinWakeupNotLost` | `SpinSpec => []NoLostWakeup` | |
| `SpinLockProofs` (04-01 to 04-03) | `SpinLockRaceFree` | `SwapSpec \/ ExchangeSpec => []NoDataRace` | `SpinLockAssumption`: finitely many workers, each with a positive number of pushes |
| | `SpinLockAtomic` | `SwapSpec \/ ExchangeSpec => []GuardIsAtomic` | |
| `SharedChannelProofs` (05-03, two flags) | `CheckedInvariance` | `C!Spec => []CheckedInv` | `SharedAssumption`: finitely many senders and eager receivers, no thread in two roles |
| | `CheckedRaceFree` | `C!Spec => []NoDataRace` | |
| | `CheckedReceives` | `C!Spec => []ReceivesMessage` | |
| | `CheckedTakenOnce` | `C!Spec => []TakenOnce` | |
| | `CheckedMainNeverPanics` | `C!Spec => MainNeverPanics` | |
| `SharedChannelProofs` (05-03, one state) | `StateInvariance`, `StateRaceFree`, `StateReceives`, `StateTakenOnce`, `StateMainNeverPanics` | the same of `A!Spec` and `StateInv` | `SharedAssumption` |
| `OneShotProofs` (05-04) | `TypedInvariance` | `T!Spec => []TypedInv` | `RoundsAssumption`: at least one round |
| | `TypedIsSafe` | `T!Spec => []NoDataRace /\ []ReceivesMessage /\ []TakenOnce` | |
| `OneShotProofs` (05-05, 05-06) | `SplitInvariance` | `S!PollSpec` and `S!BlockSpec` imply `[]SplitInv` | |
| | `PollIsSafe`, `BlockIsSafe` | as `TypedIsSafe`, of `S!PollSpec` and of `S!BlockSpec` | |
| `OneShotProofs` (05-02) | `UnsafeInvariance` | `U!Spec => []UnsafeInv` | |
| | `UnsafeIsSafe` | `U!Spec => []NoDataRace /\ []ReceivesMessage` | |
| `OneShotProofs` (the four together) | `ChannelInvariance` | `MCSpec => []ChannelInv` | `RoundsAssumption` |
| | `OneShotRaceFree` | `MCSpec => []NoDataRace` | |
| | `OneShotReceives` | `MCSpec => []ReceivesMessage` | |
| | `OneShotTakenOnce` | `MCSpec => []SafeTakenOnce` | |
| `ArcProofs` (06-01, 06-01-02) | `BasicInvariance` | `BasicSpec => []BasicInv` | `RefCountAssumption`: finitely many threads, fewer than numbers between the limit of `clone()` and `usize::MAX` |
| | `BasicRaceFree` | `BasicSpec => []NoDataRace` | |
| | `BasicGetMutExclusive` | `BasicSpec => []GetMutIsExclusive` | |
| | `BasicAlive` | `BasicSpec => []AliveWhileOwned` | |
| | `BasicCountWithinLimit` | `BasicSpec => []CountWithinLimit` | |
| `ArcProofs` (06-02) | `WeakInvariance` | `Spec => []WeakInv` | `RefCountAssumption` |
| | `WeakRaceFree` | `Spec => []NoDataRace` | |
| | `WeakGetMutExclusive` | `Spec => []GetMutIsExclusive` | |
| | `WeakAlive` | `Spec => []AliveWhileOwned` | |
| | `WeakCountsWithinLimit` | `Spec => []CountsWithinLimit` | |
| `QueueProofs` (05-01, 01-08-02) | `CondvarWakeup` | `ChannelSpec \/ LoopSpec => []NoLostWakeup` | `QueueAssumption`: finitely many senders and receivers, no thread both |
| | `CondvarFifo` | `ChannelSpec \/ LoopSpec => ImplementsFifo` | |
| `QueueProofs` (01-08-01) | `ParkingWakeup` | `ParkSpec => []NoLostWakeup` | `QueueAssumption` |
| | `ParkingFifo` | `ParkSpec => ImplementsFifo` | |
| `IdAllocationProofs` (02-02-03, 02-03-01) | `IdsExact` | `IdSpec => []IdsAreExact` | `IdAssumption`: `Limit` plus the number of threads is below `Modulus` |

**Mutexes.** The inductive invariant `IInv` is the conjunction of `TypeOK`,
`NoLostWakeup` and three formulas that the checked properties do not state:

- `Exclusive`: at most one thread is between lock and drop, and `state = 0`
  exactly if none is. Without the equivalence, the thread that finds 0 could
  not be shown to be alone.
- `Ordered`: the owner's `hb` contains all accesses; with no owner, the view of
  `state` does. The second half carries the first one from `drop()` to the next
  `lock()`.
- `Local`: what a worker has read is the current value until it writes; a
  worker in its loop has an iteration left, and one that is done has none;
  `main()` leaves `join` only when all are done. The refinement of `Increment`
  needs the first, `TypeOK` the second (`left` stays a natural number),
  `PrintTotal` the last two.

For 09-01-01 one lemma per conjunct shows that every action preserves it; for
09-01, whose invariant `FutexInv` has the same three formulas, one lemma per group
of actions. `NoLostWakeup` of 09-01-01 is
inductive given `TypeOK` and `Local`: `drop()` that takes 2 away goes to
`wake_one()`, `wake_one()` hands over to a thread before `swap(2)`, and
`swap(2)` restores 2. The refinement maps `WriteValue` to `Increment`,
`PrintValue` to `PrintTotal`, a lock operation that finds 0 to `Acquire`, `Unlock`
to `Release`, and everything else to stuttering.

The refinement of 09-01-02 reads a spinning or retrying thread as one before its first
exchange: a retry that succeeds or goes on to `swap(2)` is then the first
exchange, and the spin phase stutters. Safety is proved of 09-01-02 itself: `SpinInv`
is `IInv` with the two labels of the spin phase added to the types. The steps it
shares with `Mutex` keep it by the argument above, and spinning changes the place of
one thread only. A thread that spins or retries is not among the reasons for which a
sleeper will be woken (it may take the lock with 1), so `NoLostWakeup` must not lose one
when a thread enters the spin phase; it does not, as only a thread before its first
exchange does.

**Spin locks.** `Exclusive` and `Ordered` as above. `GuardIsAtomic` needs `Blocks`:
while a worker pushes, what it has pushed so far stands at the *end* of the
vector, and what `Vec::push` has read is the current vector. A block that is
complete stays where it is, as the vector only grows.

**Channels of 05-03.** Both are one argument, `SharedInv(k)`, about the length of the
modification order: up to `k` values the message is not published, with `k + 1`
it is, with `k + 2` a receiver has claimed it, and it never gets longer; `k` is 1 for
`ready` and 2 for `state`. `OneSender` says that the check in `send()` lets one
sender through; `Publication` and `Ordered` tie the order of the accesses to the
length; `Readers` says that one thread at a time is between the exchange and the
read in `receive()`; `Owners` gives for each sender and each length how often its
message is taken. `TakenOnce` is about the end only, and none of these follows from
it. `MainNeverPanics` needs `Claims`: `main()` has seen the publication when it calls
`receive()`, and whoever claimed the message is in `receive()` or past it. The module
proves a lemma for each of the statements of `SharedChannel`, and then for each channel
what its own actions do (`CheckedSend` and so on).

**Channels of 05-02 and 05-04 to 05-06.** `HalvesInv` holds in all four: `ready` has
been true in this round only after the store of this round's `send()`, the cell
then holds the message of the round, and who acquires from the store is ordered
after all accesses. `Owners(open)` gives the exact number of takers of every
message of every round: one, unless the message is not sent, is still in the
open channel, or is being read. `open` is what the drop of the content hangs on: in
05-04 that one of the two `Arc`s is left (`Holders`), in 05-05 and 05-06 that the
last scope has not ended, as `split()` drops what an earlier round has left. For 05-02,
where `ready` stays true, `Untaken` takes the place of `Owners`; it needs the
contract in the comment.

**`Arc` (06-01).** `Counted` says that `ref_count` is the number of `Arc`s (as the
cardinality of the set of pairs of an owner and a number) and of the threads on
their way to `abort()`; with `CountWithinLimit` this keeps the counter from
wrapping. `Phase` and `Alone` say how far the last `drop()` has got, and that the
thread in `get_mut()` has the only `Arc`. Two conjuncts are about the memory. `Loads`:
among the old values that an owner of an `Arc` may still load, only the newest one can
be 1. That makes the Relaxed load in `get_mut()` safe: the counter was 1 after the
owner's own view of it only if it is 1 now, because whoever else takes it up from 1
must have an `Arc` to clone. `Ordered`: the newest message publishes the accesses of
all threads that have dropped their last `Arc`, since every later read-modify-write
passes on what the one before it published. TLC checked `BasicInv` beforehand on an
instance in which `clone()` reaches its limit.

**`Arc` with `Weak` (06-02).** `WeakInv` has the same parts for two counters that tell
about each other.

- `WeakCounted`: `alloc_ref_count` is the exact number of handles, the `Weak` inside
  an `Arc` that is being made or dropped included (`Held`). `data_ref_count` is known
  only between two numbers (`Sure`, `Possible`): a thread on its way to `abort()` got
  there from the first or from the second of the two increments in `clone()`, and
  nothing in its state tells which. The lower bound keeps the value alive, the upper
  one is never above `alloc_ref_count`, which is where `CountsWithinLimit` comes from.
- `WeakLocal`: a thread in `upgrade()` has a `Weak`, and one between the increments of
  `clone()` an `Arc`. It makes up for the limit that `upgrade()` does not check.
- `ValuePhase` and `BoxPhase`: the value ends with the last `Arc` and the memory with
  the last `Weak`; each has one thread that ends it.
- `WeakLoads`: an owner of an `Arc` that loads 1 from `alloc_ref_count` has loaded the
  newest value; a thread that has only a `Weak` may well load an old 1.
- `WeakOrdered`: `data_ref_count` publishes the accesses of the threads without an
  `Arc`, `alloc_ref_count` those of the ones among them that have also dropped the
  `Weak` in it. `get_mut()` reads the second counter only, and therefore needs the
  second sentence.

The proof found that `Init` of `WeakArc` admitted states the program cannot be in: with
an `Arc` and a `Weak` for every thread the counter could start above the limit that
`clone()` enforces. `InitWith` now keeps to what `clone()` makes without `abort()`. TLC
has checked `WeakInv` with two threads and three calls, from all these starts and with
`clone()` reaching its limit.

The argument has three layers, so that each lemma sees only what it needs. The *laws*
(`RmwLaw`, `LoadLaw`, `AccessLaw`, `FencedLaw`, `ContinueLaw`) say what each operator of
`AtomicMemory` does to the types, the newest message, the views and the values that can
still be loaded; `MemoryLaws` proves them. The *facts* (`BasicFacts`, `WeakFacts`) say what
the counters tell a thread about the others, for instance that a counter of 1 makes the
owner of a handle the only one; `BasicKnows` and `WeakKnows` prove them from the
cardinalities. The lemmas on the steps have laws and facts as hypotheses, one lemma for
each action, and end in the numbers by which the action changes the counters and the
handles; `BasicRecount` and `WeakRecount` show that these keep the counting. The theorems
join the three layers and have no hypothesis but `RefCountAssumption`.

**Queues.** The first part of `QueueProofs` has what the three share. `Lined` says that the items of
a sender in the line are exactly those it has sent, and that its j-th item stands
at position j or later. The first half makes a push a `Send` of `Fifo`; the second
bounds the number of the next item by the length of the line, without counting.
`PopLine` shows that a pop leaves the line as it is and moves the boundary. For
`NoLostWakeup`, `Counting` lists what a step may do to the numbers of items, of
notifying senders and of receivers awake. The condition variable adds
`WaitOnEmpty`, that nobody pushes between the test of the queue and `wait()`,
as the guard is held (`Owned`). For 01-08-01 there is `OneConsumer`: the
sleeper is the thread that is unparked.

**Ids.** Each version has an invariant of its own that says what `issued` is. With
the exchange, `NEXT_ID` is the number of ids issued. With the decrement it exceeds
that number by one for each thread that has still to give back
(`DecrementInv`); as long as one has, all ids below the limit are issued. With
`fetch_add` alone there is a number of complete rounds (`InRound`).

*Only model-checked:*

- every liveness property (`Termination`, `AllDelivered`), as fairness is out of
  the prover's reach;
- the properties of the optimised `Arc` (06-03), `AllocCountIsExact` among them.
  `WeakInv` does not carry over: all `Arc`s share one count in `alloc_ref_count`, the
  lock value replaces the count while `get_mut()` looks at the other counter, and the
  exclusion rests on values loaded from the two counters one after the other;
- the ordering examples, whose `OutcomesAsAsserted` and `OneValue` are about fifteen
  fixed programs that TLC explores completely up to the number of rounds;
- `ReportsAreConsistent` of the statistics, which is about the sum over a sequence of
  processing times: that a sum grows by what is appended is an induction over data.

## Plan

Proofs of `GetMutIsExclusive` and `AliveWhileOwned` for 06-03, from the laws of
`ArcStepProofs`.

## Not modelled, and why

`03-04_out-of-thin-air.rs` discusses values that no execution produces; an
operational model cannot state it. The benchmarks of chapter 7 compare times.
The programs of 01-01 and 01-02 and `src/src/main.rs` share no mutable state.
The commands that 02-01-01 reads have no effect on its thread before "stop", and
the average that 02-02-02 prints is computed from the numbers modelled.
Allocation, `PhantomData`, `NonNull` and lifetimes are the compiler's concern;
what the types of 05-04 to 05-06 forbid is left out of their clients. Failure
of a thread other than by the panics in the code is not modelled, nor is lock
poisoning: the locks of the repository do not have it, and no thread of 01-08,
02-02-02 and 05-01 panics with a guard of the standard library's.
