------------------------------- MODULE Litmus -------------------------------
(***************************************************************************)
(* Programs of a few statements on atomics, as in chapters 2, 3 and 7: a   *)
(* program gives each thread a sequence of statements.  main() runs from   *)
(* the start, the other threads from Spawn on.                             *)
(*                                                                         *)
(* out[t] collects the values that t has read, in order; If branches on    *)
(* it.  A branch that is not taken is skipped over.                        *)
(***************************************************************************)
EXTENDS Naturals, Sequences, SequencesExt, FiniteSets

\* The programs by name: for each thread its statements, in atomics the initial
\* value of each atomic, in data the names of what is not atomic.
CONSTANT Programs

Threads == {"main", "t1", "t2", "t3"}

INSTANCE AtomicMemory

\* The statements.
Spawn(ts)          == [op |-> "spawn", ts |-> ts]
JoinAll(ts)        == [op |-> "join", ts |-> ts]
Put(x, v, ord)     == [op |-> "store", x |-> x, v |-> v, ord |-> ord]
PutNext(x, ord)    == [op |-> "store_next", x |-> x, ord |-> ord]
Get(x, ord)        == [op |-> "load", x |-> x, ord |-> ord]
Add(x, k)          == [op |-> "fetch_add", x |-> x, k |-> k]
Swap(x, ord)       == [op |-> "lock", x |-> x, ord |-> ord]
Await(x, v, ord)   == [op |-> "await", x |-> x, v |-> v, ord |-> ord, idle |-> "spin"]
AwaitParking(x, v) == [op |-> "await", x |-> x, v |-> v, ord |-> Relaxed, idle |-> "park"]
AwaitFutex(x, v)   == [op |-> "await", x |-> x, v |-> v, ord |-> Relaxed, idle |-> "wait"]
Unpark(t)          == [op |-> "unpark", t |-> t]
WakeOne            == [op |-> "wake_one"]
FenceAcquire       == [op |-> "fence"]
Use(d, kind)       == [op |-> "access", d |-> d, kind |-> kind]
UseLast            == [op |-> "deref"]
Free(d)            == [op |-> "free", d |-> d]
If(outs, skip)     == [op |-> "if", outs |-> outs, skip |-> skip]
\* On failure, skip statements are skipped after the exchange.
Exchange(x, old, new, ok, err, skip) ==
  [op |-> "exchange", x |-> x, old |-> old, new |-> new, ok |-> ok, err |-> err, skip |-> skip]

VARIABLES example,   \* the program that runs
          mem,       \* its memory
          pc,        \* for each thread the index of its statement, 0: not started
          out,       \* what each thread has read
          state,     \* in await: "run", "park", "wait" before the futex call, "asleep" in it
          token,     \* for each thread the views of those who have unparked it
          freed      \* the data that have been freed

vars == <<example, mem, pc, out, state, token, freed>>

Init ==
  /\ example \in DOMAIN Programs
  /\ mem = FirstMemory(Programs[example].atomics,
                       Programs[example].data \X {"read", "write"} \X Threads)
  /\ pc = [t \in Threads |-> IF t = "main" THEN 1 ELSE 0]
  /\ out = [t \in Threads |-> <<>>]
  /\ state = [t \in Threads |-> "run"]
  /\ token = [t \in Threads |-> {}]
  /\ freed = {}

Code(t) == Programs[example][t]

Ended(t) == pc[t] > Len(Code(t))

Statement(t) == Code(t)[pc[t]]

At(t, op) == pc[t] \in DOMAIN Code(t) /\ Statement(t).op = op /\ state[t] = "run"

Advance(t, k) == pc' = [pc EXCEPT ![t] = @ + k]

Note(t, v) == out' = [out EXCEPT ![t] = Append(@, v)]

\* t goes on at the next statement with memory m.
Continue(t, m) == mem' = m /\ Advance(t, 1) /\ UNCHANGED <<example, state, token>>

Start(t) ==
  LET s == Statement(t) IN
  /\ At(t, "spawn")
  /\ mem' = [mem EXCEPT !.view = [u \in Threads |-> IF u \in s.ts THEN @[t] ELSE @[u]]]
  /\ pc' = [u \in Threads |-> IF u \in s.ts THEN 1 ELSE IF u = t THEN pc[t] + 1 ELSE pc[u]]
  /\ UNCHANGED <<example, out, state, token, freed>>

JoinThreads(t) ==
  LET s == Statement(t) IN
  /\ At(t, "join")
  /\ \A u \in s.ts : Ended(u)
  /\ Continue(t, [mem EXCEPT !.view[t] = FoldSet(LAMBDA u, v : Join(v, mem.view[u]), @, s.ts)])
  /\ UNCHANGED <<out, freed>>

DoStore(t) ==
  LET s == Statement(t) IN
  /\ \/ At(t, "store") /\ Continue(t, Store(mem, t, s.x, s.v, s.ord))
     \/ At(t, "store_next") /\ Continue(t, Store(mem, t, s.x, Last(out[t]) + 1, s.ord))
  /\ UNCHANGED <<out, freed>>

DoLoad(t) ==
  LET s == Statement(t) IN
  /\ At(t, "load")
  /\ \E i \in Loadable(mem, t, s.x, s.ord) :
       Continue(t, Load(mem, t, s.x, i, s.ord)) /\ Note(t, mem.mo[s.x][i].val)
  /\ UNCHANGED freed

FetchAdd(t) ==
  LET s == Statement(t) IN
  /\ At(t, "fetch_add")
  /\ Continue(t, Rmw(mem, t, s.x, Newest(mem, s.x).val + s.k, Relaxed))
  /\ UNCHANGED <<out, freed>>

\* compare_exchange leaves in out the value that x has afterwards.
DoExchange(t) ==
  LET s == Statement(t) IN
  /\ At(t, "exchange")
  /\ \/ /\ Newest(mem, s.x).val = s.old
        /\ Continue(t, Rmw(mem, t, s.x, s.new, s.ok))
        /\ Note(t, s.new)
     \/ \E i \in Loadable(mem, t, s.x, s.err) :
          /\ mem.mo[s.x][i].val # s.old
          /\ mem' = Load(mem, t, s.x, i, s.err)
          /\ Note(t, mem.mo[s.x][i].val)
          /\ Advance(t, 1 + s.skip)
          /\ UNCHANGED <<example, state, token>>
  /\ UNCHANGED freed

\* while x.swap(true, ord) {}.  To write true over true changes nothing that
\* another thread could see.
SpinLock(t) ==
  LET s == Statement(t) IN
  /\ At(t, "lock")
  /\ IF Newest(mem, s.x).val
     THEN /\ mem' = Load(mem, t, s.x, Len(mem.mo[s.x]), s.ord)
          /\ UNCHANGED <<example, pc, state, token>>
     ELSE Continue(t, Rmw(mem, t, s.x, TRUE, s.ord))
  /\ UNCHANGED <<out, freed>>

\* A loop that ends when x.load(ord) returns v: it reads the i-th message.
AwaitLoad(t, i) ==
  LET s == Statement(t) IN
  /\ mem' = Load(mem, t, s.x, i, s.ord)
  /\ IF mem.mo[s.x][i].val = s.v
     THEN Advance(t, 1) /\ UNCHANGED state
     ELSE /\ state' = [state EXCEPT ![t] = IF s.idle = "spin" THEN "run" ELSE s.idle]
          /\ UNCHANGED pc
  /\ UNCHANGED <<example, out, token, freed>>

DoAwait(t) ==
  At(t, "await") /\ \E i \in Loadable(mem, t, Statement(t).x, Statement(t).ord) : AwaitLoad(t, i)

AwaitNewest(t) == At(t, "await") /\ AwaitLoad(t, Len(mem.mo[Statement(t).x]))

\* park() returns with a token: t sees what its unparkers saw.
ParkReturns(t) ==
  /\ state[t] = "park"
  /\ token[t] # {}
  /\ mem' = [mem EXCEPT !.view[t] = FoldSet(LAMBDA w, v : Join(v, w), @, token[t])]
  /\ token' = [token EXCEPT ![t] = {}]
  /\ state' = [state EXCEPT ![t] = "run"]
  /\ UNCHANGED <<example, pc, out, freed>>

\* wait(&x, expected): sleeps, unless the value is no longer the expected one.
FutexWait(t) ==
  /\ state[t] = "wait"
  /\ state' = [state EXCEPT ![t] = IF Newest(mem, Statement(t).x).val = Statement(t).v
                                   THEN "run" ELSE "asleep"]
  /\ UNCHANGED <<example, mem, pc, out, token, freed>>

\* park() and wait() return for no reason, or park_timeout() after its time.
WakeSpuriously(t) ==
  /\ state[t] = "asleep" \/ (state[t] = "park" /\ token[t] = {})
  /\ state' = [state EXCEPT ![t] = "run"]
  /\ UNCHANGED <<example, mem, pc, out, token, freed>>

\* unpark() and wake_one().
WakeUp(t) ==
  LET s == Statement(t) IN
  /\ \/ /\ At(t, "unpark")
        /\ token' = [token EXCEPT ![s.t] = @ \cup {mem.view[t]}]
        /\ UNCHANGED state
     \/ /\ At(t, "wake_one")
        /\ \/ \E u \in Threads : state[u] = "asleep" /\ state' = [state EXCEPT ![u] = "run"]
           \/ (\A u \in Threads : state[u] # "asleep") /\ UNCHANGED state
        /\ UNCHANGED token
  /\ Advance(t, 1)
  /\ UNCHANGED <<example, mem, out, freed>>

DoFence(t) ==
  /\ At(t, "fence")
  /\ Continue(t, Fence(mem, t))
  /\ UNCHANGED <<out, freed>>

\* The access to data that the next statement of t makes, if any.
NextAccess(t) ==
  LET s == Statement(t) IN
  CASE At(t, "access") -> {<<s.d, s.kind, t>>}
    [] At(t, "free")   -> {<<s.d, "write", t>>}
    [] At(t, "deref")  -> {<<Last(out[t]), "read", t>>}
    [] OTHER           -> {}

AccessData(t) ==
  /\ \E a \in NextAccess(t) : Continue(t, Access(mem, t, a))
  /\ freed' = freed \cup (IF At(t, "free") THEN {Statement(t).d} ELSE {})
  /\ UNCHANGED out

Branch(t) ==
  LET s == Statement(t) IN
  /\ At(t, "if")
  /\ Advance(t, IF out[t] \in s.outs THEN 1 ELSE 1 + s.skip)
  /\ UNCHANGED <<example, mem, out, state, token, freed>>

Straight(t) ==
  \/ Start(t) \/ JoinThreads(t) \/ DoStore(t) \/ DoLoad(t) \/ FetchAdd(t) \/ DoExchange(t)
  \/ SpinLock(t) \/ ParkReturns(t) \/ FutexWait(t) \/ WakeUp(t) \/ DoFence(t)
  \/ AccessData(t) \/ Branch(t)

\* main() has returned.
Finished == Ended("main")

Terminated == Finished /\ UNCHANGED vars

Next == (\E t \in Threads : Straight(t) \/ DoAwait(t) \/ WakeSpuriously(t)) \/ Terminated

\* Every thread goes on, and a loop that waits for a store sees it in the end.
Spec ==
  /\ Init /\ [][Next]_vars
  /\ \A t \in Threads : WF_vars(Straight(t)) /\ SF_vars(AwaitNewest(t))
=============================================================================
