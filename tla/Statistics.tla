----------------------------- MODULE Statistics -----------------------------
(***************************************************************************)
(* The two versions of examples/02-02-02_statistics.rs.  Workers count the *)
(* items they have processed, the time that took and the longest time;     *)
(* main() reports the three numbers until all items are done.  They are    *)
(* three atomics in inaccurate_statistics(), and the fields of a struct    *)
(* under a mutex in accurate_statistics().                                 *)
(*                                                                         *)
(* Labels of at: the field to be read or written next, "lock" before the   *)
(* mutex of the accurate version is locked, "report" when main() has all   *)
(* three numbers.                                                          *)
(***************************************************************************)
EXTENDS Naturals, Sequences, SequencesExt, FiniteSets, FiniteSetsExt

CONSTANTS Workers, Main,
          Items,     \* the number of items of each worker: 25
          Times,     \* how long an item may take
          Nobody

VARIABLES accurate,   \* which version it is
          mo,         \* the values of each field that main() may load, the
                      \* last one is the current
          owner,      \* the holder of the mutex
          at,         \* where each thread is
          time,       \* time_taken of each worker's current item
          items,      \* the number of items each worker has counted
          taken,      \* the times of the items counted by the accurate version
          got,        \* what main() has loaded
          shown       \* its last report

statVars == <<accurate, mo, owner, at, time, items, taken, got, shown>>

Fields == {"num_done", "total_time", "max_time"}

Zero == [f \in Fields |-> 0]

Total == Items * Cardinality(Workers)

\* The label with which a worker's update, and a report of main(), begins.
FirstUpdate == IF accurate THEN "lock" ELSE "num_done"
FirstLoad == IF accurate THEN "lock" ELSE "total_time"

StatInit ==
  /\ accurate \in BOOLEAN
  /\ mo = [f \in Fields |-> <<0>>]
  /\ owner = Nobody
  /\ at = [t \in Workers \cup {Main} |-> IF t = Main THEN FirstLoad ELSE FirstUpdate]
  /\ time = [w \in Workers |-> 0]
  /\ items = [w \in Workers |-> 0]
  /\ taken = <<>>
  /\ got = Zero
  /\ shown = Zero

GoTo(t, label) == at' = [at EXCEPT ![t] = label]

Lock(t) ==
  /\ at[t] = "lock"
  /\ owner = Nobody
  /\ owner' = t
  /\ GoTo(t, IF t = Main THEN "total_time" ELSE "num_done")
  /\ UNCHANGED <<accurate, mo, time, items, taken, got, shown>>

\* A write of the value that f has cannot be told from no write.
Update(f, v) == mo' = [mo EXCEPT ![f] = IF v = Last(@) THEN @ ELSE Append(@, v)]

\* num_done.fetch_add(1, Relaxed), or guard.num_done += 1, after an item that
\* took so long.
CountItem(w) ==
  /\ at[w] = "num_done"
  /\ Update("num_done", Last(mo["num_done"]) + 1)
  /\ \E d \in Times :
       time' = [time EXCEPT ![w] = d] /\ taken' = IF accurate THEN Append(taken, d) ELSE taken
  /\ GoTo(w, "total_time")
  /\ UNCHANGED <<accurate, owner, items, got, shown>>

\* total_time.fetch_add(time_taken, Relaxed)
AddTime(w) ==
  /\ at[w] = "total_time"
  /\ Update("total_time", Last(mo["total_time"]) + time[w])
  /\ GoTo(w, "max_time")
  /\ UNCHANGED <<accurate, owner, time, items, taken, got, shown>>

\* max_time.fetch_max(time_taken, Relaxed); the guard ends with the body of the
\* loop.
MaxTime(w) ==
  /\ at[w] = "max_time"
  /\ Update("max_time", Max({Last(mo["max_time"]), time[w]}))
  /\ owner' = Nobody
  /\ items' = [items EXCEPT ![w] = @ + 1]
  /\ time' = [time EXCEPT ![w] = 0]
  /\ GoTo(w, IF items[w] + 1 < Items THEN FirstUpdate ELSE "done")
  /\ UNCHANGED <<accurate, taken, got, shown>>

\* What main() does after it has loaded a field.
AfterLoad(f) ==
  CASE f = "total_time" -> "max_time" [] f = "max_time" -> "num_done" [] f = "num_done" -> "report"

\* Fault: the guard is dropped after the first field.
LoadFieldUnlocked(f, i) ==
  /\ at[Main] = f
  /\ accurate => i = Len(mo[f])
  /\ mo' = [mo EXCEPT ![f] = SubSeq(@, i, Len(@))]
  /\ got' = [got EXCEPT ![f] = mo[f][i]]
  /\ owner' = IF f = "total_time" THEN Nobody ELSE owner
  /\ GoTo(Main, AfterLoad(f))
  /\ UNCHANGED <<accurate, time, items, taken, shown>>

\* main() loads f: the i-th value of the atomic, after which it can load nothing
\* older; the last one under the mutex, which is dropped after the last field.
LoadField(f, i) ==
  /\ at[Main] = f
  /\ accurate => i = Len(mo[f])
  /\ mo' = [mo EXCEPT ![f] = SubSeq(@, i, Len(@))]
  /\ got' = [got EXCEPT ![f] = mo[f][i]]
  /\ owner' = IF f = "num_done" THEN Nobody ELSE owner
  /\ GoTo(Main, AfterLoad(f))
  /\ UNCHANGED <<accurate, time, items, taken, shown>>

\* if n == 100 { break }, else print_statistics() and the next round.
Report ==
  /\ at[Main] = "report"
  /\ IF got["num_done"] = Total
     THEN GoTo(Main, "done") /\ UNCHANGED shown
     ELSE GoTo(Main, FirstLoad) /\ shown' = got
  /\ got' = Zero
  /\ UNCHANGED <<accurate, mo, owner, time, items, taken>>

WorkerStep(w) == CountItem(w) \/ AddTime(w) \/ MaxTime(w)

MainStep == (\E f \in Fields : \E i \in DOMAIN mo[f] : LoadField(f, i)) \/ Report

Reported == at[Main] = "done"

StatNext ==
  \/ \E t \in Workers \cup {Main} : Lock(t)
  \/ \E w \in Workers : WorkerStep(w)
  \/ MainStep

\* The mutex is free while main() sleeps, so that nobody is kept from it for
\* good; and a load that is repeated returns the newest value in the end.
StatFairness ==
  /\ \A w \in Workers : WF_statVars(WorkerStep(w)) /\ SF_statVars(Lock(w))
  /\ WF_statVars(MainStep) /\ SF_statVars(Lock(Main))
  /\ SF_statVars(LoadField("num_done", Len(mo["num_done"])))

StatSpec == StatInit /\ [][StatNext]_statVars /\ StatFairness

-----------------------------------------------------------------------------
Sum(times) == FoldSeq(LAMBDA d, e : d + e, 0, times)

\* What main() reports.  Under the mutex the three numbers belong together: they
\* are those of the first num_done items.  The three atomics need not, but no
\* number of a report is smaller than in the report before.
ReportsAreConsistent ==
  at[Main] = "report" =>
    IF accurate
    THEN LET counted == SubSeq(taken, 1, got["num_done"])
         IN  /\ got["total_time"] = Sum(counted)
             /\ got["max_time"] = Max({0} \cup ToSet(counted))
    ELSE \A f \in Fields : shown[f] <= got[f]
=============================================================================
