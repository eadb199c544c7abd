----------------------------- MODULE MCCounters -----------------------------
(***************************************************************************)
(* The counters of chapter 2: either threads call for ids, or they keep    *)
(* statistics.  program says which; the variables of the other stay as     *)
(* they are.                                                               *)
(***************************************************************************)
EXTENDS IdAllocation, Sequences

CONSTANTS t1, t2, t3, Workers, Main, Items, Times, Nobody

VARIABLES program, accurate, mo, owner, at, time, items, taken, got, shown

S == INSTANCE Statistics

statVars == <<accurate, mo, owner, at, time, items, taken, got, shown>>

mcVars == <<program, idVars, statVars>>

MCInit ==
  /\ program \in {"ids", "statistics"}
  /\ IdInit
  /\ S!StatInit
  /\ program = "ids" => accurate
  /\ program = "statistics" => how = "exchange"

Finished == IF program = "ids" THEN IdsDone ELSE S!Reported

MCNext ==
  \/ program = "ids" /\ IdNext /\ UNCHANGED <<program, statVars>>
  \/ program = "statistics" /\ S!StatNext /\ UNCHANGED <<program, idVars>>
  \/ Finished /\ UNCHANGED mcVars

Counting == program = "statistics"

\* The fairness of IdSpec and of StatSpec.
MCFairness ==
  /\ \A t \in Threads : WF_idVars(program = "ids" /\ IdProgress(t))
  /\ \A w \in Workers : /\ WF_statVars(Counting /\ S!WorkerStep(w))
                        /\ SF_statVars(Counting /\ S!Lock(w))
  /\ WF_statVars(Counting /\ S!MainStep) /\ SF_statVars(Counting /\ S!Lock(Main))
  /\ SF_statVars(Counting /\ S!LoadField("num_done", Len(mo["num_done"])))

MCSpec == MCInit /\ [][MCNext]_mcVars /\ MCFairness

\* See Statistics.
ReportsAreConsistent == program = "statistics" => S!ReportsAreConsistent

\* All calls for an id return or panic: no thread repeats its exchange forever.
\* main() of the statistics sees all items done, although its loads are Relaxed.
Termination == <>Finished
=============================================================================
