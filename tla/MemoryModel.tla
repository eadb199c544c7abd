---------------------------- MODULE MemoryModel ----------------------------
(***************************************************************************)
(* The part of the Rust memory model that the code under src/examples      *)
(* relies on, as operators on three kinds of bookkeeping state:            *)
(*                                                                         *)
(*   hb[t]        the accesses to the non-atomic data that happen before   *)
(*                the next step of thread t.  An access is named by the    *)
(*                thread that makes it, and the name stands for its latest *)
(*                access.  Data nobody has touched yet is in every hb[t].  *)
(*   a view       the accesses that a thread which acquires from the last  *)
(*                store of an atomic variable learns about;                *)
(*   readable[t]  the values of an atomic variable that a load (a failed   *)
(*                compare_exchange is one) by t may still return.  Only    *)
(*                the last write is seen by a successful read-modify-      *)
(*                write.  The order of the overwritten values is dropped,  *)
(*                so readable allows at least what coherence allows.       *)
(*                                                                         *)
(* A data access e of t races unless all the other accesses are in hb[t].  *)
(***************************************************************************)

\* t makes access e: nobody else is ordered after it, and neither is a view.
AfterAccess(hb, t, e) ==
  [u \in DOMAIN hb |-> IF u = t THEN hb[u] \cup {e} ELSE hb[u] \ {e}]

ViewAfterAccess(view, e) == view \ {e}

\* An Acquire operation of t that reads the store which carries view.
AfterAcquire(hb, t, view) == [hb EXCEPT ![t] = @ \cup view]

\* The view of a Release store, and of a Release read-modify-write: the latter
\* also continues the release sequence of the store it reads.
ReleaseStoreView(hb, t) == hb[t]

ReleaseRmwView(hb, t, view) == view \cup hb[t]

\* t writes v: t can read nothing older, the others may read v from now on.
AfterWrite(readable, t, v) ==
  [u \in DOMAIN readable |-> IF u = t THEN {v} ELSE readable[u] \cup {v}]

\* Joining threads: t is ordered after everything the others did.
AfterJoin(hb, t) == [hb EXCEPT ![t] = UNION {hb[u] : u \in DOMAIN hb}]
=============================================================================
