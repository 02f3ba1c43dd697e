---------------------------- MODULE ParallelFor ----------------------------
(***************************************************************************)
(* What resolver/cpu/thread_pool.hpp promises of a pool: a dispatched      *)
(* batch [0, count) is scanned in slices, every index exactly once, and    *)
(* wait() returns only when nothing is left of it.                         *)
(***************************************************************************)
EXTENDS Naturals

CONSTANT Counts  \* the sizes a batch may have

VARIABLES
  busy,  \* a batch is dispatched and wait() has not returned yet
  scans  \* how often each index of the batch was scanned

vars == <<busy, scans>>

Init ==
  /\ busy = FALSE
  /\ scans = [i \in {} |-> 0]

\* The indices of the batch nobody has scanned.
Pending == {i \in DOMAIN scans : scans[i] = 0}

\* An empty batch leaves nothing to scan.
Dispatch(count) ==
  /\ ~busy
  /\ busy' = TRUE
  /\ scans' = IF count = 0 THEN scans ELSE [i \in 0..(count - 1) |-> 0]

\* One slice, of indices of the batch that nobody scanned before.
Scan(slice) ==
  /\ busy
  /\ slice # {}
  /\ slice \subseteq Pending
  /\ scans' = [i \in DOMAIN scans |-> IF i \in slice THEN scans[i] + 1 ELSE scans[i]]
  /\ UNCHANGED busy

Finish ==
  /\ busy
  /\ Pending = {}
  /\ busy' = FALSE
  /\ UNCHANGED scans

Next ==
  \/ \E count \in Counts : Dispatch(count)
  \/ \E slice \in SUBSET Pending : Scan(slice)
  \/ Finish

Spec == Init /\ [][Next]_vars
=============================================================================
