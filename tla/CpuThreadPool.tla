--------------------------- MODULE CpuThreadPool ---------------------------
(***************************************************************************)
(* resolver::cpu::CpuThreadPool with more than one worker (a pool of one   *)
(* runs its batch inside runAsync and spawns no thread).                   *)
(*                                                                         *)
(* The caller (the device's worker thread) dispatches a batch and later    *)
(* waits for it; it dispatches no second batch before that, as the CPU     *)
(* resolvers do.  The workers pull slices from an atomic cursor.  What is  *)
(* done under the pool's mutex is one step; a condition variable is the    *)
(* set of threads blocked on it, and a notification sends them back to     *)
(* their predicate.                                                        *)
(***************************************************************************)
EXTENDS Integers, FiniteSets

CONSTANTS
  Workers,    \* the worker threads, at least two
  Counts,     \* sizes of the batches the caller may dispatch
  Grains,     \* grains it may ask for; 0 is the default grain
  MaxBatches  \* bound: batches dispatched in a behaviour

ASSUME WorkersAssumption == IsFiniteSet(Workers) /\ Cardinality(Workers) > 1
ASSUME CountsAssumption == Counts \subseteq Nat
ASSUME GrainsAssumption == Grains \subseteq Nat
ASSUME MaxBatchesAssumption == MaxBatches \in Nat

poolSize == Cardinality(Workers)

VARIABLES
  \* the pool, under its mutex
  total,           \* CpuThreadPool::total
  sliceGrain,      \* CpuThreadPool::sliceGrain
  generation,      \* CpuThreadPool::generation
  remaining,       \* CpuThreadPool::remaining
  cursor,          \* CpuThreadPool::cursor, an atomic
  \* the caller
  caller,          \* "idle", "dispatched", "blocked" on cvDone, "joining", "destroyed"
  \* the workers
  pc,              \* where worker w is in workerLoop
  lastGeneration,  \* the locals of workerLoop
  jobTotal, jobGrain, lo,
  \* history
  times            \* how often each index of the last batch was passed to the callback

poolVars == <<total, sliceGrain, generation, remaining, cursor>>
localVars == <<lastGeneration, jobTotal, jobGrain, lo>>
vars == <<poolVars, caller, pc, localVars, times>>

WorkerPcs == {"test", "waiting", "claim", "hash", "finish", "exited"}
CallerPcs == {"idle", "dispatched", "blocked", "joining", "destroyed"}

-----------------------------------------------------------------------------
\* The grain of a batch: ceil(count / workers) unless the caller asks for one.
GrainOf(count, grain) ==
  IF grain # 0 THEN grain ELSE (count + poolSize - 1) \div poolSize

\* No index of a batch of that size was passed to the callback yet.
Unscanned(count) == [i \in 0..(count - 1) |-> 0]

\* cvWork.notify_all(): the workers blocked on it test their predicate again.
NotifyWork == pc' = [w \in Workers |-> IF pc[w] = "waiting" THEN "test" ELSE pc[w]]

\* Mutant: the blocked workers are not notified.
RunAsyncSilent(count, grain) ==
  /\ caller = "idle"
  /\ generation < MaxBatches
  /\ count > 0
  /\ total' = count
  /\ sliceGrain' = GrainOf(count, grain)
  /\ cursor' = 0
  /\ remaining' = poolSize
  /\ generation' = generation + 1
  /\ times' = Unscanned(count)
  /\ caller' = "dispatched"
  /\ UNCHANGED <<pc, localVars>>

\* runAsync.
RunAsync(count, grain) ==
  /\ caller = "idle"
  /\ generation < MaxBatches
  /\ count > 0
  /\ total' = count
  /\ sliceGrain' = GrainOf(count, grain)
  /\ cursor' = 0
  /\ remaining' = poolSize
  /\ generation' = generation + 1
  /\ NotifyWork
  /\ times' = Unscanned(count)
  /\ caller' = "dispatched"
  /\ UNCHANGED localVars

\* An empty batch is not dispatched at all.
RunAsyncEmpty ==
  /\ caller = "idle"
  /\ 0 \in Counts
  /\ caller' = "dispatched"
  /\ UNCHANGED <<poolVars, pc, localVars, times>>

\* wait: return when nothing remains, else block on cvDone.
Wait ==
  /\ caller = "dispatched"
  /\ caller' = IF remaining = 0 THEN "idle" ELSE "blocked"
  /\ UNCHANGED <<poolVars, pc, localVars, times>>

\* ~CpuThreadPool: interrupt the workers and join them.
Interrupt ==
  /\ caller = "idle"
  /\ caller' = "joining"
  /\ UNCHANGED <<poolVars, pc, localVars, times>>

Join ==
  /\ caller = "joining"
  /\ \A w \in Workers : pc[w] = "exited"
  /\ caller' = "destroyed"
  /\ UNCHANGED <<poolVars, pc, localVars, times>>

Caller ==
  \/ \E count \in Counts, grain \in Grains : RunAsync(count, grain)
  \/ RunAsyncEmpty \/ Wait \/ Interrupt \/ Join

-----------------------------------------------------------------------------
\* workerLoop: take the new batch, or block on cvWork when there is none.
Take(w) ==
  /\ pc[w] = "test"
  /\ generation # lastGeneration[w]
  /\ lastGeneration' = [lastGeneration EXCEPT ![w] = generation]
  /\ jobTotal' = [jobTotal EXCEPT ![w] = total]
  /\ jobGrain' = [jobGrain EXCEPT ![w] = sliceGrain]
  /\ pc' = [pc EXCEPT ![w] = "claim"]
  /\ UNCHANGED <<poolVars, caller, lo, times>>

Block(w) ==
  /\ pc[w] = "test"
  /\ generation = lastGeneration[w]
  /\ pc' = [pc EXCEPT ![w] = "waiting"]
  /\ UNCHANGED <<poolVars, caller, localVars, times>>

\* Mutant: the cursor advances by one index too few.
ClaimOverlapping(w) ==
  /\ pc[w] = "claim"
  /\ lo' = [lo EXCEPT ![w] = cursor]
  /\ cursor' = IF jobGrain[w] = 1 THEN cursor + 1 ELSE cursor + jobGrain[w] - 1
  /\ pc' = [pc EXCEPT ![w] = IF cursor < jobTotal[w] THEN "hash" ELSE "finish"]
  /\ UNCHANGED <<total, sliceGrain, generation, remaining, caller,
                 lastGeneration, jobTotal, jobGrain, times>>

\* lo = cursor.add(jobGrain), outside the mutex.
Claim(w) ==
  /\ pc[w] = "claim"
  /\ lo' = [lo EXCEPT ![w] = cursor]
  /\ cursor' = cursor + jobGrain[w]
  /\ pc' = [pc EXCEPT ![w] = IF cursor < jobTotal[w] THEN "hash" ELSE "finish"]
  /\ UNCHANGED <<total, sliceGrain, generation, remaining, caller,
                 lastGeneration, jobTotal, jobGrain, times>>

\* hi = min(lo + jobGrain, jobTotal).
High(w) == IF lo[w] + jobGrain[w] < jobTotal[w] THEN lo[w] + jobGrain[w] ELSE jobTotal[w]

\* The indices of the slice [lo, hi) claimed by w.
Slice(w) == lo[w]..(High(w) - 1)

\* Scanning the slice again, or an index that is not one of the batch, shows.
Passed(slice) ==
  [i \in DOMAIN times \cup slice |->
     (IF i \in DOMAIN times THEN times[i] ELSE 0) + (IF i \in slice THEN 1 ELSE 0)]

\* cbJob(lo, hi, index).
Hash(w) ==
  /\ pc[w] = "hash"
  /\ times' = Passed(Slice(w))
  /\ pc' = [pc EXCEPT ![w] = "claim"]
  /\ UNCHANGED <<poolVars, caller, localVars>>

\* The batch is drained for w; the last worker notifies the caller.
Finish(w) ==
  /\ pc[w] = "finish"
  /\ remaining' = remaining - 1
  /\ pc' = [pc EXCEPT ![w] = "test"]
  /\ caller' = IF remaining' = 0 /\ caller = "blocked" THEN "dispatched" ELSE caller
  /\ UNCHANGED <<total, sliceGrain, generation, cursor, localVars, times>>

\* Mutant: the interruption does not reach a worker blocked in cvWork.wait().
ExitAtHead(w) ==
  /\ caller = "joining"
  /\ pc[w] = "test"
  /\ pc' = [pc EXCEPT ![w] = "exited"]
  /\ UNCHANGED <<poolVars, caller, localVars, times>>

\* An interrupted worker leaves at the head of its loop or out of cvWork.wait().
Exit(w) ==
  /\ caller = "joining"
  /\ pc[w] \in {"test", "waiting"}
  /\ pc' = [pc EXCEPT ![w] = "exited"]
  /\ UNCHANGED <<poolVars, caller, localVars, times>>

Worker(w) == Take(w) \/ Block(w) \/ Claim(w) \/ Hash(w) \/ Finish(w) \/ Exit(w)

\* The pool is gone.
Terminated ==
  /\ caller = "destroyed"
  /\ UNCHANGED vars

-----------------------------------------------------------------------------
Init ==
  /\ total = 0
  /\ sliceGrain = 1
  /\ generation = 0
  /\ remaining = 0
  /\ cursor = 0
  /\ caller = "idle"
  /\ pc = [w \in Workers |-> "test"]
  /\ lastGeneration = [w \in Workers |-> 0]
  /\ jobTotal = [w \in Workers |-> 0]
  /\ jobGrain = [w \in Workers |-> 1]
  /\ lo = [w \in Workers |-> 0]
  /\ times = Unscanned(0)

Next ==
  \/ Caller
  \/ \E w \in Workers : Worker(w)
  \/ Terminated

\* Threads that can run do; the caller always waits for the batch it dispatched.
Fairness ==
  /\ WF_vars(Wait \/ Join)
  /\ \A w \in Workers : WF_vars(Worker(w))

Spec == Init /\ [][Next]_vars
FairSpec == Spec /\ Fairness

-----------------------------------------------------------------------------
TypeOK ==
  /\ total \in Nat
  /\ sliceGrain \in Nat \ {0}
  /\ generation \in 0..MaxBatches
  /\ remaining \in 0..poolSize
  /\ cursor \in Nat
  /\ caller \in CallerPcs
  /\ pc \in [Workers -> WorkerPcs]
  /\ lastGeneration \in [Workers -> Nat]
  /\ jobTotal \in [Workers -> Nat]
  /\ jobGrain \in [Workers -> Nat \ {0}]
  /\ lo \in [Workers -> Nat]
  /\ times \in [0..(total - 1) -> Nat]

\* The indices of the batch that were passed to the callback.
hashed == {i \in DOMAIN times : times[i] > 0}

Draining(w) == pc[w] \in {"claim", "hash", "finish"}

\* The workers that have still to report the end of the current batch.
Unfinished == {w \in Workers : lastGeneration[w] # generation \/ Draining(w)}

\* The mutex-protected counter counts them, so wait() can neither return while a
\* worker may still touch the cursor or the batch nor miss the last report.
RemainingCounts == remaining = Cardinality(Unfinished)

\* A worker drains the batch that is current, never the cursor of a later one
\* with the bounds of an earlier one.
DrainsCurrentBatch ==
  \A w \in Workers :
    Draining(w) => /\ lastGeneration[w] = generation
                   /\ jobTotal[w] = total
                   /\ jobGrain[w] = sliceGrain

\* No slice is handed out twice, and none that was scanned is handed out again.
SlicesDisjoint ==
  \A w \in Workers :
    pc[w] = "hash" =>
      /\ Slice(w) # {}
      /\ Slice(w) \cap hashed = {}
      /\ \A v \in Workers \ {w} : pc[v] = "hash" => Slice(v) \cap Slice(w) = {}

\* When wait() has returned the whole batch was scanned and no worker is in it.
ReturnsWhenDone ==
  caller \in {"idle", "joining", "destroyed"} =>
    /\ \A i \in 0..(total - 1) : times[i] = 1
    /\ \A w \in Workers : ~Draining(w)

\* A caller blocked on cvDone has a report to wait for: the notification of the
\* last worker cannot have been sent before it blocked.
BlockedHasWork == caller = "blocked" => remaining > 0

\* The pool is the parallel loop its header describes: every index of a batch is
\* passed to the callback once, never twice, and nothing beyond the batch is.
PF == INSTANCE ParallelFor WITH
        busy <- caller \in {"dispatched", "blocked"},
        scans <- times
ImplementsParallelFor == PF!Spec

\* A dispatched batch ends and a destroyed pool is joined: no wakeup is lost.
BatchEnds == caller \in {"dispatched", "blocked"} ~> caller = "idle"
PoolIsJoined == caller = "joining" ~> caller = "destroyed"
=============================================================================
