----------------------------- MODULE CpuProofs -----------------------------
(***************************************************************************)
(* Mining on the CPU.                                                      *)
(*                                                                         *)
(* The pool scans every index of a batch exactly once and wait() returns   *)
(* only then, for any number of workers, batch sizes and grains.           *)
(*                                                                         *)
(* ResolverCpuBlake3, which takes the pool by that specification, accounts *)
(* for every winner, tries no nonce twice, leaves none out, and touches no *)
(* batch in flight, for any batch size, number of jobs and room for        *)
(* results.                                                                *)
(***************************************************************************)
EXTENDS CpuThreadPool, CpuBlake3, FiniteSetTheorems, TLAPS

Returned == caller \in {"idle", "joining", "destroyed"}

\* A worker never ran ahead of the dispatches, and one that blocked has seen the
\* last of them: it cannot have missed the notification.
NoneAhead == \A w \in Workers : lastGeneration[w] <= generation
NoLostWakeup == \A w \in Workers : pc[w] = "waiting" => lastGeneration[w] = generation

\* wait() has returned: nobody remains.
ReturnedIsDone == Returned => remaining = 0

\* Claimed slices and scanned indices lie below the cursor ...
BelowCursor ==
  /\ \A i \in hashed : i < cursor
  /\ \A w \in Workers : pc[w] = "hash" => /\ lo[w] < jobTotal[w]
                                          /\ lo[w] + jobGrain[w] <= cursor

\* ... and everything below the cursor is claimed or scanned.
NothingSkipped ==
  \A i \in 0..(total - 1) :
    i < cursor => \/ i \in hashed
                  \/ \E w \in Workers : pc[w] = "hash" /\ i \in Slice(w)

\* A worker leaves a batch only when the cursor has passed its end.
DrainedWhenLeft ==
  \A w \in Workers :
    (lastGeneration[w] = generation /\ pc[w] \notin {"claim", "hash"}) => cursor >= total

\* No index was passed to the callback twice.
AtMostOnce == \A i \in DOMAIN times : times[i] <= 1

IInv ==
  /\ TypeOK
  /\ AtMostOnce
  /\ RemainingCounts
  /\ DrainsCurrentBatch
  /\ NoneAhead
  /\ NoLostWakeup
  /\ ReturnedIsDone
  /\ BlockedHasWork
  /\ BelowCursor
  /\ NothingSkipped
  /\ SlicesDisjoint
  /\ DrainedWhenLeft

-----------------------------------------------------------------------------
LEMMA PoolSize ==
  /\ IsFiniteSet(Workers)
  /\ poolSize \in Nat
  /\ poolSize > 1
  /\ Workers # {}
  <1>1. IsFiniteSet(Workers) /\ poolSize > 1
    BY WorkersAssumption DEF poolSize
  <1>2. poolSize \in Nat
    BY <1>1, FS_CardinalityType DEF poolSize
  <1>3. Workers # {}
    BY <1>1, <1>2, FS_EmptySet DEF poolSize
  <1>4. QED
    BY <1>1, <1>2, <1>3

\* Any set of workers has a cardinality within the size of the pool.
LEMMA WorkerSets ==
  ASSUME NEW S \in SUBSET Workers
  PROVE  /\ IsFiniteSet(S)
         /\ Cardinality(S) \in 0..poolSize
         /\ Cardinality(S) = 0 <=> S = {}
         /\ \A w \in S : Cardinality(S \ {w}) = Cardinality(S) - 1
  <1>1. IsFiniteSet(S) /\ Cardinality(S) <= poolSize
    BY PoolSize, FS_Subset DEF poolSize
  <1>2. Cardinality(S) \in Nat
    BY <1>1, FS_CardinalityType
  <1>3. Cardinality(S) = 0 <=> S = {}
    BY <1>1, FS_EmptySet
  <1>4. \A w \in S : Cardinality(S \ {w}) = Cardinality(S) - 1
    BY <1>1, FS_RemoveElement
  <1>5. QED
    BY <1>1, <1>2, <1>3, <1>4, PoolSize

\* The grain of a batch is positive.
LEMMA GrainPositive ==
  ASSUME NEW count \in Counts, NEW grain \in Grains, count > 0
  PROVE  GrainOf(count, grain) \in Nat \ {0}
  <1>1. count \in Nat \ {0} /\ grain \in Nat
    BY CountsAssumption, GrainsAssumption
  <1>2. ASSUME NEW n \in Nat \ {0}, NEW k \in Nat, k > 1
        PROVE  (n + k - 1) \div k \in Nat \ {0}
    BY <1>2, Z3
  <1>3. QED
    BY <1>1, <1>2, PoolSize DEF GrainOf

\* Only indices of the batch were scanned.
LEMMA HashedOfBatch == TypeOK => hashed \subseteq 0..(total - 1)
  BY DEF TypeOK, hashed

\* A step that leaves the counts alone leaves the scanned indices alone.
LEMMA SameHashed == UNCHANGED times => hashed' = hashed
  BY DEF hashed

\* wait() may return: no worker is in the batch and all of it is scanned, once.
LEMMA NobodyRemains ==
  ASSUME IInv, remaining = 0
  PROVE  /\ \A w \in Workers : ~Draining(w) /\ lastGeneration[w] = generation
         /\ hashed = 0..(total - 1)
         /\ \A i \in 0..(total - 1) : times[i] = 1
  <1>1. Unfinished = {}
    BY WorkerSets DEF IInv, RemainingCounts, Unfinished
  <1>2. \A w \in Workers : ~Draining(w) /\ lastGeneration[w] = generation
    BY <1>1 DEF Unfinished
  <1>3. cursor >= total
    BY <1>2, PoolSize DEF IInv, DrainedWhenLeft, Draining
  <1>4. \A i \in 0..(total - 1) : i \in hashed
    <2> SUFFICES ASSUME NEW i \in 0..(total - 1) PROVE i \in hashed
      OBVIOUS
    <2>1. i < cursor
      BY <1>3 DEF IInv, TypeOK
    <2>2. QED
      BY <1>2, <2>1 DEF IInv, NothingSkipped, Draining
  <1>5. \A i \in 0..(total - 1) : times[i] = 1
    BY <1>4 DEF IInv, TypeOK, AtMostOnce, hashed
  <1>6. QED
    BY <1>2, <1>4, <1>5, HashedOfBatch DEF IInv

-----------------------------------------------------------------------------
LEMMA InitIInv == Init => IInv
  <1> SUFFICES ASSUME Init PROVE IInv
    OBVIOUS
  <1> USE DEF Init
  <1>1. \A w \in Workers : ~Draining(w) /\ lastGeneration[w] = generation
    BY DEF Draining
  <1>2. TypeOK
    BY PoolSize, MaxBatchesAssumption DEF TypeOK, WorkerPcs, CallerPcs, Unscanned
  <1>3. RemainingCounts
    BY <1>1, WorkerSets DEF RemainingCounts, Unfinished
  <1>4. DrainsCurrentBatch /\ SlicesDisjoint /\ BelowCursor /\ AtMostOnce
    BY DEF DrainsCurrentBatch, SlicesDisjoint, BelowCursor, Draining, hashed, Unscanned, AtMostOnce
  <1>5. NoneAhead /\ NoLostWakeup /\ ReturnedIsDone /\ BlockedHasWork
    BY DEF NoneAhead, NoLostWakeup, ReturnedIsDone, BlockedHasWork
  <1>6. NothingSkipped /\ DrainedWhenLeft
    BY DEF NothingSkipped, DrainedWhenLeft
  <1>7. QED
    BY <1>2, <1>3, <1>4, <1>5, <1>6 DEF IInv

\* A dispatch: every worker owes a report, and no worker is in the batch before.
LEMMA RunAsyncIInv ==
  ASSUME IInv, NEW count \in Counts, NEW grain \in Grains, RunAsync(count, grain)
  PROVE  IInv'
  <1> USE DEF RunAsync, localVars
  <1>1. /\ \A w \in Workers : ~Draining(w) /\ lastGeneration[w] = generation
        /\ generation \in Nat /\ count \in Nat \ {0}
    BY NobodyRemains, CountsAssumption DEF IInv, TypeOK, ReturnedIsDone, Returned
  <1>2. \A w \in Workers : /\ pc'[w] = IF pc[w] = "waiting" THEN "test" ELSE pc[w]
                           /\ lastGeneration'[w] # generation'
                           /\ lastGeneration'[w] <= generation'
    BY <1>1 DEF NotifyWork
  <1>3. \A w \in Workers : pc'[w] \in WorkerPcs \ {"waiting", "claim", "hash", "finish"}
    BY <1>1, <1>2 DEF IInv, TypeOK, WorkerPcs, Draining
  <1>4. /\ DrainsCurrentBatch' /\ SlicesDisjoint' /\ BelowCursor' /\ AtMostOnce'
        /\ times' \in [0..(total' - 1) -> Nat]
    <2>1. /\ times' = [i \in 0..(count - 1) |-> 0] /\ total' = count
          /\ DOMAIN times' = 0..(count - 1)
      BY DEF Unscanned
    <2>2. hashed' = {}
      BY <2>1 DEF hashed
    <2>3. QED
      BY <1>3, <2>1, <2>2
      DEF DrainsCurrentBatch, SlicesDisjoint, BelowCursor, Draining, AtMostOnce
  <1>5. TypeOK'
    <2>1. sliceGrain' \in Nat \ {0}
      BY <1>1, GrainPositive
    <2>2. generation' \in 0..MaxBatches
      BY <1>1, MaxBatchesAssumption DEF IInv, TypeOK
    <2>3. pc' \in [Workers -> WorkerPcs]
      BY <1>3 DEF NotifyWork
    <2>4. total' \in Nat /\ remaining' \in 0..poolSize /\ cursor' \in Nat /\ caller' \in CallerPcs
      BY <1>1, PoolSize DEF CallerPcs
    <2>5. UNCHANGED <<lastGeneration, jobTotal, jobGrain, lo>>
      OBVIOUS
    <2>6. QED
      BY <1>4, <2>1, <2>2, <2>3, <2>4, <2>5 DEF IInv, TypeOK
  <1>6. RemainingCounts'
    <2>1. Unfinished' = Workers
      BY <1>2 DEF Unfinished
    <2>2. QED
      BY <2>1 DEF RemainingCounts, poolSize
  <1>7. NoneAhead' /\ NoLostWakeup' /\ ReturnedIsDone' /\ BlockedHasWork'
    BY <1>2, <1>3 DEF NoneAhead, NoLostWakeup, ReturnedIsDone, Returned, BlockedHasWork
  <1>8. NothingSkipped' /\ DrainedWhenLeft'
    BY <1>1, <1>2 DEF NothingSkipped, DrainedWhenLeft
  <1>9. QED
    BY <1>4, <1>5, <1>6, <1>7, <1>8 DEF IInv

\* The caller's other steps move only the caller, and only past a finished batch.
LEMMA CallerMovesIInv ==
  ASSUME IInv, RunAsyncEmpty \/ Wait \/ Interrupt \/ Join
  PROVE  IInv'
  <1>1. /\ UNCHANGED <<poolVars, pc, localVars, times>>
        /\ caller' \in CallerPcs
        /\ caller' \in {"idle", "joining", "destroyed"} => remaining = 0
        /\ caller' = "blocked" => remaining # 0
    BY DEF RunAsyncEmpty, Wait, Interrupt, Join, CallerPcs, IInv, ReturnedIsDone, Returned
  <1> USE <1>1 DEF poolVars, localVars
  <1>2. TypeOK'
    BY DEF IInv, TypeOK
  <1>3. RemainingCounts'
    BY DEF IInv, RemainingCounts, Unfinished, Draining
  <1>4. DrainsCurrentBatch' /\ SlicesDisjoint' /\ BelowCursor' /\ AtMostOnce'
    BY SameHashed
    DEF IInv, DrainsCurrentBatch, SlicesDisjoint, BelowCursor, Draining, Slice, High, AtMostOnce
  <1>5. NoneAhead' /\ NoLostWakeup' /\ ReturnedIsDone' /\ BlockedHasWork'
    BY DEF IInv, TypeOK, NoneAhead, NoLostWakeup, ReturnedIsDone, Returned, BlockedHasWork
  <1>6. NothingSkipped' /\ DrainedWhenLeft'
    BY SameHashed DEF IInv, NothingSkipped, DrainedWhenLeft, Slice, High
  <1>7. QED
    BY <1>2, <1>3, <1>4, <1>5, <1>6 DEF IInv

LEMMA TakeIInv ==
  ASSUME IInv, NEW w \in Workers, Take(w)
  PROVE  IInv'
  <1> USE DEF Take, poolVars
  <1>1. /\ pc' = [pc EXCEPT ![w] = "claim"]
        /\ lastGeneration' = [lastGeneration EXCEPT ![w] = generation]
        /\ pc \in [Workers -> WorkerPcs] /\ lastGeneration \in [Workers -> Nat]
        /\ pc[w] = "test" /\ generation \in Nat
    BY DEF IInv, TypeOK
  <1>2. TypeOK'
    <2>1. pc' \in [Workers -> WorkerPcs] /\ lastGeneration' \in [Workers -> Nat]
      BY <1>1 DEF WorkerPcs
    <2>2. /\ jobTotal' \in [Workers -> Nat] /\ jobGrain' \in [Workers -> Nat \ {0}]
          /\ UNCHANGED <<total, sliceGrain, generation, remaining, cursor, caller, lo, times>>
      BY DEF IInv, TypeOK
    <2>3. QED
      BY <2>1, <2>2 DEF IInv, TypeOK
  <1>3. RemainingCounts'
    <2>1. Unfinished' = Unfinished
      BY <1>1 DEF Unfinished, Draining
    <2>2. QED
      BY <2>1 DEF IInv, RemainingCounts
  <1>4. DrainsCurrentBatch'
    BY <1>1 DEF IInv, TypeOK, DrainsCurrentBatch, Draining
  <1>5. \A v \in Workers : /\ pc'[v] = "hash" <=> pc[v] = "hash"
                           /\ pc[v] = "hash" => Slice(v)' = Slice(v) /\ jobGrain'[v] = jobGrain[v]
                                                 /\ jobTotal'[v] = jobTotal[v] /\ lo'[v] = lo[v]
    BY <1>1 DEF IInv, TypeOK, Slice, High
  <1>6. SlicesDisjoint' /\ BelowCursor' /\ NothingSkipped' /\ AtMostOnce'
    BY <1>5, SameHashed DEF IInv, SlicesDisjoint, BelowCursor, NothingSkipped, AtMostOnce
  <1>7. NoneAhead' /\ NoLostWakeup' /\ ReturnedIsDone' /\ BlockedHasWork'
    BY <1>1 DEF IInv, NoneAhead, NoLostWakeup, ReturnedIsDone, Returned, BlockedHasWork
  <1>8. DrainedWhenLeft'
    BY <1>1 DEF IInv, DrainedWhenLeft
  <1>9. QED
    BY <1>2, <1>3, <1>4, <1>6, <1>7, <1>8 DEF IInv

\* Blocking and leaving the loop change nothing but pc.
LEMMA RestIInv ==
  ASSUME IInv, NEW w \in Workers, Block(w) \/ Exit(w)
  PROVE  IInv'
  <1>1. /\ UNCHANGED <<poolVars, caller, localVars, times>>
        /\ \E to \in {"waiting", "exited"} :
             /\ pc' = [pc EXCEPT ![w] = to]
             /\ to = "waiting" => lastGeneration[w] = generation
        /\ pc[w] \in {"test", "waiting"}
        /\ pc \in [Workers -> WorkerPcs]
    BY DEF Block, Exit, IInv, TypeOK
  <1> USE DEF poolVars, localVars
  <1>2. TypeOK'
    BY <1>1 DEF IInv, TypeOK, WorkerPcs
  <1>3. \A v \in Workers : /\ Draining(v)' <=> Draining(v)
                           /\ pc'[v] = "hash" <=> pc[v] = "hash"
                           /\ Slice(v)' = Slice(v)
                           /\ pc'[v] \in {"claim", "hash"} <=> pc[v] \in {"claim", "hash"}
    BY <1>1 DEF Draining, Slice, High
  <1>4. RemainingCounts'
    <2>1. Unfinished' = Unfinished
      BY <1>1, <1>3 DEF Unfinished
    <2>2. QED
      BY <1>1, <2>1 DEF IInv, RemainingCounts
  <1>5. /\ DrainsCurrentBatch' /\ SlicesDisjoint' /\ BelowCursor' /\ NothingSkipped'
        /\ AtMostOnce'
    BY <1>1, <1>3, SameHashed
    DEF IInv, DrainsCurrentBatch, SlicesDisjoint, BelowCursor, NothingSkipped, AtMostOnce
  <1>6. NoneAhead' /\ NoLostWakeup' /\ ReturnedIsDone' /\ BlockedHasWork'
    BY <1>1 DEF IInv, NoneAhead, NoLostWakeup, ReturnedIsDone, Returned, BlockedHasWork
  <1>7. DrainedWhenLeft'
    BY <1>1, <1>3 DEF IInv, DrainedWhenLeft
  <1>8. QED
    BY <1>2, <1>4, <1>5, <1>6, <1>7 DEF IInv

\* Claiming a slice: it lies between the old cursor and the new one, so it meets
\* neither the slices claimed before nor the indices scanned.
LEMMA ClaimIInv ==
  ASSUME IInv, NEW w \in Workers, Claim(w)
  PROVE  IInv'
  <1> USE DEF Claim
  <1>1. /\ pc' = [pc EXCEPT ![w] = IF cursor < total THEN "hash" ELSE "finish"]
        /\ lo' = [lo EXCEPT ![w] = cursor]
        /\ cursor' = cursor + jobGrain[w]
        /\ pc[w] = "claim" /\ lastGeneration[w] = generation
        /\ jobTotal[w] = total /\ jobGrain[w] = sliceGrain
        /\ pc \in [Workers -> WorkerPcs] /\ lo \in [Workers -> Nat]
        /\ cursor \in Nat /\ total \in Nat /\ sliceGrain \in Nat \ {0}
        /\ \A v \in Workers : jobTotal[v] \in Nat /\ jobGrain[v] \in Nat \ {0} /\ lo[v] \in Nat
    BY DEF IInv, TypeOK, DrainsCurrentBatch, Draining
  <1>2. TypeOK'
    <2>1. /\ pc' \in [Workers -> WorkerPcs] /\ lo' \in [Workers -> Nat] /\ cursor' \in Nat
          /\ UNCHANGED <<total, sliceGrain, generation, remaining, caller, lastGeneration,
                         jobTotal, jobGrain, times>>
      BY <1>1 DEF WorkerPcs
    <2>2. QED
      BY <2>1 DEF IInv, TypeOK
  <1>3. RemainingCounts'
    <2>1. Unfinished' = Unfinished
      BY <1>1 DEF Unfinished, Draining
    <2>2. QED
      BY <2>1 DEF IInv, RemainingCounts
  <1>4. DrainsCurrentBatch'
    BY <1>1 DEF IInv, DrainsCurrentBatch, Draining
  <1>5. \A v \in Workers \ {w} : /\ pc'[v] = pc[v] /\ lo'[v] = lo[v]
                                 /\ Slice(v)' = Slice(v)
    BY <1>1 DEF Slice, High
  <1>6. BelowCursor' /\ AtMostOnce' /\ hashed' = hashed
    <2>1. hashed' = hashed
      BY SameHashed
    <2>2. \A i \in hashed : i \in Nat
      BY HashedOfBatch DEF IInv
    <2>3. BelowCursor'
      BY <1>1, <1>5, <2>1, <2>2 DEF IInv, BelowCursor
    <2>4. QED
      BY <2>1, <2>3 DEF IInv, AtMostOnce
  <1>7. pc'[w] = "hash" => \A i : i \in Slice(w)' <=> i \in Int /\ cursor <= i /\ i < cursor' /\ i < total
    BY <1>1 DEF Slice, High
  <1>8. \A v \in Workers : pc[v] = "hash" => \A i \in Slice(v) : i < cursor
    BY <1>1 DEF IInv, BelowCursor, Slice, High
  <1>9. SlicesDisjoint'
    <2> SUFFICES ASSUME NEW v \in Workers, pc'[v] = "hash"
                 PROVE  /\ Slice(v)' # {}
                        /\ Slice(v)' \cap hashed = {}
                        /\ \A u \in Workers \ {v} : pc'[u] = "hash" => Slice(u)' \cap Slice(v)' = {}
      BY <1>6 DEF SlicesDisjoint
    <2>1. CASE v = w
      <3>1. cursor \in Slice(w)'
        BY <2>1, <1>1, <1>7
      <3>2. \A i \in hashed : i < cursor
        BY DEF IInv, BelowCursor
      <3>3. \A u \in Workers \ {w} : pc'[u] = "hash" => \A i \in Slice(u)' : i < cursor
        BY <1>5, <1>8
      <3>4. \A i \in Slice(w)' : ~(i < cursor)
        BY <2>1, <1>1, <1>7
      <3>5. QED
        BY <2>1, <3>1, <3>2, <3>3, <3>4
    <2>2. CASE v # w
      <3>1. pc[v] = "hash" /\ Slice(v)' = Slice(v) /\ \A i \in Slice(v)' : i < cursor
        BY <2>2, <1>5, <1>8
      <3>2. Slice(v) # {} /\ Slice(v) \cap hashed = {}
        BY <3>1 DEF IInv, SlicesDisjoint
      <3>3. \A u \in Workers \ {v, w} : pc'[u] = "hash" => Slice(u)' \cap Slice(v)' = {}
        BY <1>5, <3>1 DEF IInv, SlicesDisjoint
      <3>4. pc'[w] = "hash" => Slice(w)' \cap Slice(v)' = {}
        BY <1>1, <1>7, <3>1
      <3>5. QED
        BY <3>1, <3>2, <3>3, <3>4
    <2>3. QED
      BY <2>1, <2>2
  <1>10. NothingSkipped'
    <2> SUFFICES ASSUME NEW i \in 0..(total - 1), i < cursor'
                 PROVE  \/ i \in hashed
                        \/ \E v \in Workers : pc'[v] = "hash" /\ i \in Slice(v)'
      BY <1>6 DEF NothingSkipped
    <2>1. CASE i < cursor
      <3>1. i \in hashed \/ \E v \in Workers : pc[v] = "hash" /\ i \in Slice(v)
        BY <2>1 DEF IInv, NothingSkipped
      <3>2. QED
        BY <3>1, <1>1, <1>5
    <2>2. CASE ~(i < cursor)
      <3>1. pc'[w] = "hash" /\ i \in Slice(w)'
        BY <2>2, <1>1, <1>7
      <3>2. QED
        BY <3>1
    <2>3. QED
      BY <2>1, <2>2
  <1>11. NoneAhead' /\ NoLostWakeup' /\ ReturnedIsDone' /\ BlockedHasWork'
    BY <1>1 DEF IInv, NoneAhead, NoLostWakeup, ReturnedIsDone, Returned, BlockedHasWork
  <1>12. DrainedWhenLeft'
    BY <1>1 DEF IInv, DrainedWhenLeft
  <1>13. QED
    BY <1>2, <1>3, <1>4, <1>6, <1>9, <1>10, <1>11, <1>12 DEF IInv

\* The slices claimed are part of the batch.
LEMMA SliceOfBatch ==
  ASSUME IInv, NEW w \in Workers, pc[w] = "hash"
  PROVE  Slice(w) \subseteq 0..(total - 1)
  <1>1. /\ total \in Nat /\ lo[w] \in Nat /\ jobGrain[w] \in Nat \ {0}
        /\ jobTotal[w] = total
    BY DEF IInv, TypeOK, DrainsCurrentBatch, Draining
  <1>2. QED
    BY <1>1 DEF Slice, High

\* Scanning a slice of the batch counts its indices once more.
LEMMA PassedIs ==
  ASSUME IInv, NEW w \in Workers, Hash(w)
  PROVE  /\ times' \in [0..(total - 1) -> Nat]
         /\ \A i \in 0..(total - 1) :
              times'[i] = IF i \in Slice(w) THEN times[i] + 1 ELSE times[i]
  <1>1. times \in [0..(total - 1) -> Nat]
    BY DEF IInv, TypeOK
  <1>2. DOMAIN times \cup Slice(w) = 0..(total - 1)
    BY <1>1, SliceOfBatch DEF Hash
  <1>3. times' = [i \in 0..(total - 1) |->
                    (IF i \in DOMAIN times THEN times[i] ELSE 0)
                      + (IF i \in Slice(w) THEN 1 ELSE 0)]
    BY <1>2 DEF Hash, Passed
  <1>4. QED
    BY <1>1, <1>3

LEMMA HashIInv ==
  ASSUME IInv, NEW w \in Workers, Hash(w)
  PROVE  IInv'
  <1> USE DEF Hash, poolVars, localVars
  <1>1. /\ pc' = [pc EXCEPT ![w] = "claim"]
        /\ pc[w] = "hash" /\ pc \in [Workers -> WorkerPcs]
    BY DEF IInv, TypeOK
  <1>2. \A v \in Workers : Slice(v)' = Slice(v) /\ (Draining(v)' <=> Draining(v))
    BY <1>1 DEF Slice, High, Draining
  <1>3. TypeOK' /\ AtMostOnce' /\ hashed' = hashed \cup Slice(w)
    <2>1. \A i \in 0..(total - 1) : times'[i] = IF i \in Slice(w) THEN times[i] + 1 ELSE times[i]
      BY <1>1, PassedIs
    <2>2. times' \in [0..(total - 1) -> Nat]
      BY <1>1, PassedIs
    <2>3. TypeOK'
      BY <1>1, <2>2 DEF IInv, TypeOK, WorkerPcs
    <2>4. \A i \in Slice(w) : i \in 0..(total - 1) /\ times[i] = 0
      BY <1>1, SliceOfBatch DEF IInv, SlicesDisjoint, TypeOK, hashed
    <2>5. times \in [0..(total - 1) -> Nat] /\ \A i \in 0..(total - 1) : times[i] <= 1
      BY DEF IInv, AtMostOnce, TypeOK
    <2>6. AtMostOnce'
      BY <2>1, <2>2, <2>4, <2>5 DEF AtMostOnce
    <2>7. hashed' = hashed \cup Slice(w)
      BY <2>1, <2>2, <2>4, <2>5 DEF hashed
    <2>8. QED
      BY <2>3, <2>6, <2>7
  <1>4. RemainingCounts'
    <2>1. Unfinished' = Unfinished
      BY <1>2 DEF Unfinished
    <2>2. QED
      BY <2>1 DEF IInv, RemainingCounts
  <1>5. DrainsCurrentBatch'
    BY <1>2 DEF IInv, DrainsCurrentBatch
  <1>6. BelowCursor'
    <2>1. \A i \in Slice(w) : i < cursor
      BY <1>1 DEF IInv, TypeOK, BelowCursor, Slice, High
    <2>2. QED
      BY <1>1, <1>3, <2>1 DEF IInv, BelowCursor
  <1>7. SlicesDisjoint'
    BY <1>1, <1>2, <1>3 DEF IInv, SlicesDisjoint
  <1>8. NothingSkipped'
    BY <1>1, <1>2, <1>3 DEF IInv, NothingSkipped
  <1>9. NoneAhead' /\ NoLostWakeup' /\ ReturnedIsDone' /\ BlockedHasWork'
    BY <1>1 DEF IInv, NoneAhead, NoLostWakeup, ReturnedIsDone, Returned, BlockedHasWork
  <1>10. DrainedWhenLeft'
    BY <1>1 DEF IInv, DrainedWhenLeft
  <1>11. QED
    BY <1>3, <1>4, <1>5, <1>6, <1>7, <1>8, <1>9, <1>10 DEF IInv

\* The report of one worker takes it off those that remain.
LEMMA FinishIInv ==
  ASSUME IInv, NEW w \in Workers, Finish(w)
  PROVE  IInv'
  <1> USE DEF Finish, localVars
  <1>1. /\ pc' = [pc EXCEPT ![w] = "test"]
        /\ pc[w] = "finish" /\ pc \in [Workers -> WorkerPcs]
        /\ lastGeneration[w] = generation
    BY DEF IInv, TypeOK, DrainsCurrentBatch, Draining
  <1>2. \A v \in Workers : /\ Slice(v)' = Slice(v)
                           /\ pc'[v] \in {"claim", "hash"} <=> pc[v] \in {"claim", "hash"}
                           /\ pc'[v] = "hash" <=> pc[v] = "hash"
    BY <1>1 DEF Slice, High
  <1>3. w \in Unfinished /\ Unfinished' = Unfinished \ {w}
    BY <1>1 DEF Unfinished, Draining
  <1>4. RemainingCounts' /\ remaining' \in 0..poolSize
    <2>1. Unfinished \in SUBSET Workers /\ Unfinished' \in SUBSET Workers
      BY DEF Unfinished
    <2>2. Cardinality(Unfinished') = remaining'
      BY <1>3, <2>1, WorkerSets DEF IInv, RemainingCounts
    <2>3. Cardinality(Unfinished') \in 0..poolSize
      BY <2>1, WorkerSets
    <2>4. QED
      BY <2>2, <2>3 DEF RemainingCounts
  <1>5. ~Returned
    <2>1. Unfinished # {} /\ Unfinished \in SUBSET Workers
      BY <1>3 DEF Unfinished
    <2>2. remaining # 0
      BY <2>1, WorkerSets DEF IInv, RemainingCounts
    <2>3. QED
      BY <2>2 DEF IInv, ReturnedIsDone
  <1>6. TypeOK'
    BY <1>1, <1>4 DEF IInv, TypeOK, WorkerPcs, CallerPcs
  <1>7. DrainsCurrentBatch'
    BY <1>1 DEF IInv, DrainsCurrentBatch, Draining
  <1>8. BelowCursor' /\ NothingSkipped' /\ SlicesDisjoint' /\ AtMostOnce'
    BY <1>2, SameHashed DEF IInv, BelowCursor, NothingSkipped, SlicesDisjoint, AtMostOnce
  <1>9. NoneAhead' /\ NoLostWakeup'
    BY <1>1 DEF IInv, NoneAhead, NoLostWakeup
  <1>10. ReturnedIsDone' /\ BlockedHasWork'
    <2>1. ~Returned'
      BY <1>5 DEF Returned
    <2>2. remaining' # 0 => remaining' > 0
      BY <1>4, PoolSize DEF IInv, TypeOK
    <2>3. caller' = "blocked" => remaining' # 0
      OBVIOUS
    <2>4. QED
      BY <2>1, <2>2, <2>3, Zenon DEF ReturnedIsDone, BlockedHasWork
  <1>11. DrainedWhenLeft'
    BY <1>1 DEF IInv, DrainedWhenLeft
  <1>12. QED
    BY <1>4, <1>6, <1>7, <1>8, <1>9, <1>10, <1>11 DEF IInv

LEMMA NextIInv == IInv /\ [Next]_vars => IInv'
  <1> SUFFICES ASSUME IInv, [Next]_vars PROVE IInv'
    OBVIOUS
  <1>1. ASSUME NEW count \in Counts, NEW grain \in Grains, RunAsync(count, grain) PROVE IInv'
    BY <1>1, RunAsyncIInv
  <1>2. CASE RunAsyncEmpty \/ Wait \/ Interrupt \/ Join
    BY <1>2, CallerMovesIInv
  <1>3. ASSUME NEW w \in Workers, Worker(w) PROVE IInv'
    BY <1>3, TakeIInv, RestIInv, ClaimIInv, HashIInv, FinishIInv DEF Worker
  <1>4. CASE UNCHANGED vars
    <2> USE <1>4 DEF vars, poolVars, localVars
    <2>1. TypeOK' /\ AtMostOnce'
      BY DEF IInv, TypeOK, AtMostOnce
    <2>2. RemainingCounts' /\ DrainsCurrentBatch' /\ DrainedWhenLeft'
      BY DEF IInv, RemainingCounts, Unfinished, Draining, DrainsCurrentBatch, DrainedWhenLeft
    <2>3. NoneAhead' /\ NoLostWakeup' /\ ReturnedIsDone' /\ BlockedHasWork'
      BY DEF IInv, NoneAhead, NoLostWakeup, ReturnedIsDone, Returned, BlockedHasWork
    <2>4. BelowCursor' /\ NothingSkipped' /\ SlicesDisjoint'
      BY SameHashed DEF IInv, BelowCursor, NothingSkipped, SlicesDisjoint, Slice, High
    <2>5. QED
      BY <2>1, <2>2, <2>3, <2>4 DEF IInv
  <1>5. QED
    BY <1>1, <1>2, <1>3, <1>4 DEF Next, Caller, Terminated

\* The inductive invariant holds in every state the pool can reach.
THEOREM Invariance == Spec => []IInv
  BY InitIInv, NextIInv, PTL DEF Spec

-----------------------------------------------------------------------------
\* Every variable of the pool keeps its type.
THEOREM TypeCorrect == Spec => []TypeOK
  BY Invariance, PTL DEF IInv

\* A worker drains the batch that is current, with that batch's bounds.
THEOREM CurrentBatchOnly == Spec => []DrainsCurrentBatch
  BY Invariance, PTL DEF IInv

\* CpuThreadPool::remaining always counts the workers that have still to report,
\* whatever the number of workers.
THEOREM CountIsExact == Spec => []RemainingCounts
  BY Invariance, PTL DEF IInv

\* No index of a batch is handed to two workers, or to one worker twice.
THEOREM NoIndexTwice == Spec => []SlicesDisjoint
  BY Invariance, PTL DEF IInv

\* A caller blocked in wait() has a report to come: the notification of the last
\* worker cannot be lost.
THEOREM NoLostDone == Spec => []BlockedHasWork
  BY Invariance, PTL DEF IInv

\* When wait() has returned, every index of the batch was scanned and no worker is
\* in the batch any more: the caller may read the results and dispatch again.
THEOREM WaitReturnsWhenDone == Spec => []ReturnsWhenDone
  <1>1. IInv => ReturnsWhenDone
    BY NobodyRemains DEF IInv, ReturnedIsDone, Returned, ReturnsWhenDone
  <1>2. QED
    BY <1>1, Invariance, PTL

-----------------------------------------------------------------------------
(***************************************************************************)
(* The refinement of ParallelFor.                                          *)
(***************************************************************************)

LEMMA InitRefines == Init => PF!Init
  BY DEF Init, PF!Init, Unscanned

\* Once nobody remains nothing is pending.
LEMMA NothingPending ==
  ASSUME IInv, remaining = 0
  PROVE  PF!Pending = {}
  <1>1. times \in [0..(total - 1) -> Nat] /\ \A i \in 0..(total - 1) : times[i] = 1
    BY NobodyRemains DEF IInv, TypeOK
  <1>2. QED
    BY <1>1 DEF PF!Pending

LEMMA CallerRefines == IInv /\ Caller => [PF!Next]_(PF!vars)
  <1> SUFFICES ASSUME IInv, Caller PROVE [PF!Next]_(PF!vars)
    OBVIOUS
  <1> USE DEF PF!Next, PF!vars
  <1>1. ASSUME NEW count \in Counts, NEW grain \in Grains, RunAsync(count, grain)
        PROVE  PF!Dispatch(count)
    BY <1>1, CountsAssumption DEF RunAsync, PF!Dispatch, Unscanned
  <1>2. ASSUME RunAsyncEmpty PROVE PF!Dispatch(0)
    BY <1>2 DEF RunAsyncEmpty, PF!Dispatch, poolVars
  <1>3. ASSUME Wait, remaining = 0 PROVE PF!Finish
    BY <1>3, NothingPending DEF Wait, PF!Finish, poolVars
  <1>4. CASE (Wait /\ remaining # 0) \/ Interrupt \/ Join
    BY <1>4 DEF Wait, Interrupt, Join, poolVars
  <1>5. QED
    BY <1>1, <1>2, <1>3, <1>4 DEF Caller, RunAsyncEmpty

\* Only Hash moves the abstract state, and only while a batch is dispatched.
LEMMA WorkerRefines ==
  ASSUME IInv, NEW w \in Workers, Worker(w)
  PROVE  [PF!Next]_(PF!vars)
  <1> USE DEF PF!Next, PF!vars
  <1>1. CASE Hash(w)
    <2>1. Slice(w) # {} /\ Slice(w) \cap hashed = {} /\ Slice(w) \subseteq 0..(total - 1)
      BY <1>1, SliceOfBatch DEF Hash, IInv, SlicesDisjoint
    <2>2. caller \in {"dispatched", "blocked"}
      BY <1>1, NobodyRemains DEF Hash, Draining, IInv, ReturnedIsDone, Returned, TypeOK, CallerPcs
    <2>3. Slice(w) \in SUBSET PF!Pending
      BY <2>1 DEF PF!Pending, hashed, IInv, TypeOK
    <2>4. times' = [i \in DOMAIN times |-> IF i \in Slice(w) THEN times[i] + 1 ELSE times[i]]
      BY <1>1, PassedIs DEF IInv, TypeOK
    <2>5. PF!Scan(Slice(w))
      BY <1>1, <2>1, <2>2, <2>3, <2>4 DEF Hash, PF!Scan, poolVars
    <2>6. QED
      BY <2>3, <2>5
  <1>2. CASE Take(w) \/ Block(w) \/ Claim(w) \/ Exit(w)
    BY <1>2 DEF Take, Block, Claim, Exit, poolVars, localVars
  <1>3. CASE Finish(w)
    BY <1>3 DEF Finish
  <1>4. QED
    BY <1>1, <1>2, <1>3 DEF Worker

\* The pool implements the parallel loop: every batch is scanned index by index,
\* exactly once, and wait() ends it only when nothing is pending.
THEOREM PoolImplementsParallelFor == Spec => ImplementsParallelFor
  <1>1. IInv /\ [Next]_vars => [PF!Next]_(PF!vars)
    <2>1. CASE UNCHANGED vars
      BY <2>1 DEF vars, poolVars, localVars, PF!vars
    <2>2. QED
      BY <2>1, CallerRefines, WorkerRefines DEF Next, Terminated
  <1>2. QED
    BY <1>1, InitRefines, Invariance, PTL DEF Spec, ImplementsParallelFor, PF!Spec

-----------------------------------------------------------------------------
(***************************************************************************)
(* ResolverCpuBlake3.                                                      *)
(***************************************************************************)

\* The types, with what the buffers and the shares are records of.
Typed ==
  /\ devicePc \in {"waitJob", "loop", "prepare", "dispatch", "submit", "advance",
             "cleanUp", "destroyed"}
  /\ jobInfo \in [job : 0..MaxJobs, nonce : Nat]
  /\ jobId \in 0..MaxJobs
  /\ currentIndexStream \in Buffers
  /\ inFlight \in BOOLEAN
  /\ resultShare \in [label : 0..MaxJobs, hits : SUBSET Candidates]
  /\ batch \in [Buffers -> [header : 0..MaxJobs, base : Nat, hits : SUBSET Candidates]]
  /\ \A b \in Buffers : Fits(batch[b].hits)
  /\ busy \in BOOLEAN
  /\ scans \in [DOMAIN scans -> Nat] /\ DOMAIN scans \subseteq 0..(Count - 1)
  /\ scanned \subseteq Candidates

\* Where the device's thread is and what the pool does meanwhile: no batch runs
\* between the harvest and the dispatch, and nothing waits to be submitted outside of
\* executeAsync and submit.
Phases ==
  /\ devicePc # "waitJob" => jobInfo.job >= 1
  /\ devicePc \in {"waitJob", "prepare", "dispatch", "destroyed"} => ~busy
  /\ devicePc = "waitJob" => ~inFlight
  /\ devicePc \in {"loop", "submit", "advance", "cleanUp"} => (busy <=> inFlight)
  /\ devicePc \in {"submit", "advance"} => busy
  /\ devicePc \in {"waitJob", "loop", "advance", "cleanUp", "destroyed"} =>
       resultShare = NoShare
  /\ ~busy => pending = {}

Current == batch[currentIndexStream]

\* The nonces of the live job from the next batch on are those nobody has tried.
Below(c) == c.header < jobInfo.job \/ (c.header = jobInfo.job /\ c.nonce < jobInfo.nonce)
Candidate(i) == [header |-> Current.header, nonce |-> Current.base + i]

\* The buffer that is not in use is empty, and so is the other before its batch
\* is dispatched; the batch in flight is of the live job or of one before.
InOrder ==
  /\ batch[1 - currentIndexStream].hits = {}
  /\ devicePc # "destroyed" /\ ~busy => Current.hits = {}
  /\ busy => Current.header >= 1
  /\ devicePc \in {"dispatch", "submit", "advance"} =>
       Current.header = jobInfo.job /\ Current.base = jobInfo.nonce
  /\ busy /\ devicePc \notin {"submit", "advance"} =>
       \A i \in 0..(Count - 1) : Below(Candidate(i))

\* What was hashed lies below the next batch or in the one in flight, of which
\* exactly the pending indices were not.
Scanned ==
  /\ \A c \in scanned : Below(c) \/ (busy /\ \E i \in 0..(Count - 1) : c = Candidate(i))
  /\ busy => \A i \in 0..(Count - 1) : i \in pending <=> Candidate(i) \notin scanned

\* With one internal loop nothing is left out below the next batch.
Covered ==
  InternalLoop = 1 /\ jobInfo.job > 0 =>
    \A n \in 0..(jobInfo.nonce - 1) :
      \/ [header |-> jobInfo.job, nonce |-> n] \in scanned
      \/ busy /\ \E i \in pending : Candidate(i) = [header |-> jobInfo.job, nonce |-> n]

\* The winners were hashed, and are in one place.
Winners ==
  /\ SharesAccounted
  /\ found \subseteq scanned
  /\ Current.hits \cap resultShare.hits = {}

BlakeInv ==
  /\ Typed
  /\ Phases
  /\ InOrder
  /\ Scanned
  /\ Covered
  /\ Winners

-----------------------------------------------------------------------------
\* What the steps of the pool do to the indices that are pending.
LEMMA PoolSteps ==
  ASSUME Typed
  PROVE  /\ pending \subseteq 0..(Count - 1)
         /\ Pool!Dispatch(Count) =>
              /\ ~busy /\ busy' = TRUE /\ pending' = 0..(Count - 1)
              /\ scans' \in [0..(Count - 1) -> Nat] /\ DOMAIN scans' = 0..(Count - 1)
         /\ \A slice : Pool!Scan(slice) =>
              /\ busy /\ busy' = busy
              /\ slice \subseteq pending /\ pending' = pending \ slice
              /\ scans' \in [DOMAIN scans -> Nat] /\ DOMAIN scans' = DOMAIN scans
         /\ Pool!Finish => /\ busy /\ pending = {} /\ busy' = FALSE /\ pending' = {}
                           /\ scans' = scans
<1>1. scans \in [DOMAIN scans -> Nat] /\ DOMAIN scans \subseteq 0..(Count - 1)
  BY DEF Typed
<1>2. pending \subseteq 0..(Count - 1)
  BY <1>1 DEF pending, Pool!Pending
<1>3. ASSUME Pool!Dispatch(Count)
      PROVE  /\ ~busy /\ busy' = TRUE /\ pending' = 0..(Count - 1)
             /\ scans' \in [0..(Count - 1) -> Nat] /\ DOMAIN scans' = 0..(Count - 1)
  <2>1. ~busy /\ busy' = TRUE /\ scans' = [i \in 0..(Count - 1) |-> 0]
    BY <1>3, CountAssumption DEF Pool!Dispatch
  <2> QED
    BY <2>1 DEF pending, Pool!Pending
<1>4. ASSUME NEW slice, Pool!Scan(slice)
      PROVE  /\ busy /\ busy' = busy
             /\ slice \subseteq pending /\ pending' = pending \ slice
             /\ scans' \in [DOMAIN scans -> Nat] /\ DOMAIN scans' = DOMAIN scans
  <2>1. /\ busy /\ busy' = busy /\ slice \subseteq pending
        /\ scans' = [i \in DOMAIN scans |-> IF i \in slice THEN scans[i] + 1 ELSE scans[i]]
    BY <1>4 DEF Pool!Scan, pending
  <2>2. \A i \in slice : i \in DOMAIN scans /\ scans[i] = 0
    BY <2>1 DEF pending, Pool!Pending
  <2>3. scans' \in [DOMAIN scans -> Nat] /\ DOMAIN scans' = DOMAIN scans
    BY <1>1, <2>1
  <2>4. pending' = pending \ slice
    BY <1>1, <2>1, <2>2 DEF pending, Pool!Pending
  <2> QED
    BY <2>1, <2>3, <2>4
<1>5. ASSUME Pool!Finish
      PROVE  busy /\ pending = {} /\ busy' = FALSE /\ pending' = {} /\ scans' = scans
  BY <1>5 DEF Pool!Finish, pending, Pool!Pending
<1> QED
  BY <1>2, <1>3, <1>4, <1>5

LEMMA SamePending == UNCHANGED scans => pending' = pending
  BY DEF pending, Pool!Pending

\* What the types say of the buffer in use and of its candidates.
LEMMA CurrentType ==
  ASSUME Typed
  PROVE  /\ currentIndexStream \in Buffers /\ 1 - currentIndexStream \in Buffers
         /\ 1 - currentIndexStream # currentIndexStream
         /\ Buffers = {currentIndexStream, 1 - currentIndexStream}
         /\ Current \in [header : 0..MaxJobs, base : Nat, hits : SUBSET Candidates]
         /\ Current.header \in Nat /\ Current.base \in Nat /\ Current.hits \subseteq Candidates
         /\ jobInfo.job \in Nat /\ jobInfo.nonce \in Nat
         /\ MaxJobs \in Nat \ {0} /\ Count \in Nat \ {0} /\ InternalLoop \in Nat \ {0}
<1>1. MaxJobs \in Nat \ {0} /\ Count \in Nat \ {0} /\ InternalLoop \in Nat \ {0}
  BY BoundsAssumption, CountAssumption, InternalLoopAssumption
<1>2. currentIndexStream = 0 \/ currentIndexStream = 1
  BY DEF Typed, Buffers
<1>3. /\ 1 - currentIndexStream \in Buffers /\ 1 - currentIndexStream # currentIndexStream
      /\ Buffers = {currentIndexStream, 1 - currentIndexStream}
  BY <1>2 DEF Buffers
<1>4. Current \in [header : 0..MaxJobs, base : Nat, hits : SUBSET Candidates]
  BY DEF Typed, Current
<1> QED
  BY <1>1, <1>3, <1>4 DEF Typed

\* The winners that are held, with the other buffer empty.
LEMMA HeldIs ==
  ASSUME NEW buffers, NEW c \in Buffers, NEW share, buffers[1 - c].hits = {}
  PROVE  buffers[0].hits \cup buffers[1].hits \cup share.hits = buffers[c].hits \cup share.hits
<1>1. CASE c = 0
  BY <1>1
<1>2. CASE c = 1
  BY <1>2
<1> QED
  BY <1>1, <1>2 DEF Buffers

\* Candidates of one batch differ when their indices do, and are those of its slice.
LEMMA CandidatesDiffer ==
  ASSUME Typed, NEW i \in 0..(Count - 1), NEW j \in 0..(Count - 1), Candidate(i) = Candidate(j)
  PROVE  i = j
<1>1. Current.base \in Nat /\ Count \in Nat
  BY CurrentType
<1>2. Current.base + i = Current.base + j
  BY DEF Candidate
<1> QED
  BY <1>1, <1>2

LEMMA SliceCandidates ==
  ASSUME NEW slice
  PROVE  CandidatesOf(currentIndexStream, slice) = {Candidate(i) : i \in slice}
  BY DEF CandidatesOf, Candidate, Current

\* A step that leaves the buffers, the pool and the shares alone, and the next batch
\* of the live job where it is.
LEMMA QuietBlake ==
  ASSUME BlakeInv,
         UNCHANGED <<jobInfo, jobId, currentIndexStream, resultShare, batch, parallelVars,
                     history>>,
         inFlight' \in BOOLEAN, Phases',
         devicePc' \in {"waitJob", "loop", "prepare", "dispatch", "submit", "advance",
                  "cleanUp", "destroyed"},
         devicePc' # "destroyed" => devicePc # "destroyed",
         devicePc' \in {"dispatch", "submit", "advance"} =>
           devicePc \in {"dispatch", "submit", "advance"},
         devicePc \in {"submit", "advance"} => devicePc' \in {"submit", "advance"}
  PROVE  BlakeInv'
<1>1. Typed'
  BY DEF BlakeInv, Typed, parallelVars, history, Fits
<1>2. InOrder'
  BY DEF BlakeInv, InOrder, parallelVars, Current, Candidate, Below
<1>3. Scanned' /\ Covered'
  BY SamePending
  DEF BlakeInv, Scanned, Covered, parallelVars, history, Current, Candidate, Below
<1>4. Winners'
  BY DEF BlakeInv, Winners, SharesAccounted, Held, Settled, history, Current
<1> QED
  BY <1>1, <1>2, <1>3, <1>4 DEF BlakeInv

\* The end of a batch: nothing of it is pending, so what was hashed lies below the
\* next batch.
LEMMA FinishBlake ==
  ASSUME BlakeInv, Pool!Finish, devicePc \in {"loop", "cleanUp"},
         UNCHANGED <<jobInfo, currentIndexStream, history>>,
         batch'[currentIndexStream].header = Current.header,
         batch'[currentIndexStream].base = Current.base
  PROVE  Scanned' /\ Covered' /\ ~busy' /\ pending' = {}
<1>1. busy /\ pending = {} /\ busy' = FALSE /\ pending' = {}
  BY PoolSteps DEF BlakeInv
<1>2. \A i : Candidate(i)' = Candidate(i)
  BY DEF Candidate, Current
<1>3. \A c : Below(c)' <=> Below(c)
  BY DEF Below
<1>4. \A i \in 0..(Count - 1) : Below(Candidate(i))
  BY <1>1 DEF BlakeInv, InOrder
<1>5. Scanned'
  BY <1>1, <1>3, <1>4 DEF BlakeInv, Scanned, history
<1>6. Covered'
  BY <1>1, <1>2 DEF BlakeInv, Covered, history
<1> QED
  BY <1>1, <1>5, <1>6

-----------------------------------------------------------------------------
\* A new job, or the first: everything that was hashed belongs to jobs before it.
LEMMA UpdateJobBlake ==
  ASSUME BlakeInv, UpdateJob
  PROVE  BlakeInv'
<1>1. /\ devicePc \in {"waitJob", "loop"} /\ jobInfo.job < MaxJobs
      /\ jobInfo' = [job |-> jobInfo.job + 1, nonce |-> 0] /\ jobId' = jobInfo'.job
      /\ devicePc' = "loop"
      /\ UNCHANGED <<currentIndexStream, inFlight, resultShare, batch, busy, scans, pending,
                     scanned, found, sent, dropped>>
  BY SamePending DEF UpdateJob, parallelVars, history
<1>2. Typed
  BY DEF BlakeInv
<1>3. jobInfo.job \in Nat /\ Current.header \in Nat /\ MaxJobs \in Nat
  BY <1>2, CurrentType
<1>4. jobInfo'.job = jobInfo.job + 1 /\ jobInfo'.nonce = 0 /\ jobInfo'.job \in 1..MaxJobs
  BY <1>1, <1>3
<1>5. Typed'
  BY <1>1, <1>2, <1>4 DEF Typed, Fits
<1>6. Phases'
  BY <1>1, <1>4 DEF BlakeInv, Phases
<1>7. Candidate(0).header = Current.header /\ \A i : Candidate(i)' = Candidate(i)
  BY <1>1 DEF Candidate, Current
<1>8. ASSUME NEW c \in Candidates, Below(c) PROVE Below(c)'
  <2>1. c.header \in Nat /\ c.header <= jobInfo.job
    BY <1>3, <1>8 DEF Below, Candidates
  <2> QED
    BY <2>1, <1>3, <1>4 DEF Below
<1>9. ASSUME busy, NEW i \in 0..(Count - 1) PROVE Below(Candidate(i))'
  <2>1. Below(Candidate(i))
    BY <1>1, <1>9 DEF BlakeInv, InOrder
  <2>2. Candidate(i) \in Candidates
    <3>1. Current.header \in 1..MaxJobs /\ Current.base + i \in Nat
      BY <1>2, <1>9, CurrentType DEF BlakeInv, InOrder
    <3> QED
      BY <3>1 DEF Candidate, Candidates
  <2>3. Below(Candidate(i))' <=>
          \/ Candidate(i).header < jobInfo'.job
          \/ Candidate(i).header = jobInfo'.job /\ Candidate(i).nonce < jobInfo'.nonce
    BY <1>7 DEF Below
  <2> QED
    BY <1>8, <2>1, <2>2, <2>3 DEF Below
<1>10. InOrder'
  BY <1>1, <1>9 DEF BlakeInv, InOrder, Current
<1>11. Scanned'
  <2>1. ASSUME NEW c \in scanned PROVE Below(c)' 
    <3>1. CASE Below(c)
      BY <1>2, <1>8, <2>1, <3>1 DEF Typed
    <3>2. CASE busy /\ \E i \in 0..(Count - 1) : c = Candidate(i)
      BY <1>7, <1>9, <3>2 DEF Below
    <3> QED
      BY <2>1, <3>1, <3>2 DEF BlakeInv, Scanned
  <2> QED
    BY <1>1, <1>7, <2>1 DEF BlakeInv, Scanned
<1>12. Covered'
  BY <1>4 DEF Covered
<1>13. Winners'
  BY <1>1 DEF BlakeInv, Winners, SharesAccounted, Held, Settled, Current
<1> QED
  BY <1>5, <1>6, <1>10, <1>11, <1>12, <1>13 DEF BlakeInv

\* The pool is waited for; the winners of its buffer go over to resultShare.
LEMMA HarvestBlake ==
  ASSUME BlakeInv, Harvest
  PROVE  BlakeInv'
<1> DEFINE c == currentIndexStream
<1>1. /\ devicePc = "loop" /\ devicePc' = "prepare" /\ Pool!Finish
      /\ IF Current.hits # {}
         THEN /\ resultShare' = [label |-> jobInfo.job, hits |-> Current.hits]
              /\ batch' = [batch EXCEPT ![currentIndexStream].hits = {}]
         ELSE UNCHANGED <<resultShare, batch>>
      /\ UNCHANGED <<jobInfo, jobId, currentIndexStream, inFlight, history>>
  BY DEF Harvest, Current
<1>2. Typed /\ resultShare = NoShare
  BY <1>1 DEF BlakeInv, Phases
<1>3. /\ currentIndexStream \in Buffers /\ 1 - currentIndexStream \in Buffers
      /\ 1 - currentIndexStream # currentIndexStream
      /\ Buffers = {currentIndexStream, 1 - currentIndexStream}
      /\ batch \in [Buffers -> [header : 0..MaxJobs, base : Nat, hits : SUBSET Candidates]]
  BY <1>2, CurrentType DEF Typed
<1>4. /\ batch' \in [Buffers -> [header : 0..MaxJobs, base : Nat, hits : SUBSET Candidates]]
      /\ batch'[currentIndexStream].hits = {}
      /\ batch'[currentIndexStream].header = Current.header
      /\ batch'[currentIndexStream].base = Current.base
      /\ batch'[1 - currentIndexStream] = batch[1 - currentIndexStream]
      /\ resultShare' \in [label : 0..MaxJobs, hits : SUBSET Candidates]
      /\ resultShare'.hits = Current.hits
  <2>1. CASE Current.hits = {}
    BY <1>1, <1>2, <1>3, <2>1 DEF Current, NoShare, Typed
  <2>2. CASE Current.hits # {}
    <3>1. /\ resultShare' = [label |-> jobInfo.job, hits |-> Current.hits]
          /\ batch' = [batch EXCEPT ![currentIndexStream].hits = {}]
      BY <1>1, <2>2
    <3>2. Current.hits \subseteq Candidates /\ jobInfo.job \in 0..MaxJobs
      BY <1>2, CurrentType DEF Typed
    <3> QED
      BY <1>3, <3>1, <3>2 DEF Current
  <2> QED
    BY <2>1, <2>2
<1>5. Scanned' /\ Covered' /\ ~busy' /\ pending' = {}
  BY <1>1, <1>4, FinishBlake
<1>6. Fits({})
  BY MaxResultAssumption, FS_EmptySet DEF Fits
<1>7. Typed'
  <2>1. \A b \in Buffers : Fits(batch[b].hits)'
    BY <1>1, <1>2, <1>3, <1>4, <1>6 DEF Typed, Fits
  <2> QED
    BY <1>1, <1>2, <1>4, <1>5, <2>1, PoolSteps DEF Typed, history
<1>8. Phases'
  BY <1>1, <1>5 DEF BlakeInv, Phases
<1>9. InOrder'
  BY <1>1, <1>4, <1>5 DEF BlakeInv, InOrder, Current
<1>10. Winners'
  <2>1. Held = Current.hits \cup resultShare.hits /\ resultShare.hits = {}
    BY <1>2, <1>3, HeldIs DEF BlakeInv, InOrder, NoShare, Held, Current
  <2>2. Current'.hits = {} /\ batch'[1 - currentIndexStream'].hits = {}
    BY <1>1, <1>4 DEF BlakeInv, InOrder, Current
  <2>3. Held' = Current'.hits \cup resultShare'.hits
    BY <1>7, <2>2, HeldIs DEF Held, Current, Typed
  <2>4. Held' = Held
    BY <1>4, <2>1, <2>2, <2>3
  <2>5. Settled' = Settled
    BY <1>1 DEF Settled, history
  <2> QED
    BY <1>1, <2>2, <2>4, <2>5 DEF BlakeInv, Winners, SharesAccounted, history
<1> QED
  BY <1>5, <1>7, <1>8, <1>9, <1>10 DEF BlakeInv

\* The idle buffer becomes the current one and gets the job.
LEMMA PrepareBlake ==
  ASSUME BlakeInv, Prepare
  PROVE  BlakeInv'
<1>1. /\ devicePc = "prepare" /\ devicePc' = "dispatch"
      /\ currentIndexStream' = 1 - currentIndexStream
      /\ batch' = [batch EXCEPT ![currentIndexStream'] =
                     [header |-> jobInfo.job, base |-> jobInfo.nonce, hits |-> {}]]
      /\ UNCHANGED <<jobInfo, jobId, inFlight, resultShare, parallelVars, history>>
  BY DEF Prepare
<1>2. Typed /\ ~busy /\ Current.hits = {} /\ batch[1 - currentIndexStream].hits = {}
  BY <1>1 DEF BlakeInv, Phases, InOrder
<1>3. /\ currentIndexStream \in Buffers /\ 1 - currentIndexStream \in Buffers
      /\ 1 - currentIndexStream # currentIndexStream
      /\ Buffers = {currentIndexStream, 1 - currentIndexStream}
      /\ batch \in [Buffers -> [header : 0..MaxJobs, base : Nat, hits : SUBSET Candidates]]
      /\ 1 - (1 - currentIndexStream) = currentIndexStream
  <2>1. currentIndexStream = 0 \/ currentIndexStream = 1
    BY <1>2 DEF Typed, Buffers
  <2> QED
    BY <1>2, <2>1, CurrentType DEF Typed
<1>4. /\ batch' \in [Buffers -> [header : 0..MaxJobs, base : Nat, hits : SUBSET Candidates]]
      /\ Current' = [header |-> jobInfo.job, base |-> jobInfo.nonce, hits |-> {}]
      /\ batch'[currentIndexStream] = Current
      /\ 1 - currentIndexStream' = currentIndexStream
      /\ currentIndexStream' \in Buffers
  BY <1>1, <1>2, <1>3 DEF Current, Typed
<1>5. Fits({})
  BY MaxResultAssumption, FS_EmptySet DEF Fits
<1>6. Typed'
  <2>1. \A b \in Buffers : Fits(batch[b].hits)'
    BY <1>1, <1>2, <1>3, <1>4, <1>5 DEF Typed, Fits, Current
  <2> QED
    BY <1>1, <1>2, <1>4, <2>1 DEF Typed, history, parallelVars
<1>7. Phases'
  BY <1>1, SamePending DEF BlakeInv, Phases, parallelVars
<1>8. InOrder'
  BY <1>1, <1>2, <1>4 DEF InOrder, parallelVars
<1>9. Scanned' /\ Covered'
  <2>1. \A x : Below(x)' <=> Below(x)
    BY <1>1 DEF Below
  <2>2. ~busy' /\ scanned' = scanned /\ jobInfo' = jobInfo
    BY <1>1, <1>2 DEF parallelVars, history
  <2> QED
    BY <1>2, <2>1, <2>2 DEF BlakeInv, Scanned, Covered
<1>10. Winners'
  <2>1. Held = resultShare.hits
    BY <1>2, <1>3, HeldIs DEF Held, Current
  <2>2. Held' = resultShare'.hits
    <3>1. Held' = Current'.hits \cup resultShare'.hits
      BY <1>2, <1>4, HeldIs DEF Held, Current
    <3> QED
      BY <1>4, <3>1
  <2>3. Held' = Held /\ Settled' = Settled /\ Current'.hits = {}
    BY <1>1, <1>4, <2>1, <2>2 DEF Settled, history
  <2> QED
    BY <1>1, <2>3 DEF BlakeInv, Winners, SharesAccounted, history
<1> QED
  BY <1>6, <1>7, <1>8, <1>9, <1>10 DEF BlakeInv

\* The batch starts beyond everything that was hashed.
LEMMA DispatchBlake ==
  ASSUME BlakeInv, Dispatch
  PROVE  BlakeInv'
<1>1. /\ devicePc = "dispatch" /\ devicePc' = "submit" /\ ~busy /\ busy' = TRUE
      /\ pending' = 0..(Count - 1) /\ inFlight' = TRUE
      /\ scans' \in [0..(Count - 1) -> Nat] /\ DOMAIN scans' = 0..(Count - 1)
      /\ UNCHANGED <<jobInfo, jobId, currentIndexStream, resultShare, batch, history>>
  BY PoolSteps DEF Dispatch, BlakeInv
<1>2. /\ Typed /\ Current.header = jobInfo.job /\ Current.base = jobInfo.nonce
      /\ jobInfo.job >= 1
  BY <1>1 DEF BlakeInv, InOrder, Phases
<1>3. jobInfo.job \in Nat /\ jobInfo.nonce \in Nat /\ Count \in Nat
  BY <1>2, CurrentType
<1>4. /\ Current' = Current /\ \A i : Candidate(i)' = Candidate(i)
      /\ \A c : Below(c)' <=> Below(c)
  BY <1>1 DEF Current, Candidate, Below
<1>5. Typed'
  BY <1>1, <1>2 DEF Typed, history, Fits
<1>6. Phases'
  BY <1>1 DEF BlakeInv, Phases
<1>7. InOrder'
  BY <1>1, <1>2, <1>4 DEF BlakeInv, InOrder
<1>8. \A i \in 0..(Count - 1) : Candidate(i) \notin scanned
  <2>1. ASSUME NEW i \in 0..(Count - 1) PROVE ~Below(Candidate(i))
    BY <1>2, <1>3 DEF Below, Candidate
  <2> QED
    BY <1>1, <2>1 DEF BlakeInv, Scanned
<1>9. Scanned'
  BY <1>1, <1>4, <1>8 DEF BlakeInv, Scanned, history
<1>10. Covered'
  BY <1>1 DEF BlakeInv, Covered, history
<1>11. Winners'
  BY <1>1, <1>4 DEF BlakeInv, Winners, SharesAccounted, Held, Settled, history
<1> QED
  BY <1>5, <1>6, <1>7, <1>9, <1>10, <1>11 DEF BlakeInv

\* The shares are sent or dropped, once.
LEMMA SubmitBlake ==
  ASSUME BlakeInv, Submit
  PROVE  BlakeInv'
<1>1. /\ devicePc = "submit" /\ devicePc' = "advance" /\ resultShare' = NoShare
      /\ UNCHANGED <<jobInfo, jobId, currentIndexStream, inFlight, batch, busy, scans, pending,
                     scanned, found>>
  BY SamePending DEF Submit, parallelVars
<1>2. Typed /\ batch[1 - currentIndexStream].hits = {}
  BY DEF BlakeInv, InOrder
<1>3. /\ Current' = Current /\ \A i : Candidate(i)' = Candidate(i)
      /\ \A c : Below(c)' <=> Below(c)
  BY <1>1 DEF Current, Candidate, Below
<1>4. NoShare \in [label : 0..MaxJobs, hits : SUBSET Candidates] /\ NoShare.hits = {}
  <2>1. 0 \in 0..MaxJobs
    BY BoundsAssumption
  <2> QED
    BY <2>1 DEF NoShare
<1>5. Typed'
  BY <1>1, <1>2, <1>4 DEF Typed, Fits
<1>6. Phases'
  BY <1>1 DEF BlakeInv, Phases
<1>7. InOrder'
  BY <1>1, <1>3 DEF BlakeInv, InOrder
<1>8. Scanned' /\ Covered'
  BY <1>1, <1>3 DEF BlakeInv, Scanned, Covered
<1>9. Winners'
  <2>1. Held = Current.hits \cup resultShare.hits
    BY <1>2, HeldIs DEF Held, Current, Typed
  <2>2. Held' = Current.hits
    <3>1. Held' = Current'.hits \cup resultShare'.hits
      BY <1>1, <1>2, HeldIs DEF Held, Current, Typed
    <3> QED
      BY <1>1, <1>3, <1>4, <3>1
  <2>3. Settled' = Settled \cup resultShare.hits
    <3>1. CASE IsStale(resultShare.label)
      <4>1. dropped' = dropped \cup resultShare.hits /\ sent' = sent
        BY <3>1 DEF Submit
      <4> QED
        BY <4>1 DEF Settled
    <3>2. CASE ~IsStale(resultShare.label)
      <4>1. /\ sent' = sent \cup [share : resultShare.hits, label : {resultShare.label}]
            /\ dropped' = dropped
        BY <3>2 DEF Submit
      <4>2. {s.share : s \in [share : resultShare.hits, label : {resultShare.label}]}
              = resultShare.hits
        <5>1. ASSUME NEW h \in resultShare.hits
              PROVE  h \in {s.share : s \in [share : resultShare.hits, label : {resultShare.label}]}
          <6>1. [share |-> h, label |-> resultShare.label]
                  \in [share : resultShare.hits, label : {resultShare.label}]
            OBVIOUS
          <6>2. [share |-> h, label |-> resultShare.label].share = h
            OBVIOUS
          <6> QED
            BY <6>1, <6>2, Zenon
        <5>2. ASSUME NEW s \in [share : resultShare.hits, label : {resultShare.label}]
              PROVE  s.share \in resultShare.hits
          OBVIOUS
        <5> QED
          BY <5>1, <5>2
      <4>3. {s.share : s \in sent'} = {s.share : s \in sent} \cup resultShare.hits
        BY <4>1, <4>2
      <4> QED
        BY <4>1, <4>3 DEF Settled
    <3> QED
      BY <3>1, <3>2
  <2>4. /\ found = Held \cup Settled /\ Held \cap Settled = {}
        /\ Current.hits \cap resultShare.hits = {} /\ found \subseteq scanned
    BY DEF BlakeInv, Winners, SharesAccounted
  <2> QED
    BY <1>1, <1>3, <1>4, <2>1, <2>2, <2>3, <2>4 DEF Winners, SharesAccounted
<1> QED
  BY <1>5, <1>6, <1>7, <1>8, <1>9 DEF BlakeInv

\* The next batch starts where this one ends: what is in flight, and what was hashed of
\* it, lies below.
LEMMA AdvanceBlake ==
  ASSUME BlakeInv, Advance
  PROVE  BlakeInv'
<1>1. /\ devicePc = "advance" /\ devicePc' = "loop"
      /\ jobInfo' = [jobInfo EXCEPT !.nonce = @ + Count * InternalLoop]
      /\ UNCHANGED <<jobId, currentIndexStream, inFlight, resultShare, batch, busy, scans, pending,
                     scanned, found, sent, dropped>>
  BY SamePending DEF Advance, parallelVars, history
<1>2. /\ Typed /\ busy /\ Current.header = jobInfo.job /\ Current.base = jobInfo.nonce
      /\ jobInfo.job >= 1
  BY <1>1 DEF BlakeInv, InOrder, Phases
<1>3. /\ jobInfo.job \in Nat /\ jobInfo.nonce \in Nat /\ Count \in Nat \ {0}
      /\ InternalLoop \in Nat \ {0} /\ jobInfo \in [job : 0..MaxJobs, nonce : Nat]
  BY <1>2, CurrentType DEF Typed
<1> DEFINE step == Count * InternalLoop
<1>4. step \in Nat /\ step >= Count /\ (InternalLoop = 1 => step = Count)
  BY <1>3
<1>5. jobInfo'.job = jobInfo.job /\ jobInfo'.nonce = jobInfo.nonce + step
  BY <1>1, <1>3
<1> HIDE DEF step
<1>6. /\ Current' = Current /\ \A i : Candidate(i)' = Candidate(i)
  BY <1>1 DEF Current, Candidate
<1>7. ASSUME NEW i \in 0..(Count - 1) PROVE Below(Candidate(i))'
  <2>1. Candidate(i) = [header |-> jobInfo.job, nonce |-> jobInfo.nonce + i]
    BY <1>2 DEF Candidate
  <2>2. jobInfo.nonce + i < jobInfo.nonce + step
    BY <1>3, <1>4
  <2> QED
    BY <1>5, <1>6, <2>1, <2>2 DEF Below
<1>8. ASSUME NEW c \in scanned, Below(c) PROVE Below(c)'
  <2>1. c.header \in Nat /\ c.nonce \in Nat
    BY <1>2 DEF Typed, Candidates
  <2> QED
    BY <1>3, <1>4, <1>5, <1>8, <2>1 DEF Below
<1>9. Typed'
  <2>1. jobInfo' \in [job : 0..MaxJobs, nonce : Nat]
    BY <1>1, <1>3, <1>4 DEF step
  <2> QED
    BY <1>1, <1>2, <2>1 DEF Typed, Fits
<1>10. Phases'
  BY <1>1, <1>2 DEF BlakeInv, Phases
<1>11. InOrder'
  BY <1>1, <1>6, <1>7 DEF BlakeInv, InOrder
<1>12. Scanned'
  <2>1. ASSUME NEW c \in scanned PROVE Below(c)'
    <3>1. CASE Below(c)
      BY <1>8, <3>1
    <3>2. CASE \E i \in 0..(Count - 1) : c = Candidate(i)
      <4>1. PICK i \in 0..(Count - 1) : c = Candidate(i)
        BY <3>2
      <4>2. Below(Candidate(i))'
        BY <1>7
      <4> QED
        BY <1>6, <4>1, <4>2 DEF Below
    <3> QED
      BY <3>1, <3>2 DEF BlakeInv, Scanned
  <2> QED
    BY <1>1, <1>6, <2>1 DEF BlakeInv, Scanned
<1>13. Covered'
  <2> SUFFICES ASSUME InternalLoop = 1, jobInfo.job > 0, NEW n \in 0..(jobInfo.nonce + step - 1)
               PROVE  \/ [header |-> jobInfo.job, nonce |-> n] \in scanned
                      \/ \E i \in pending : Candidate(i) = [header |-> jobInfo.job, nonce |-> n]
    BY <1>1, <1>2, <1>3, <1>4, <1>5, <1>6 DEF Covered
  <2>1. CASE n < jobInfo.nonce
    BY <1>2, <1>3, <2>1 DEF BlakeInv, Covered
  <2>2. CASE n >= jobInfo.nonce
    <3>1. PICK i \in 0..(Count - 1) : n = jobInfo.nonce + i
      <4>1. n - jobInfo.nonce \in 0..(Count - 1) /\ n = jobInfo.nonce + (n - jobInfo.nonce)
        BY <1>3, <1>4, <2>2
      <4> QED
        BY <4>1
    <3>2. Candidate(i) = [header |-> jobInfo.job, nonce |-> n]
      BY <1>2, <3>1 DEF Candidate
    <3>3. i \in pending \/ Candidate(i) \in scanned
      BY <1>2 DEF BlakeInv, Scanned
    <3> QED
      BY <3>2, <3>3
  <2> QED
    BY <1>3, <1>4, <2>1, <2>2
<1>14. Winners'
  BY <1>1, <1>6 DEF BlakeInv, Winners, SharesAccounted, Held, Settled
<1> QED
  BY <1>9, <1>10, <1>11, <1>12, <1>13, <1>14 DEF BlakeInv

\* Nothing of a slice that is pending was hashed before.
LEMMA SliceIsFresh ==
  ASSUME BlakeInv, NEW slice \in SUBSET pending, Pool!Scan(slice)
  PROVE  /\ busy /\ slice \subseteq pending /\ slice \subseteq 0..(Count - 1)
         /\ busy' = busy /\ pending' = pending \ slice
         /\ CandidatesOf(currentIndexStream, slice) \cap scanned = {}
<1>1. /\ busy /\ slice \subseteq pending /\ busy' = busy /\ pending' = pending \ slice
  BY PoolSteps DEF BlakeInv
<1>2. slice \subseteq 0..(Count - 1)
  BY <1>1, PoolSteps DEF BlakeInv
<1>3. CandidatesOf(currentIndexStream, slice) = {Candidate(i) : i \in slice}
  BY SliceCandidates
<1>4. \A i \in slice : Candidate(i) \notin scanned
  BY <1>1, <1>2 DEF BlakeInv, Scanned
<1> QED
  BY <1>1, <1>2, <1>3, <1>4

\* The workers hash a slice: its candidates are no longer pending, and the winners that
\* are kept are held by the buffer in use.
LEMMA HashChunkBlake ==
  ASSUME BlakeInv, NEW slice \in SUBSET pending,
         NEW kept \in SUBSET CandidatesOf(currentIndexStream, slice), HashChunk(slice, kept)
  PROVE  BlakeInv'
<1> DEFINE tried == CandidatesOf(currentIndexStream, slice)
<1>1. /\ Pool!Scan(slice) /\ kept \subseteq tried /\ Fits(Current.hits \cup kept)
      /\ batch' = [batch EXCEPT ![currentIndexStream].hits = @ \cup kept]
      /\ scanned' = scanned \cup tried /\ found' = found \cup kept
      /\ UNCHANGED <<devicePc, jobInfo, jobId, currentIndexStream, inFlight, resultShare,
                     sent, dropped>>
  BY DEF HashChunk, deviceVars, Current
<1>2. /\ Typed /\ busy /\ slice \subseteq pending /\ slice \subseteq 0..(Count - 1)
      /\ busy' = busy /\ pending' = pending \ slice /\ tried \cap scanned = {}
      /\ batch[1 - currentIndexStream].hits = {} /\ Current.header >= 1
  BY <1>1, SliceIsFresh DEF BlakeInv, InOrder
<1>3. tried = {Candidate(i) : i \in slice}
  BY SliceCandidates
<1>4. /\ currentIndexStream \in Buffers /\ 1 - currentIndexStream \in Buffers
      /\ 1 - currentIndexStream # currentIndexStream
      /\ Buffers = {currentIndexStream, 1 - currentIndexStream}
      /\ batch \in [Buffers -> [header : 0..MaxJobs, base : Nat, hits : SUBSET Candidates]]
      /\ Current \in [header : 0..MaxJobs, base : Nat, hits : SUBSET Candidates]
      /\ Count \in Nat \ {0} /\ MaxJobs \in Nat
  BY <1>2, CurrentType DEF Typed
<1>5. tried \subseteq Candidates
  <2>1. ASSUME NEW i \in slice PROVE Candidate(i) \in Candidates
    <3>1. i \in Nat
      BY <1>2, <1>4
    <3>2. Current.header \in 1..MaxJobs /\ Current.base + i \in Nat
      BY <1>2, <1>4, <3>1
    <3> QED
      BY <3>2 DEF Candidate, Candidates
  <2> QED
    BY <1>3, <2>1
<1> HIDE DEF tried
<1>6. /\ batch' \in [Buffers -> [header : 0..MaxJobs, base : Nat, hits : SUBSET Candidates]]
      /\ batch'[currentIndexStream].header = Current.header
      /\ batch'[currentIndexStream].base = Current.base
      /\ batch'[currentIndexStream].hits = Current.hits \cup kept
      /\ batch'[1 - currentIndexStream] = batch[1 - currentIndexStream]
  BY <1>1, <1>4, <1>5 DEF Current
<1>7. Current'.header = Current.header /\ Current'.base = Current.base
      /\ Current'.hits = Current.hits \cup kept
  BY <1>1, <1>6 DEF Current
<1>8. /\ \A i : Candidate(i)' = Candidate(i)
      /\ \A c : Below(c)' <=> Below(c)
  BY <1>1, <1>7 DEF Candidate, Below
<1>9. Typed'
  <2>1. \A b \in Buffers : Fits(batch[b].hits)'
    BY <1>1, <1>2, <1>4, <1>6 DEF Typed, Fits
  <2> QED
    BY <1>1, <1>2, <1>5, <1>6, <2>1, PoolSteps DEF Typed
<1>10. Phases'
  BY <1>1, <1>2 DEF BlakeInv, Phases
<1>11. InOrder'
  BY <1>1, <1>2, <1>6, <1>7, <1>8 DEF BlakeInv, InOrder
<1>12. Scanned'
  <2>1. ASSUME NEW c \in scanned' PROVE Below(c) \/ \E i \in 0..(Count - 1) : c = Candidate(i)
    <3>1. CASE c \in scanned
      BY <3>1 DEF BlakeInv, Scanned
    <3>2. CASE c \in tried
      BY <1>2, <1>3, <3>2
    <3> QED
      BY <1>1, <3>1, <3>2
  <2>2. ASSUME NEW i \in 0..(Count - 1) PROVE i \in pending' <=> Candidate(i) \notin scanned'
    <3>1. i \in pending <=> Candidate(i) \notin scanned
      BY <1>2 DEF BlakeInv, Scanned
    <3>2. Candidate(i) \in tried <=> i \in slice
      <4>1. ASSUME NEW j \in slice, Candidate(i) = Candidate(j) PROVE i = j
        BY <1>2, <4>1, CandidatesDiffer
      <4> QED
        BY <1>3, <4>1
    <3> QED
      BY <1>1, <1>2, <3>1, <3>2
  <2> QED
    BY <1>2, <1>8, <2>1, <2>2 DEF Scanned
<1>13. Covered'
  <2> SUFFICES ASSUME InternalLoop = 1, jobInfo.job > 0, NEW n \in 0..(jobInfo.nonce - 1)
               PROVE  \/ [header |-> jobInfo.job, nonce |-> n] \in scanned'
                      \/ \E i \in pending' : Candidate(i) = [header |-> jobInfo.job, nonce |-> n]
    BY <1>1, <1>2, <1>8 DEF Covered
  <2>1. CASE [header |-> jobInfo.job, nonce |-> n] \in scanned
    BY <1>1, <2>1
  <2>2. CASE \E i \in pending : Candidate(i) = [header |-> jobInfo.job, nonce |-> n]
    <3>1. PICK i \in pending : Candidate(i) = [header |-> jobInfo.job, nonce |-> n]
      BY <2>2
    <3>2. i \in slice => Candidate(i) \in scanned'
      BY <1>1, <1>3
    <3> QED
      BY <1>2, <3>1, <3>2
  <2> QED
    BY <2>1, <2>2 DEF BlakeInv, Covered
<1>14. Winners'
  <2>1. /\ found = Held \cup Settled /\ Held \cap Settled = {} /\ found \subseteq scanned
        /\ Current.hits \cap resultShare.hits = {}
    BY DEF BlakeInv, Winners, SharesAccounted
  <2>2. Held = Current.hits \cup resultShare.hits
    BY <1>2, <1>4, HeldIs DEF Held, Current
  <2>3. Held' = Current'.hits \cup resultShare'.hits
    <3>1. currentIndexStream' \in Buffers /\ batch'[1 - currentIndexStream'].hits = {}
      BY <1>1, <1>2, <1>4, <1>6
    <3> QED
      BY <3>1, HeldIs DEF Held, Current
  <2>4. Held' = Held \cup kept /\ Settled' = Settled
    BY <1>1, <1>7, <2>2, <2>3 DEF Settled
  <2>5. kept \cap scanned = {}
    BY <1>1, <1>2
  <2> QED
    BY <1>1, <1>7, <2>1, <2>2, <2>4, <2>5 DEF Winners, SharesAccounted
<1> QED
  BY <1>9, <1>10, <1>11, <1>12, <1>13, <1>14 DEF BlakeInv

\* The resolver is deleted: it waits for the batch in flight, if there is one.
LEMMA DestroyBlake ==
  ASSUME BlakeInv, Destroy
  PROVE  BlakeInv'
<1>1. /\ devicePc = "cleanUp" /\ devicePc' = "destroyed" /\ inFlight' = FALSE
      /\ UNCHANGED <<jobInfo, jobId, currentIndexStream, resultShare, batch, history>>
  BY DEF Destroy
<1>2. CASE inFlight
  <2>1. Pool!Finish
    BY <1>2 DEF Destroy
  <2>2. Scanned' /\ Covered' /\ ~busy' /\ pending' = {} /\ busy' = FALSE
    BY <1>1, <2>1, FinishBlake, PoolSteps DEF Current, BlakeInv
  <2>3. Typed'
    BY <1>1, <2>1, <2>2, PoolSteps DEF BlakeInv, Typed, Fits, history
  <2>4. Phases'
    BY <1>1, <2>2 DEF BlakeInv, Phases
  <2>5. InOrder'
    BY <1>1, <2>2 DEF BlakeInv, InOrder, Current
  <2>6. Winners'
    BY <1>1 DEF BlakeInv, Winners, SharesAccounted, Held, Settled, history, Current
  <2> QED
    BY <2>2, <2>3, <2>4, <2>5, <2>6 DEF BlakeInv
<1>3. CASE ~inFlight
  <2>1. UNCHANGED parallelVars
    BY <1>3 DEF Destroy
  <2>2. Phases'
    BY <1>1, <1>3, <2>1, SamePending DEF BlakeInv, Phases, parallelVars
  <2> QED
    BY <1>1, <2>1, <2>2, QuietBlake
<1> QED
  BY <1>2, <1>3

\* The first batch, and the end of the loop: the thread goes on without touching
\* anything.
LEMMA FirstBatchBlake ==
  ASSUME BlakeInv, FirstBatch
  PROVE  BlakeInv'
<1>1. /\ devicePc = "loop" /\ ~inFlight /\ devicePc' = "prepare"
      /\ UNCHANGED <<deviceVars, batch, parallelVars, history>>
  BY DEF FirstBatch
<1>2. Phases'
  BY <1>1, SamePending DEF BlakeInv, Phases, deviceVars, parallelVars
<1> QED
  BY <1>1, <1>2, QuietBlake DEF deviceVars, BlakeInv, Typed

LEMMA LeaveLoopBlake ==
  ASSUME BlakeInv, LeaveLoop
  PROVE  BlakeInv'
<1>1. /\ devicePc = "loop" /\ devicePc' = "cleanUp"
      /\ UNCHANGED <<deviceVars, batch, parallelVars, history>>
  BY DEF LeaveLoop
<1>2. Phases'
  BY <1>1, SamePending DEF BlakeInv, Phases, deviceVars, parallelVars
<1> QED
  BY <1>1, <1>2, QuietBlake DEF deviceVars, BlakeInv, Typed

LEMMA InitBlake == BlakeInit => BlakeInv
<1> SUFFICES ASSUME BlakeInit
             PROVE  BlakeInv
  OBVIOUS
<1>1. /\ devicePc = "waitJob" /\ jobInfo = [job |-> 0, nonce |-> 0] /\ jobId = 0
      /\ currentIndexStream = 0 /\ inFlight = FALSE /\ resultShare = NoShare
      /\ batch = [b \in Buffers |-> Empty] /\ busy = FALSE /\ scans = [i \in {} |-> 0]
      /\ scanned = {} /\ found = {} /\ sent = {} /\ dropped = {}
  BY DEF BlakeInit, Pool!Init
<1>2. 0 \in 0..MaxJobs
  BY BoundsAssumption
<1>3. Fits({})
  BY MaxResultAssumption, FS_EmptySet DEF Fits
<1>4. 0 \in Buffers /\ 1 \in Buffers /\ batch[0] = Empty /\ batch[1] = Empty
  BY <1>1 DEF Buffers
<1>5. Typed
  <2>1. /\ Empty \in [header : 0..MaxJobs, base : Nat, hits : SUBSET Candidates]
        /\ NoShare \in [label : 0..MaxJobs, hits : SUBSET Candidates] /\ Empty.hits = {}
    BY <1>2 DEF Empty, NoShare
  <2>2. \A b \in Buffers : Fits(batch[b].hits)
    BY <1>1, <1>3, <2>1
  <2> QED
    BY <1>1, <1>2, <1>4, <2>1, <2>2 DEF Typed
<1>6. Phases
  BY <1>1 DEF Phases, pending, Pool!Pending
<1>7. InOrder
  BY <1>1, <1>4 DEF InOrder, Current, Empty
<1>8. Scanned /\ Covered
  BY <1>1 DEF Scanned, Covered
<1>9. Winners
  BY <1>1, <1>4 DEF Winners, SharesAccounted, Held, Settled, Current, Empty, NoShare
<1> QED
  BY <1>5, <1>6, <1>7, <1>8, <1>9 DEF BlakeInv

LEMMA StepBlake == BlakeInv /\ [BlakeNext]_blakeVars => BlakeInv'
<1> SUFFICES ASSUME BlakeInv, [BlakeNext]_blakeVars
             PROVE  BlakeInv'
  OBVIOUS
<1>1. ASSUME UNCHANGED blakeVars PROVE BlakeInv'
  <2>1. /\ UNCHANGED <<devicePc, jobInfo, jobId, currentIndexStream, inFlight, resultShare, batch,
                       busy, scans, pending, scanned, found, sent, dropped>>
    BY <1>1, SamePending DEF blakeVars, deviceVars, parallelVars, history
  <2>2. Typed' /\ Phases'
    BY <2>1 DEF BlakeInv, Typed, Phases, Fits
  <2>3. InOrder' /\ Scanned' /\ Covered'
    BY <2>1 DEF BlakeInv, InOrder, Scanned, Covered, Current, Candidate, Below
  <2>4. Winners'
    BY <2>1 DEF BlakeInv, Winners, SharesAccounted, Held, Settled, Current
  <2> QED
    BY <2>2, <2>3, <2>4 DEF BlakeInv
<1>2. CASE UpdateJob
  BY <1>2, UpdateJobBlake
<1>3. CASE FirstBatch
  BY <1>3, FirstBatchBlake
<1>4. CASE Harvest
  BY <1>4, HarvestBlake
<1>5. CASE Prepare
  BY <1>5, PrepareBlake
<1>6. CASE Dispatch
  BY <1>6, DispatchBlake
<1>7. CASE Submit
  BY <1>7, SubmitBlake
<1>8. CASE Advance
  BY <1>8, AdvanceBlake
<1>9. CASE LeaveLoop
  BY <1>9, LeaveLoopBlake
<1>10. CASE Destroy
  BY <1>10, DestroyBlake
<1>11. CASE PoolWork
  <2>1. PICK slice \in SUBSET pending :
          \E kept \in SUBSET CandidatesOf(currentIndexStream, slice) : HashChunk(slice, kept)
    BY <1>11 DEF PoolWork
  <2>2. PICK kept \in SUBSET CandidatesOf(currentIndexStream, slice) : HashChunk(slice, kept)
    BY <2>1
  <2> QED
    BY <2>2, HashChunkBlake
<1>12. CASE Over
  BY <1>1, <1>12 DEF Over
<1> QED
  BY <1>1, <1>2, <1>3, <1>4, <1>5, <1>6, <1>7, <1>8, <1>9, <1>10, <1>11, <1>12
  DEF BlakeNext, Device

LEMMA BlakeInductive == BlakeSpec => []BlakeInv
<1> QED
  BY InitBlake, StepBlake, PTL DEF BlakeSpec

-----------------------------------------------------------------------------
\* The buffers, the labels and the pool have their types, and no buffer holds more
\* winners than MAX_RESULT: TypeOK, for any size of batch and any number of jobs.
THEOREM BlakeTypeCorrect == BlakeSpec => []BlakeTypeOK
<1>1. BlakeInv => BlakeTypeOK
  <2> SUFFICES ASSUME BlakeInv
               PROVE  BlakeTypeOK
    OBVIOUS
  <2>1. resultShare.label \in 0..MaxJobs /\ resultShare.hits \subseteq Candidates
    BY DEF BlakeInv, Typed
  <2>2. ASSUME NEW b \in Buffers
        PROVE  /\ batch[b].header \in 0..MaxJobs /\ batch[b].base \in Nat
               /\ batch[b].hits \subseteq Candidates
               /\ Cardinality(batch[b].hits) <= MaxResult
    BY DEF BlakeInv, Typed, Fits
  <2> QED
    BY <2>1, <2>2 DEF BlakeTypeOK, BlakeInv, Typed
<1> QED
  BY <1>1, BlakeInductive, PTL

\* Every winner the resolver kept is in a buffer or in resultShare, or was sent or
\* dropped, and never both: executeAsync, submit and the destructor neither lose nor
\* submit a winner twice, however the workers and the new jobs interleave.
THEOREM WinnersAccounted == BlakeSpec => []SharesAccounted
<1>1. BlakeInv => SharesAccounted
  BY DEF BlakeInv, Winners
<1> QED
  BY <1>1, BlakeInductive, PTL

\* With one internal loop the batches of a job leave no nonce out: when a batch is
\* prepared, every nonce of the job below it was hashed.
THEOREM NoGapInTheNonces ==
  ASSUME InternalLoop = 1
  PROVE  BlakeSpec => []NoNonceSkipped
<1>1. BlakeInv => NoNonceSkipped
  BY DEF BlakeInv, Phases, Covered, NoNonceSkipped
<1> QED
  BY <1>1, BlakeInductive, PTL

\* While a batch runs, the device's thread neither swaps the buffers nor writes what
\* the workers read of the current one, and no step takes a winner out of it.
THEOREM BatchStaysInPlace == BlakeSpec => BatchIsStable
<1> DEFINE Stable ==
      /\ currentIndexStream' = currentIndexStream
      /\ LET b == currentIndexStream
         IN /\ batch'[b].header = batch[b].header
            /\ batch'[b].base = batch[b].base
            /\ batch[b].hits \subseteq batch'[b].hits
<1>1. ASSUME BlakeInv, [BlakeNext]_blakeVars, busy, busy' PROVE Stable
  <2>1. CASE UNCHANGED <<currentIndexStream, batch>>
    BY <2>1
  <2>2. CASE Harvest \/ Prepare \/ Dispatch
    BY <1>1, <2>2 DEF Harvest, Prepare, Dispatch, Pool!Finish, Pool!Dispatch,
                      BlakeInv, Phases
  <2>3. CASE PoolWork
    <3>1. PICK slice \in SUBSET pending :
            \E kept \in SUBSET CandidatesOf(currentIndexStream, slice) : HashChunk(slice, kept)
      BY <2>3 DEF PoolWork
    <3>2. PICK kept \in SUBSET CandidatesOf(currentIndexStream, slice) : HashChunk(slice, kept)
      BY <3>1
    <3>3. /\ batch' = [batch EXCEPT ![currentIndexStream].hits = @ \cup kept]
          /\ currentIndexStream' = currentIndexStream
      BY <3>2 DEF HashChunk, deviceVars
    <3>4. /\ currentIndexStream \in Buffers
          /\ batch \in [Buffers -> [header : 0..MaxJobs, base : Nat, hits : SUBSET Candidates]]
      BY <1>1 DEF BlakeInv, Typed
    <3> QED
      BY <3>3, <3>4
  <2>4. CASE \/ UpdateJob \/ FirstBatch \/ Submit \/ Advance
             \/ LeaveLoop \/ Destroy \/ Over
    BY <2>1, <2>4 DEF UpdateJob, FirstBatch, Submit, Advance, LeaveLoop,
                      Destroy, Over, blakeVars, deviceVars
  <2>5. CASE UNCHANGED blakeVars
    BY <2>1, <2>5 DEF blakeVars, deviceVars
  <2> QED
    BY <1>1, <2>2, <2>3, <2>4, <2>5 DEF BlakeNext, Device
<1>2. BlakeInv /\ [BlakeNext]_blakeVars => [busy /\ busy' => Stable]_blakeVars
  BY <1>1
<1> QED
  BY <1>2, BlakeInductive, PTL DEF BlakeSpec, BatchIsStable

\* No candidate is hashed twice: what the workers take next was never hashed, neither
\* in this batch, nor in one before it, nor for an earlier job.
THEOREM NoCandidateTwice == BlakeSpec => ScannedOnce
<1>1. ASSUME BlakeInv, NEW slice \in SUBSET pending, Pool!Scan(slice)
      PROVE  CandidatesOf(currentIndexStream, slice) \cap scanned = {}
  BY <1>1, SliceIsFresh
<1>2. BlakeInv => [\A slice \in SUBSET pending :
                     Pool!Scan(slice) =>
                       CandidatesOf(currentIndexStream, slice) \cap scanned = {}]_blakeVars
  BY <1>1
<1> QED
  BY <1>2, BlakeInductive, PTL DEF ScannedOnce
=============================================================================
