----------------------------- MODULE LightCache -----------------------------
(***************************************************************************)
(* The host light cache of a DAG algorithm and the devices that share it.  *)
(*                                                                         *)
(* algo::ethash::ContextGenerator keeps one context per algorithm: a count *)
(* of users, the epoch, the sizes, and (when the light cache is built on   *)
(* the CPU) the array that holds it. The worker thread of a device calls   *)
(* build() from Resolver::updateMemory, which copies the context, pointer  *)
(* included, to the resolver; it then uploads the array to its GPU outside *)
(* the mutex, and free() gives its use up. Where free() is called depends  *)
(* on the resolver, and the devices are of several makes and run at their  *)
(* own pace: one may still upload what another deletes.                    *)
(*                                                                         *)
(* An array is a pair of its number of allocation and the epoch whose      *)
(* light cache it holds. Sizes are kept as "known" or not.                 *)
(***************************************************************************)
EXTENDS Naturals, FiniteSets

CONSTANTS
  Devices,      \* the devices that mine the algorithm
  Families,     \* sets of resolvers that use one entry of ContextGenerator::contexts
  Epochs,       \* epochs a job may have
  MaxEpoch,     \* maxEpoch of the algorithm: build() refuses the epochs above it
  NoEpoch,      \* epoch of a context without data (-1)
  CountModulus, \* number of values of DagContextShare::count (2^32)
  MaxUpdates    \* bound: calls of updateMemory, and of setAlgorithm, in a behaviour

Resolvers == {"AmdEthash", "AmdEtchash", "AmdProgPOW",
              "NvidiaEthash", "NvidiaEtchash", "NvidiaProgPOW"}

ASSUME DevicesAssumption == IsFiniteSet(Devices) /\ Devices # {}
ASSUME FamiliesAssumption == Families \subseteq SUBSET Resolvers
ASSUME EpochsAssumption == Epochs \subseteq Nat /\ MaxEpoch \in Nat /\ NoEpoch \notin Epochs
ASSUME CountAssumption == MaxUpdates \in Nat /\ CountModulus \in Nat /\ MaxUpdates < CountModulus

VARIABLES
  \* fixed when the program starts
  onCPU,    \* Config: ethashBuildLightCacheCPU
  kind,     \* kind[d]: the class of device d's resolver
  \* under ContextGenerator::mtxContexts
  shared,   \* contexts[algorithm]: count, epoch, sizes known, light cache
  heap,     \* the light caches that are allocated
  allocs,   \* number of light caches allocated so far
  \* thread of device d
  pc,       \* where it is in updateMemory
  job,      \* epoch of the job it updates to
  ctx,      \* the resolver's copy of the context
  updates,  \* calls made so far, for the bound
  \* history
  failed,   \* a device gave an update up
  overlap   \* two devices wanted different epochs at one time

sharedVars == <<shared, heap, allocs>>
vars == <<onCPU, kind, sharedVars, pc, job, ctx, updates, failed, overlap>>

NoCache == <<0, NoEpoch>>
Caches == (1..MaxUpdates) \X Epochs
EmptyContext == [epoch |-> NoEpoch, sized |-> FALSE, cache |-> NoCache]

-----------------------------------------------------------------------------
(***************************************************************************)
(* The resolvers: where each calls free().                                 *)
(*   onError:     when the context is refused (no sizes, too large)        *)
(*   afterUpload: after the upload of a light cache built on the CPU       *)
(*   atEnd:       when the DAG is built                                    *)
(***************************************************************************)
Free(onError, afterUpload, atEnd) ==
  [onError |-> onError, afterUpload |-> afterUpload, atEnd |-> atEnd]

AmdEthash == Free(FALSE, FALSE, TRUE)
AmdProgPOW == Free(FALSE, FALSE, TRUE)
NvidiaEthash == Free(TRUE, TRUE, TRUE)
NvidiaProgPOW == Free(FALSE, TRUE, FALSE)

\* The two etchash resolvers override updateContext only.
AmdEtchash == [AmdEthash EXCEPT !.onError = FALSE]
NvidiaEtchash == [NvidiaEthash EXCEPT !.onError = FALSE]

FreeOf(k) == CASE k = "AmdEthash" -> AmdEthash
               [] k = "AmdEtchash" -> AmdEtchash
               [] k = "AmdProgPOW" -> AmdProgPOW
               [] k = "NvidiaEthash" -> NvidiaEthash
               [] k = "NvidiaEtchash" -> NvidiaEtchash
               [] k = "NvidiaProgPOW" -> NvidiaProgPOW

FreesAfterUpload(d) == onCPU /\ FreeOf(kind[d]).afterUpload

\* Resolvers that may call free() twice for one build().
FreesTwice(d) == FreesAfterUpload(d) /\ FreeOf(kind[d]).atEnd
Balanced == \A d \in Devices : ~FreesTwice(d)

-----------------------------------------------------------------------------
(***************************************************************************)
(* ContextGenerator, each call under its mutex.                            *)
(***************************************************************************)

\* free(): --count, and at zero the array is deleted. The sizes stay.
Release(c) ==
  LET count == (c.count + CountModulus - 1) % CountModulus
  IN  IF count = 0
      THEN /\ heap' = heap \ {c.cache}
           /\ shared' = [c EXCEPT !.count = 0, !.epoch = NoEpoch, !.cache = NoCache]
      ELSE /\ heap' = heap
           /\ shared' = [c EXCEPT !.count = count]

\* The context as copyContext hands it to a resolver.
CopyOf(c) == [epoch |-> c.epoch, sized |-> c.sized, cache |-> c.cache]

\* Mutant: only the device that builds the light cache is counted.
BuildSameUncounted(d, e) ==
  /\ shared.epoch = e
  /\ ctx' = [ctx EXCEPT ![d] = CopyOf(shared)]
  /\ UNCHANGED <<shared, heap, allocs>>

\* The epoch of the shared context is the one asked for: nothing is built.
BuildSame(d, e) ==
  LET c == [shared EXCEPT !.count = (@ + 1) % CountModulus]
  IN  /\ shared.epoch = e
      /\ shared' = c
      /\ ctx' = [ctx EXCEPT ![d] = CopyOf(c)]
      /\ UNCHANGED <<heap, allocs>>

\* An epoch above the algorithm's maximum is noted, counted, and nothing copied.
BuildRefused(d, e) ==
  /\ shared.epoch # e /\ e > MaxEpoch
  /\ shared' = [shared EXCEPT !.count = (@ + 1) % CountModulus, !.epoch = e]
  /\ UNCHANGED <<ctx, heap, allocs>>

\* Mutant: a new light cache starts with one user, whoever holds the last one.
BuildNewResets(d, e) ==
  LET cache == IF onCPU THEN <<allocs + 1, e>> ELSE shared.cache
      c == [count |-> 1, epoch |-> e, sized |-> TRUE, cache |-> cache]
  IN  /\ shared.epoch # e /\ e <= MaxEpoch
      /\ allocs' = IF onCPU THEN allocs + 1 ELSE allocs
      /\ heap' = IF onCPU THEN heap \cup {cache} ELSE heap
      /\ shared' = c
      /\ ctx' = [ctx EXCEPT ![d] = CopyOf(c)]

\* Any other epoch: new sizes, and a new array in the place of the last one, which
\* is not deleted: the devices that still upload it keep their pointer.
BuildNew(d, e) ==
  LET cache == IF onCPU THEN <<allocs + 1, e>> ELSE shared.cache
      c == [count |-> (shared.count + 1) % CountModulus, epoch |-> e,
            sized |-> TRUE, cache |-> cache]
  IN  /\ shared.epoch # e /\ e <= MaxEpoch
      /\ allocs' = IF onCPU THEN allocs + 1 ELSE allocs
      /\ heap' = IF onCPU THEN heap \cup {cache} ELSE heap
      /\ shared' = c
      /\ ctx' = [ctx EXCEPT ![d] = CopyOf(c)]

-----------------------------------------------------------------------------
(***************************************************************************)
(* updateMemory on the thread of device d.                                 *)
(***************************************************************************)

Goto(d, from, to) == pc[d] = from /\ pc' = [pc EXCEPT ![d] = to]

Busy == {d \in Devices : pc[d] \in {"check", "upload", "dag"}}

\* updateContext: the device asks for the epoch of its job.
Build(d, e) ==
  /\ updates < MaxUpdates
  /\ updates' = updates + 1
  /\ Goto(d, "mining", "check")
  /\ job' = [job EXCEPT ![d] = e]
  /\ BuildSame(d, e) \/ BuildRefused(d, e) \/ BuildNew(d, e)
  /\ overlap' = (overlap \/ \E b \in Busy : job[b] # e)
  /\ UNCHANGED <<onCPU, kind, failed>>

\* The context has no size, or the device has no memory for it: the device is
\* killed by Device::updateJob, its use of the context given up or not.
RefuseContext(d) ==
  /\ Goto(d, "check", "dead")
  /\ IF FreeOf(kind[d]).onError THEN Release(shared) ELSE UNCHANGED <<shared, heap>>
  /\ failed' = TRUE
  /\ UNCHANGED <<onCPU, kind, allocs, job, ctx, updates, overlap>>

\* Device memory is allocated, and the light cache is read for the upload, or the
\* seed alone when the GPU builds it.
BeginUpload(d) ==
  /\ ctx[d].sized
  /\ Goto(d, "check", "upload")
  /\ UNCHANGED <<onCPU, kind, sharedVars, job, ctx, updates, failed, overlap>>

EndUpload(d) ==
  /\ Goto(d, "upload", "dag")
  /\ IF FreesAfterUpload(d) THEN Release(shared) ELSE UNCHANGED <<shared, heap>>
  /\ UNCHANGED <<onCPU, kind, allocs, job, ctx, updates, failed, overlap>>

\* Mutant: the free() at the end of updateMemory is forgotten.
EndUpdateKeeps(d) ==
  /\ Goto(d, "dag", "mining")
  /\ UNCHANGED <<onCPU, kind, sharedVars, job, ctx, updates, failed, overlap>>

\* The DAG, and on AMD ethash the search kernel, is built on the GPU.
EndUpdate(d) ==
  /\ Goto(d, "dag", "mining")
  /\ IF FreeOf(kind[d]).atEnd THEN Release(shared) ELSE UNCHANGED <<shared, heap>>
  /\ UNCHANGED <<onCPU, kind, allocs, job, ctx, updates, failed, overlap>>

\* An allocation, the upload or the DAG kernel fails: no path calls free().
UpdateFails(d) ==
  /\ pc[d] \in {"check", "upload", "dag"}
  /\ pc[d] = "check" => ctx[d].sized
  /\ pc' = [pc EXCEPT ![d] = "dead"]
  /\ failed' = TRUE
  /\ UNCHANGED <<onCPU, kind, sharedVars, job, ctx, updates, overlap>>

\* Smart mining returns to the algorithm: Device::setAlgorithm gives the device
\* a new resolver and run() a new thread. The shared contexts are kept.
NewResolver(d) ==
  /\ updates < MaxUpdates
  /\ updates' = updates + 1
  /\ pc[d] \in {"mining", "dead"}
  /\ pc' = [pc EXCEPT ![d] = "mining"]
  /\ ctx' = [ctx EXCEPT ![d] = EmptyContext]
  /\ UNCHANGED <<onCPU, kind, sharedVars, job, failed, overlap>>

-----------------------------------------------------------------------------
Init ==
  /\ onCPU \in BOOLEAN
  /\ kind \in UNION {[Devices -> F] : F \in Families}
  /\ shared = [count |-> 0, epoch |-> NoEpoch, sized |-> FALSE, cache |-> NoCache]
  /\ heap = {}
  /\ allocs = 0
  /\ pc = [d \in Devices |-> "mining"]
  /\ job = [d \in Devices |-> NoEpoch]
  /\ ctx = [d \in Devices |-> EmptyContext]
  /\ updates = 0
  /\ failed = FALSE
  /\ overlap = FALSE

Update(d) ==
  \/ \E e \in Epochs : Build(d, e)
  \/ RefuseContext(d) \/ BeginUpload(d) \/ EndUpload(d) \/ EndUpdate(d)
  \/ UpdateFails(d) \/ NewResolver(d)

Next == \E d \in Devices : Update(d)

Spec == Init /\ [][Next]_vars

-----------------------------------------------------------------------------
(***************************************************************************)
(* Properties.                                                             *)
(***************************************************************************)

TypeOK ==
  /\ onCPU \in BOOLEAN
  /\ kind \in [Devices -> Resolvers]
  /\ shared \in [count : 0..(CountModulus - 1), epoch : Epochs \cup {NoEpoch},
                 sized : BOOLEAN, cache : Caches \cup {NoCache}]
  /\ heap \subseteq Caches
  /\ allocs \in 0..MaxUpdates
  /\ pc \in [Devices -> {"mining", "check", "upload", "dag", "dead"}]
  /\ job \in [Devices -> Epochs \cup {NoEpoch}]
  /\ ctx \in [Devices -> [epoch : Epochs \cup {NoEpoch}, sized : BOOLEAN,
                          cache : Caches \cup {NoCache}]]
  /\ updates \in 0..MaxUpdates
  /\ failed \in BOOLEAN /\ overlap \in BOOLEAN

\* Device d reads the light cache its context points to.
Uploading(d) == onCPU /\ pc[d] = "upload"

\* Device d counts as a user: it called build() and has not called free().
Holds(d) ==
  \/ pc[d] \in {"check", "upload"}
  \/ pc[d] = "dag" /\ ~FreesAfterUpload(d)

Holders == {d \in Devices : Holds(d)}

\* The light cache a device uploads is allocated and is the one of its job's epoch,
\* whichever devices build, free, fail or move to other epochs meanwhile, as long
\* as no resolver frees twice and the epoch is one the algorithm has.
UploadsOwnLightCache ==
  \A d \in Devices :
    (Balanced /\ Uploading(d) /\ job[d] <= MaxEpoch)
      => ctx[d].cache \in heap /\ ctx[d].cache[2] = job[d]

\* The count is never below the number of devices that hold the context, so it
\* cannot reach zero under one of them, nor wrap around.
CountCoversHolders == Balanced => shared.count >= Cardinality(Holders)

\* When every device is done, the light cache is given back, unless a device failed
\* half-way, two epochs were wanted at one time, or a resolver never frees.
ReleasedWhenQuiet ==
  (/\ Balanced /\ Busy = {} /\ ~failed /\ ~overlap
   /\ \A d \in Devices : FreesAfterUpload(d) \/ FreeOf(kind[d]).atEnd)
    => heap = {} /\ shared.count = 0

\* "All DAG-based algorithms (Ethash family) share a common algo::DagContext and
\* algo::ethash::ContextGenerator": a device may rely on the light cache it was
\* handed while it uploads it. Does not hold for NVIDIA ethash: updateMemory frees
\* after the upload and again at its end.
SharedCacheIsLive ==
  \A d \in Devices :
    (Uploading(d) /\ job[d] <= MaxEpoch) => ctx[d].cache \in heap

=============================================================================
