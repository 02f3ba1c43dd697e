----------------------------- MODULE GpuStreams -----------------------------
(***************************************************************************)
(* The worker thread of a GPU device and the batches its GPU runs.         *)
(*                                                                         *)
(* Device::loopDoWork brings the resolver up to the live job               *)
(* (updateMemory, updateConstants), launches a batch of nonces             *)
(* (executeAsync), copies the nonces found from a result buffer shared     *)
(* with the GPU to resultShare, and submits them. Most NVIDIA resolvers    *)
(* and AMD ProgPOW launch on two streams by turns: a batch runs while the  *)
(* thread harvests the one before it, submits, and takes the next job. The *)
(* GPU reads the header and writes the results while that happens.         *)
(*                                                                         *)
(* A job is its number, which stands for its id and its header, and its    *)
(* block number, from which the epoch and the ProgPOW period follow.       *)
(* A winner is a nonce found: its batch, its rank, and the header it was   *)
(* hashed with.                                                            *)
(***************************************************************************)
EXTENDS Naturals, FiniteSets

CONSTANTS
  Kinds,       \* the resolvers a device may have
  Blocks,      \* block numbers a job may have
  EpochLength, \* EPOCH_LENGTH of the algorithm
  MaxPeriod,   \* MAX_PERIOD of a ProgPOW algorithm
  FirstPeriod, \* value of currentPeriod before the first job
  MaxResult,   \* MAX_RESULT: nonces a result buffer keeps
  KeepStale,   \* Config: mining.stale
  MaxJobs,     \* bound: jobs in a behaviour
  MaxBatches,  \* bound: batches that may find nonces
  MaxFinds     \* bound: nonces found by a batch

Resolvers == {"AmdEthash", "AmdAutolykosV2", "AmdKHeavyHash", "AmdBlake3", "AmdProgPOW",
              "NvidiaEthash", "NvidiaAutolykosV2", "NvidiaKHeavyHash", "NvidiaBlake3",
              "NvidiaProgPOW"}

ASSUME KindsAssumption == Kinds \subseteq Resolvers
ASSUME BlocksAssumption == Blocks \subseteq Nat \ {0}
ASSUME LengthsAssumption == EpochLength \in Nat \ {0} /\ MaxPeriod \in Nat \ {0}
\* Every EPOCH_LENGTH is a multiple of its MAX_PERIOD.
ASSUME PeriodAssumption ==
  \A b, c \in Blocks : b \div EpochLength # c \div EpochLength => b \div MaxPeriod # c \div MaxPeriod
ASSUME FirstPeriodAssumption ==
  FirstPeriod \in Nat /\ \A b \in Blocks : b \div MaxPeriod # FirstPeriod
ASSUME BoundsAssumption ==
  /\ MaxResult \in Nat \ {0} /\ MaxJobs \in Nat /\ MaxBatches \in Nat /\ MaxFinds \in Nat
  /\ KeepStale \in BOOLEAN

VARIABLES
  kind,    \* the class of the device's resolver
  \* worker thread
  pc,      \* where it is in loopDoWork
  job,     \* currentJobInfo
  jobId,   \* Resolver::jobId
  period,  \* currentPeriod of a ProgPOW resolver
  idx,     \* currentIndexStream
  share,   \* resultShare: the nonces, and the job they are labelled with
  batches, \* number of batches launched, for the bound
  \* memory of the GPU
  header,  \* number of the job whose header is in the header cache
  dag,     \* epoch of the DAG
  kernel,  \* what the search kernel's generator holds, and the job it was compiled for
  buf,     \* buf[b]: nonces in result buffer b
  run,     \* run[s]: the batch that runs on stream s
  \* history of the winners
  found, sent, dropped, lost

hostVars == <<pc, job, jobId, period, idx, share, batches>>
gpuVars == <<header, dag, kernel, buf, run>>
history == <<found, sent, dropped, lost>>
vars == <<kind, hostVars, gpuVars, history>>

-----------------------------------------------------------------------------
(***************************************************************************)
(* The resolvers.                                                          *)
(*   async:   executeAsync launches on one stream and harvests the other   *)
(*   shared:  both streams write one result buffer                         *)
(*   epoch:   what the epoch of a job is: that of a DAG, its block number  *)
(*            (Autolykos), or the same for all jobs ("none")               *)
(*   compile: when the search kernel is compiled: by the first             *)
(*            updateMemory at the latest ("once"), by each updateMemory,   *)
(*            or by updateConstants when the period changes                *)
(*   clears:  updateMemory compiles its own kernels with the generator of  *)
(*            the search kernel                                            *)
(*   symbol:  the header is a symbol of the module, not freed memory       *)
(*   waits:   freeing the buffers waits for the kernels that run           *)
(***************************************************************************)
OpenCL == [async |-> FALSE, shared |-> TRUE, epoch |-> "none", compile |-> "memory",
           clears |-> FALSE, symbol |-> FALSE, waits |-> FALSE]
Cuda == [async |-> TRUE, shared |-> FALSE, epoch |-> "none", compile |-> "once",
         clears |-> FALSE, symbol |-> FALSE, waits |-> TRUE]

AmdEthash == [OpenCL EXCEPT !.epoch = "dag", !.clears = TRUE]
AmdAutolykosV2 == [OpenCL EXCEPT !.epoch = "height", !.compile = "once"]
AmdKHeavyHash == OpenCL
AmdBlake3 == OpenCL
AmdProgPOW == [OpenCL EXCEPT !.async = TRUE, !.epoch = "dag", !.compile = "period", !.clears = TRUE]
NvidiaEthash == [Cuda EXCEPT !.epoch = "dag", !.symbol = TRUE]
NvidiaAutolykosV2 == [Cuda EXCEPT !.async = FALSE, !.shared = TRUE, !.epoch = "height"]
NvidiaKHeavyHash == Cuda
NvidiaBlake3 == Cuda
NvidiaProgPOW == [Cuda EXCEPT !.epoch = "dag", !.compile = "period"]

ResolverOf(k) == CASE k = "AmdEthash" -> AmdEthash
                   [] k = "AmdAutolykosV2" -> AmdAutolykosV2
                   [] k = "AmdKHeavyHash" -> AmdKHeavyHash
                   [] k = "AmdBlake3" -> AmdBlake3
                   [] k = "AmdProgPOW" -> AmdProgPOW
                   [] k = "NvidiaEthash" -> NvidiaEthash
                   [] k = "NvidiaAutolykosV2" -> NvidiaAutolykosV2
                   [] k = "NvidiaKHeavyHash" -> NvidiaKHeavyHash
                   [] k = "NvidiaBlake3" -> NvidiaBlake3
                   [] k = "NvidiaProgPOW" -> NvidiaProgPOW

Resolver == ResolverOf(kind)

\* Two streams write one buffer by turns.
Races == Resolver.async /\ Resolver.shared

-----------------------------------------------------------------------------
Streams == {0, 1}
Idle == [batch |-> 0, headers |-> {}, detached |-> FALSE]
NoShare == [nonces |-> {}, label |-> 0]

\* swapIndexStream
Other(s) == 1 - s

Buffer(s) == IF Resolver.shared THEN 0 ELSE s

\* The epoch and the period the stratum gives to a job on block b.
Epoch(b) == CASE Resolver.epoch = "dag" -> b \div EpochLength
              [] Resolver.epoch = "height" -> b
              [] Resolver.epoch = "none" -> 1
Period(b) == b \div MaxPeriod

\* A search kernel is compiled with the size of the DAG and the period's program.
SearchKernel(b) == [code |-> "search", block |-> b]
NoKernel == [code |-> "none", block |-> 0]
BuiltKernel == [code |-> "search", block |-> 0]
MemoryKernel == [code |-> "memory", block |-> 0]

FitsKernel ==
  /\ kernel.code = "search"
  /\ Resolver.compile = "memory" => Epoch(kernel.block) = Epoch(job.block)
  /\ Resolver.compile = "period" => /\ Epoch(kernel.block) = Epoch(job.block)
                                    /\ Period(kernel.block) = Period(job.block)

Pending == share.nonces \cup buf[0] \cup buf[1]

Init ==
  /\ kind \in Kinds
  /\ pc = "loop" /\ job = [id |-> 0, block |-> 0] /\ jobId = 0 /\ period = FirstPeriod
  /\ idx = 0 /\ share = NoShare /\ batches = 0
  /\ header = 0 /\ dag = 0
  /\ kernel = NoKernel
  /\ buf = [b \in Streams |-> {}]
  /\ run = [s \in Streams |-> Idle]
  /\ found = {} /\ sent = {} /\ dropped = {} /\ lost = {}

-----------------------------------------------------------------------------
(***************************************************************************)
(* The next job.                                                           *)
(***************************************************************************)

\* Device::updateJob: the job of the network thread is taken, between two batches.
\* A new epoch needs new memory, and a new job new constants.
UpdateJob(b) ==
  /\ pc = "loop" /\ job.id < MaxJobs /\ b >= job.block
  /\ job' = [id |-> job.id + 1, block |-> b]
  /\ pc' = IF job.id = 0 \/ Epoch(b) # Epoch(job.block) THEN "memory" ELSE "constants"
  /\ UNCHANGED <<kind, jobId, period, idx, share, batches, gpuVars, history>>

\* The kernel updateMemory leaves in the generator. AMD ProgPOW compiles the kernel
\* that builds the DAG, and relies on the period to change with the epoch.
MemoryBuilds ==
  CASE Resolver.compile = "memory" -> SearchKernel(job.block)
    [] Resolver.compile = "once" -> BuiltKernel
    [] Resolver.compile = "period" -> IF Resolver.clears THEN MemoryKernel ELSE kernel

\* Mutant: the search kernel is kept when the DAG is rebuilt.
UpdateMemoryKeepsKernel ==
  /\ pc = "memory"
  /\ Resolver.waits => \A s \in Streams : run[s] = Idle
  /\ dag' = Epoch(job.block)
  /\ header' = IF Resolver.symbol THEN header ELSE 0
  /\ kernel' = IF kernel.code = "none" THEN MemoryBuilds ELSE kernel
  /\ lost' = lost \cup buf[0] \cup buf[1]
  /\ buf' = [b \in Streams |-> {}]
  /\ run' = [s \in Streams |-> IF run[s] = Idle THEN Idle ELSE [run[s] EXCEPT !.detached = TRUE]]
  /\ pc' = "constants"
  /\ UNCHANGED <<kind, job, jobId, period, idx, share, batches, found, sent, dropped>>

\* Resolver::updateMemory: every buffer is freed, allocated and filled anew. The
\* results that wait in them are gone, and those that the batch still running
\* will write go to a buffer that nobody reads.
UpdateMemory ==
  /\ pc = "memory"
  /\ Resolver.waits => \A s \in Streams : run[s] = Idle
  /\ dag' = Epoch(job.block)
  /\ header' = IF Resolver.symbol THEN header ELSE 0
  /\ kernel' = MemoryBuilds
  /\ lost' = lost \cup buf[0] \cup buf[1]
  /\ buf' = [b \in Streams |-> {}]
  /\ run' = [s \in Streams |-> IF run[s] = Idle THEN Idle ELSE [run[s] EXCEPT !.detached = TRUE]]
  /\ pc' = "constants"
  /\ UNCHANGED <<kind, job, jobId, period, idx, share, batches, found, sent, dropped>>

\* Resolver::updateJobId and updateConstants: the search kernel of a new period,
\* and the header, written under the batch that still runs.
UpdateConstants ==
  LET compiles == Resolver.compile = "period" /\ period # Period(job.block)
  IN  /\ pc = "constants"
      /\ jobId' = job.id
      /\ period' = IF compiles THEN Period(job.block) ELSE period
      /\ kernel' = IF compiles THEN SearchKernel(job.block) ELSE kernel
      /\ header' = job.id
      /\ run' = [s \in Streams |-> IF run[s] = Idle \/ run[s].detached THEN run[s]
                                   ELSE [run[s] EXCEPT !.headers = @ \cup {job.id}]]
      /\ pc' = "loop"
      /\ UNCHANGED <<kind, job, idx, share, batches, dag, buf, history>>

-----------------------------------------------------------------------------
(***************************************************************************)
(* A batch: launched, harvested, submitted.                                *)
(***************************************************************************)
NextBatch == IF batches <= MaxBatches THEN batches + 1 ELSE batches

Starts(s) ==
  /\ run' = [run EXCEPT ![s] = [batch |-> NextBatch, headers |-> {header}, detached |-> FALSE]]
  /\ batches' = NextBatch
  /\ pc' = "harvest"
  /\ UNCHANGED <<kind, job, jobId, period, idx, share, header, dag, kernel, buf, history>>

\* executeSync: on the current stream.
LaunchSync ==
  /\ pc = "loop" /\ job.id > 0
  /\ ~Resolver.async
  /\ Starts(idx)

\* Mutant: the batch before is not waited for.
LaunchAsyncAtOnce ==
  /\ pc = "loop" /\ job.id > 0
  /\ Resolver.async
  /\ Starts(Other(idx))

\* executeAsync: on the other stream, once the batch on the current one is done.
LaunchAsync ==
  /\ pc = "loop" /\ job.id > 0
  /\ Resolver.async
  /\ run[idx] = Idle
  /\ Starts(Other(idx))

\* The stream that is harvested is the current one; executeSync waits for it first.
Harvested == /\ pc = "harvest"
             /\ ~Resolver.async => run[idx] = Idle

NextStream == IF Resolver.async THEN Other(idx) ELSE idx

\* Mutant: the streams are swapped only when something was found.
HarvestNothingStays ==
  /\ Harvested /\ buf[Buffer(idx)] = {}
  /\ pc' = "submit"
  /\ UNCHANGED <<kind, job, jobId, period, idx, share, batches, gpuVars, history>>

\* getResultCache when nothing was found.
HarvestNothing ==
  /\ Harvested /\ buf[Buffer(idx)] = {}
  /\ idx' = NextStream
  /\ pc' = "submit"
  /\ UNCHANGED <<kind, job, jobId, period, share, batches, gpuVars, history>>

\* getResultCache, first half: the nonces are copied, with the id of the live job.
ReadResults ==
  /\ Harvested /\ buf[Buffer(idx)] # {}
  /\ share' = [nonces |-> buf[Buffer(idx)], label |-> job.id]
  /\ pc' = "reset"
  /\ UNCHANGED <<kind, job, jobId, period, idx, batches, gpuVars, history>>

\* Mutant: the buffer of the batch just launched is reset.
ResetResultsOfOther ==
  LET b == Buffer(NextStream)
  IN  /\ pc = "reset"
      /\ lost' = lost \cup (buf[b] \ share.nonces)
      /\ buf' = [buf EXCEPT ![b] = {}]
      /\ idx' = NextStream
      /\ pc' = "submit"
      /\ UNCHANGED <<kind, job, jobId, period, share, batches, header, dag, kernel, run,
                     found, sent, dropped>>

\* Second half: the buffer is reset, whatever was written to it in between.
ResetResults ==
  LET b == Buffer(idx)
  IN  /\ pc = "reset"
      /\ lost' = lost \cup (buf[b] \ share.nonces)
      /\ buf' = [buf EXCEPT ![b] = {}]
      /\ idx' = NextStream
      /\ pc' = "submit"
      /\ UNCHANGED <<kind, job, jobId, period, share, batches, header, dag, kernel, run,
                     found, sent, dropped>>

\* Resolver::isStale
IsStale(label) == ~KeepStale /\ jobId # label

\* Mutant: resultShare keeps the nonces it sent.
SubmitKeeps ==
  /\ pc = "submit"
  /\ IF IsStale(share.label)
     THEN dropped' = dropped \cup share.nonces /\ UNCHANGED sent
     ELSE sent' = sent \cup {[nonce |-> w, label |-> share.label] : w \in share.nonces}
          /\ UNCHANGED dropped
  /\ pc' = "loop"
  /\ UNCHANGED <<kind, job, jobId, period, idx, share, batches, gpuVars, found, lost>>

\* Resolver::submit
Submit ==
  /\ pc = "submit"
  /\ IF IsStale(share.label)
     THEN dropped' = dropped \cup share.nonces /\ UNCHANGED sent
     ELSE sent' = sent \cup {[nonce |-> w, label |-> share.label] : w \in share.nonces}
          /\ UNCHANGED dropped
  /\ share' = NoShare
  /\ pc' = "loop"
  /\ UNCHANGED <<kind, job, jobId, period, idx, batches, gpuVars, found, lost>>

\* Device::kill: a call of the driver failed.
Kill ==
  /\ \/ pc \in {"memory", "constants", "harvest", "reset"}
     \/ pc = "loop" /\ job.id > 0
  /\ pc' = "dead"
  /\ UNCHANGED <<kind, job, jobId, period, idx, share, batches, gpuVars, history>>

-----------------------------------------------------------------------------
(***************************************************************************)
(* The GPU.                                                                *)
(***************************************************************************)

FoundBy(b) == {w \in found : w.batch = b}

\* A thread of the batch hits the target. It has read the header at any time since
\* the launch. A full buffer counts the nonce and does not keep it.
Find(s) ==
  LET b == Buffer(s)
      rank == Cardinality(FoundBy(run[s].batch)) + 1
  IN  /\ run[s] # Idle /\ run[s].batch <= MaxBatches /\ rank <= MaxFinds
      /\ \E h \in run[s].headers :
           LET w == [batch |-> run[s].batch, rank |-> rank, header |-> h]
               kept == ~run[s].detached /\ Cardinality(buf[b]) < MaxResult
           IN  /\ found' = found \cup {w}
               /\ buf' = IF kept THEN [buf EXCEPT ![b] = @ \cup {w}] ELSE buf
               /\ lost' = IF kept THEN lost ELSE lost \cup {w}
      /\ UNCHANGED <<kind, hostVars, header, dag, kernel, run, sent, dropped>>

BatchEnds(s) ==
  /\ run[s] # Idle
  /\ run' = [run EXCEPT ![s] = Idle]
  /\ UNCHANGED <<kind, hostVars, header, dag, kernel, buf, history>>

\* A device that was killed, and whose batches have ended, is at rest.
AtRest == pc = "dead" /\ UNCHANGED vars

Launch == LaunchSync \/ LaunchAsync
Harvest == HarvestNothing \/ ReadResults \/ ResetResults
Worker == UpdateMemory \/ UpdateConstants \/ Launch \/ Harvest \/ Submit

Next ==
  \/ \E b \in Blocks : UpdateJob(b)
  \/ Worker \/ Kill \/ AtRest
  \/ \E s \in Streams : Find(s) \/ BatchEnds(s)

\* The worker thread runs, and a kernel that was launched ends.
Fairness == WF_vars(Worker) /\ \A s \in Streams : WF_vars(BatchEnds(s))

Spec == Init /\ [][Next]_vars /\ Fairness

-----------------------------------------------------------------------------
(***************************************************************************)
(* Properties.                                                             *)
(***************************************************************************)
Winners == [batch : 1..MaxBatches, rank : 1..MaxFinds, header : 0..MaxJobs]
Sent == {s.nonce : s \in sent}

TypeOK ==
  /\ kind \in Kinds
  /\ pc \in {"loop", "memory", "constants", "harvest", "reset", "submit", "dead"}
  /\ job \in [id : 0..MaxJobs, block : Blocks \cup {0}] /\ jobId \in 0..MaxJobs
  /\ period \in Nat /\ idx \in Streams /\ batches \in 0..(MaxBatches + 1)
  /\ share \in [nonces : SUBSET Winners, label : 0..MaxJobs]
  /\ header \in 0..MaxJobs /\ dag \in Nat
  /\ kernel \in [code : {"none", "memory", "search"}, block : Blocks \cup {0}]
  /\ buf \in [Streams -> SUBSET Winners]
  /\ run \in [Streams -> [batch : 0..(MaxBatches + 1), headers : SUBSET (0..MaxJobs),
                          detached : BOOLEAN]]
  /\ found \in SUBSET Winners /\ dropped \in SUBSET Winners /\ lost \in SUBSET Winners
  /\ sent \in SUBSET [nonce : Winners, label : 0..MaxJobs]

\* A nonce found is on its way, was sent, was dropped as stale or was lost, and no
\* two of these: none vanishes unnoticed and none is sent twice.
Accounted ==
  /\ found = Pending \cup Sent \cup dropped \cup lost
  /\ Pending \cap (Sent \cup dropped \cup lost) = {}
  /\ Sent \cap (dropped \cup lost) = {} /\ dropped \cap lost = {}
  /\ \A s, t \in sent : s.nonce = t.nonce => s = t

\* The streams are two so that the thread works while a batch runs; two batches
\* never run at once, and share no memory at one time.
OneBatchInFlight == run[0] = Idle \/ run[1] = Idle

\* The nonces that are harvested are those of the last batch but one on a resolver
\* with two streams, at most one batch behind, and else of the last batch, found
\* with the header of the job they are labelled with.
ShareIsRecent ==
  \A w \in share.nonces :
    /\ w.batch + 1 >= batches
    /\ ~Resolver.async => w.batch = batches /\ w.header = share.label

\* A winner is lost when the memory it is in is freed, when its buffer is full, and
\* on AMD ProgPOW when it is written between the two halves of getResultCache.
\* No other harvest loses one.
LostOnly ==
  [][lost' # lost => \/ pc = "memory"
                     \/ found' # found
                     \/ pc = "reset" /\ Races]_vars

\* A batch is launched with the header, the DAG and the search kernel of the live job.
LaunchFits ==
  [][batches' # batches => header = job.id /\ dag = Epoch(job.block) /\ FitsKernel]_vars

\* Every winner leaves the buffers and resultShare: the harvest comes back to the
\* stream of every batch.
WinnersLeave ==
  \A b \in 1..MaxBatches :
    (\E w \in Pending : w.batch = b) ~> (pc = "dead" \/ ~\E w \in Pending : w.batch = b)

=============================================================================
