-------------------------- MODULE GpuStreamsProofs --------------------------
(***************************************************************************)
(* A batch is launched with the live job's header, DAG and kernel, no two  *)
(* batches run at once, and every nonce found is sent once, dropped as     *)
(* stale or lost in a known way, for any resolvers, jobs and bounds.       *)
(***************************************************************************)
EXTENDS GpuStreams, FiniteSetTheorems, TLAPS

\* What the worker thread and the memory of the GPU may hold.
Types ==
  /\ kind \in Kinds
  /\ pc \in {"loop", "memory", "constants", "harvest", "reset", "submit", "dead"}
  /\ job.id \in Nat /\ job.block \in Nat
  /\ job.id > 0 => job.block \in Blocks
  /\ period \in Nat /\ kernel.block \in Nat
  /\ DOMAIN job = {"id", "block"}
  /\ idx \in Streams /\ DOMAIN run = Streams

\* The resolver's kernel was compiled, if it is one of a period, for currentPeriod.
PeriodKernel ==
  Resolver.compile = "period" => period = Period(job.block)

\* Before the first job, only a job may come; ...
NoJobYet == job.id = 0 => pc = "loop" /\ period = FirstPeriod

\* ... while it is taken over, what has been done for it is done, and a ProgPOW
\* kernel that does not fit will be compiled, because the period is another; ...
MemoryDue == pc = "memory" => job.id > 0 /\ (Resolver.compile = "period" => period # Period(job.block))

ConstantsDue ==
  pc = "constants" => /\ job.id > 0 /\ dag = Epoch(job.block)
                      /\ FitsKernel \/ (Resolver.compile = "period" /\ period # Period(job.block))

\* ... and from then on everything is that of the job.
UpToDate ==
  pc \in {"loop", "harvest", "reset", "submit"} /\ job.id > 0 =>
    header = job.id /\ dag = Epoch(job.block) /\ FitsKernel /\ PeriodKernel

\* A resolver without two streams never leaves the first.
SyncStream == ~Resolver.async => idx = 0 /\ run[1] = Idle

IInv == /\ Types
        /\ NoJobYet /\ MemoryDue /\ ConstantsDue /\ UpToDate
        /\ SyncStream /\ OneBatchInFlight

-----------------------------------------------------------------------------
\* The resolvers that compile a kernel for a period mine on a DAG.
LEMMA ResolverShape ==
  ASSUME kind \in Kinds
  PROVE  /\ Resolver.compile \in {"once", "memory", "period"}
         /\ Resolver.compile = "period" => Resolver.epoch = "dag"
         /\ Resolver.epoch \in {"dag", "height", "none"}
         /\ Resolver.async \in BOOLEAN
<1>1. kind \in Resolvers
  BY KindsAssumption
<1>2. CASE kind \in {"AmdEthash", "AmdAutolykosV2", "AmdKHeavyHash", "AmdBlake3", "AmdProgPOW"}
  BY <1>2 DEF Resolver, ResolverOf, OpenCL, AmdEthash, AmdAutolykosV2, AmdKHeavyHash,
              AmdBlake3, AmdProgPOW
<1>3. CASE kind \in {"NvidiaEthash", "NvidiaAutolykosV2", "NvidiaKHeavyHash", "NvidiaBlake3",
                     "NvidiaProgPOW"}
  BY <1>3 DEF Resolver, ResolverOf, Cuda, NvidiaEthash, NvidiaAutolykosV2, NvidiaKHeavyHash,
              NvidiaBlake3, NvidiaProgPOW
<1> QED
  BY <1>1, <1>2, <1>3 DEF Resolvers

\* Epochs and periods of blocks are naturals.
LEMMA EpochType ==
  ASSUME NEW b \in Nat, kind \in Kinds
  PROVE  Epoch(b) \in Nat /\ Period(b) \in Nat
  BY LengthsAssumption, ResolverShape DEF Epoch, Period

\* Under the DAG of another epoch lies another period.
LEMMA NewEpochNewPeriod ==
  ASSUME NEW b \in Blocks, NEW c \in Blocks, kind \in Kinds,
         Resolver.compile = "period", Epoch(b) # Epoch(c)
  PROVE  Period(b) # Period(c)
  BY PeriodAssumption, ResolverShape DEF Epoch, Period

\* The constants have their types.
LEMMA Constants == Blocks \subseteq Nat /\ FirstPeriod \in Nat
  BY BlocksAssumption, FirstPeriodAssumption

\* The initial state satisfies the invariant.
LEMMA InitIInv == Init => IInv
<1> SUFFICES ASSUME Init PROVE IInv
  OBVIOUS
<1> USE DEF Init
<1>1. Types
  BY Constants DEF Types, NoKernel, Streams
<1>2. NoJobYet /\ MemoryDue /\ ConstantsDue /\ UpToDate
  BY DEF NoJobYet, MemoryDue, ConstantsDue, UpToDate
<1>3. SyncStream /\ OneBatchInFlight
  BY DEF SyncStream, OneBatchInFlight, Streams
<1> QED
  BY <1>1, <1>2, <1>3 DEF IInv

-----------------------------------------------------------------------------
\* A job that is taken needs new memory unless its epoch is that of the DAG, and a
\* kernel of its own unless its period is that of the kernel.
LEMMA UpdateJobStep == IInv /\ (\E b \in Blocks : UpdateJob(b)) => IInv'
<1> SUFFICES ASSUME IInv, NEW b \in Blocks, UpdateJob(b) PROVE IInv'
  OBVIOUS
<1> USE DEF UpdateJob, gpuVars, history
<1>0. Resolver' = Resolver
  BY DEF Resolver
<1>1. Types'
  BY Constants DEF IInv, Types
<1>2. job'.id > 0 /\ job'.block = b /\ pc' \in {"memory", "constants"}
  BY DEF IInv, Types
<1>3. NoJobYet' /\ UpToDate'
  BY <1>2 DEF NoJobYet, UpToDate, IInv, Types
<1>4. MemoryDue'
  <2> SUFFICES ASSUME pc' = "memory", Resolver.compile = "period"
               PROVE  period # Period(b)
    BY <1>0, <1>2 DEF MemoryDue, Period
  <2>1. CASE job.id = 0
    BY <2>1, FirstPeriodAssumption DEF IInv, NoJobYet, Period
  <2>2. CASE job.id # 0
    <3>1. job.block \in Blocks /\ Epoch(b) # Epoch(job.block) /\ period = Period(job.block)
      BY <2>2 DEF IInv, Types, UpToDate, PeriodKernel
    <3> QED
      BY <3>1, NewEpochNewPeriod DEF IInv, Types
  <2> QED
    BY <2>1, <2>2
<1>5. ConstantsDue'
  <2> SUFFICES ASSUME pc' = "constants"
               PROVE  /\ dag = Epoch(b)
                      /\ FitsKernel' \/ (Resolver.compile = "period" /\ period # Period(b))
    BY <1>0, <1>2 DEF ConstantsDue, Period, Epoch
  <2>1. job.id # 0 /\ Epoch(b) = Epoch(job.block)
    OBVIOUS
  <2>2. dag = Epoch(b) /\ FitsKernel /\ PeriodKernel
    BY <2>1 DEF IInv, Types, UpToDate
  <2>3. (Resolver.compile = "period" => period = Period(b)) => FitsKernel'
    BY <1>0, <1>2, <2>1, <2>2 DEF FitsKernel, PeriodKernel, Epoch, Period
  <2> QED
    BY <2>2, <2>3
<1>6. SyncStream' /\ OneBatchInFlight'
  BY <1>0 DEF IInv, SyncStream, OneBatchInFlight
<1> QED
  BY <1>1, <1>3, <1>4, <1>5, <1>6 DEF IInv

\* updateMemory builds the DAG of the job, and leaves a kernel of the job or one
\* that updateConstants replaces.
LEMMA UpdateMemoryStep == IInv /\ UpdateMemory => IInv'
<1> SUFFICES ASSUME IInv, UpdateMemory PROVE IInv'
  OBVIOUS
<1>0. Resolver' = Resolver
  BY DEF UpdateMemory, Resolver
<1>1. /\ pc = "memory" /\ pc' = "constants" /\ job' = job /\ period' = period
      /\ dag' = Epoch(job.block) /\ kernel' = MemoryBuilds /\ idx' = idx /\ kind' = kind
      /\ job.id > 0
  BY DEF UpdateMemory, IInv, MemoryDue
<1>2. kernel'.block \in Nat
  BY <1>1, ResolverShape DEF IInv, Types, MemoryBuilds, SearchKernel, BuiltKernel, MemoryKernel
<1>3. Types'
  BY <1>1, <1>2 DEF IInv, Types, UpdateMemory, Streams
<1>4. NoJobYet' /\ MemoryDue' /\ UpToDate'
  BY <1>1 DEF NoJobYet, MemoryDue, UpToDate
<1>5. ConstantsDue'
  <2>1. dag' = Epoch(job.block)'
    BY <1>0, <1>1 DEF Epoch
  <2>2. CASE Resolver.compile = "period"
    BY <1>0, <1>1, <2>1, <2>2 DEF IInv, MemoryDue, ConstantsDue, Period
  <2>3. CASE Resolver.compile # "period"
    <3>1. kernel'.code = "search" /\ (Resolver.compile = "memory" => kernel'.block = job.block)
      BY <1>1, <2>3, ResolverShape DEF IInv, Types, MemoryBuilds, SearchKernel, BuiltKernel
    <3>2. FitsKernel'
      BY <1>0, <1>1, <2>3, <3>1 DEF FitsKernel, Epoch
    <3> QED
      BY <1>1, <2>1, <3>2 DEF ConstantsDue
  <2> QED
    BY <2>2, <2>3
<1>6. SyncStream' /\ OneBatchInFlight'
  BY <1>0, <1>1 DEF IInv, SyncStream, OneBatchInFlight, UpdateMemory, Streams
<1> QED
  BY <1>3, <1>4, <1>5, <1>6 DEF IInv

\* updateConstants leaves the header, the DAG and the kernel of the job.
LEMMA UpdateConstantsStep == IInv /\ UpdateConstants => IInv'
<1> SUFFICES ASSUME IInv, UpdateConstants PROVE IInv'
  OBVIOUS
<1> DEFINE compiles == Resolver.compile = "period" /\ period # Period(job.block)
<1>0. Resolver' = Resolver
  BY DEF UpdateConstants, Resolver
<1>1. /\ pc = "constants" /\ pc' = "loop" /\ job' = job /\ idx' = idx /\ kind' = kind
      /\ dag' = dag /\ header' = job.id
      /\ period' = IF compiles THEN Period(job.block) ELSE period
      /\ kernel' = IF compiles THEN SearchKernel(job.block) ELSE kernel
      /\ job.id > 0
  BY DEF UpdateConstants, IInv, ConstantsDue
<1>2. Types'
  BY <1>1, EpochType DEF IInv, Types, SearchKernel, UpdateConstants, Streams
<1>3. NoJobYet' /\ MemoryDue' /\ ConstantsDue'
  BY <1>1 DEF NoJobYet, MemoryDue, ConstantsDue
<1>4. UpToDate'
  <2>1. dag' = Epoch(job.block)'
    BY <1>0, <1>1 DEF IInv, ConstantsDue, Epoch
  <2>2. PeriodKernel'
    BY <1>0, <1>1 DEF PeriodKernel, Period
  <2>3. CASE compiles
    BY <1>0, <1>1, <2>1, <2>2, <2>3 DEF UpToDate, FitsKernel, SearchKernel
  <2>4. CASE ~compiles
    <3>1. FitsKernel /\ kernel' = kernel
      BY <1>1, <2>4 DEF IInv, ConstantsDue
    <3>2. FitsKernel'
      BY <1>0, <1>1, <3>1 DEF FitsKernel, Epoch, Period
    <3> QED
      BY <1>1, <2>1, <2>2, <3>2 DEF UpToDate
  <2> QED
    BY <2>3, <2>4
<1>5. SyncStream' /\ OneBatchInFlight'
  BY <1>0, <1>1 DEF IInv, SyncStream, OneBatchInFlight, UpdateConstants, Streams
<1> QED
  BY <1>2, <1>3, <1>4, <1>5 DEF IInv

\* A launch starts a batch on a stream, while the other is at rest.
LEMMA LaunchStep == IInv /\ Launch => IInv'
<1> SUFFICES ASSUME IInv, Launch PROVE IInv'
  OBVIOUS
<1>1. PICK s \in Streams : /\ Starts(s) /\ pc = "loop" /\ job.id > 0
                           /\ run[Other(s)] = Idle
                           /\ ~Resolver.async => s = 0
  BY DEF Launch, LaunchSync, LaunchAsync, IInv, Types, SyncStream, Streams, Other
<1>2. /\ pc' = "harvest" /\ UNCHANGED <<kind, job, period, idx, header, dag, kernel>>
      /\ run' = [run EXCEPT ![s] = [batch |-> NextBatch, headers |-> {header}, detached |-> FALSE]]
  BY <1>1 DEF Starts
<1>3. Types' /\ NoJobYet' /\ MemoryDue' /\ ConstantsDue'
  BY <1>1, <1>2 DEF IInv, Types, NoJobYet, MemoryDue, ConstantsDue
<1>4. UpToDate'
  BY <1>1, <1>2 DEF IInv, UpToDate, FitsKernel, PeriodKernel, Resolver, Epoch, Period
<1>5. SyncStream' /\ OneBatchInFlight'
  BY <1>1, <1>2 DEF IInv, Types, SyncStream, OneBatchInFlight, Resolver, Streams, Other
<1> QED
  BY <1>3, <1>4, <1>5 DEF IInv

\* The steps of a harvest, a submission and a failure change no memory but the buffers.
LEMMA HarvestStep == IInv /\ (Harvest \/ Submit \/ Kill) => IInv'
<1> SUFFICES ASSUME IInv, Harvest \/ Submit \/ Kill PROVE IInv'
  OBVIOUS
<1>1. /\ UNCHANGED <<kind, job, period, header, dag, kernel, run>>
      /\ idx' = idx \/ idx' = NextStream
      /\ \/ pc \in {"harvest", "reset", "submit"} /\ pc' \in {"loop", "reset", "submit"}
         \/ pc' = "dead" /\ job.id > 0
  BY DEF Harvest, HarvestNothing, ReadResults, ResetResults, Harvested, Submit, Kill, gpuVars,
         IInv, NoJobYet, MemoryDue, ConstantsDue, Types
<1>2. idx' \in Streams /\ (~Resolver.async => idx' = idx)
  BY <1>1 DEF IInv, Types, NextStream, Other, Streams
<1>3. Types' /\ NoJobYet' /\ MemoryDue' /\ ConstantsDue'
  BY <1>1, <1>2 DEF IInv, Types, NoJobYet, MemoryDue, ConstantsDue
<1>4. UpToDate'
  BY <1>1 DEF IInv, UpToDate, FitsKernel, PeriodKernel, Resolver, Epoch, Period
<1>5. SyncStream' /\ OneBatchInFlight'
  BY <1>1, <1>2 DEF IInv, SyncStream, OneBatchInFlight, Resolver
<1> QED
  BY <1>3, <1>4, <1>5 DEF IInv

\* The GPU changes results and the batches that run only.
LEMMA GpuStep == IInv /\ (\E s \in Streams : Find(s) \/ BatchEnds(s)) => IInv'
<1> SUFFICES ASSUME IInv, NEW s \in Streams, Find(s) \/ BatchEnds(s) PROVE IInv'
  OBVIOUS
<1>1. /\ UNCHANGED <<kind, pc, job, period, idx, header, dag, kernel>>
      /\ run' = run \/ run' = [run EXCEPT ![s] = Idle]
  BY DEF Find, BatchEnds, hostVars
<1>2. Types' /\ NoJobYet' /\ MemoryDue' /\ ConstantsDue' /\ UpToDate'
  BY <1>1 DEF IInv, Types, NoJobYet, MemoryDue, ConstantsDue, UpToDate, FitsKernel, PeriodKernel,
              Resolver, Epoch, Period
<1>3. SyncStream' /\ OneBatchInFlight'
  BY <1>1 DEF IInv, Types, SyncStream, OneBatchInFlight, Resolver, Streams
<1> QED
  BY <1>2, <1>3 DEF IInv

\* A step that changes nothing keeps the invariant.
LEMMA StutterStep == IInv /\ UNCHANGED vars => IInv'
  BY DEF IInv, vars, hostVars, gpuVars, Types, NoJobYet, MemoryDue, ConstantsDue, UpToDate,
         FitsKernel, PeriodKernel, SyncStream, OneBatchInFlight, Resolver, Epoch, Period

LEMMA NextIInv == IInv /\ [Next]_vars => IInv'
<1> SUFFICES ASSUME IInv, [Next]_vars PROVE IInv'
  OBVIOUS
<1>1. CASE \E b \in Blocks : UpdateJob(b)
  BY <1>1, UpdateJobStep
<1>2. CASE UpdateMemory
  BY <1>2, UpdateMemoryStep
<1>3. CASE UpdateConstants
  BY <1>3, UpdateConstantsStep
<1>4. CASE Launch
  BY <1>4, LaunchStep
<1>5. CASE Harvest \/ Submit \/ Kill
  BY <1>5, HarvestStep
<1>6. CASE \E s \in Streams : Find(s) \/ BatchEnds(s)
  BY <1>6, GpuStep
<1>7. CASE UNCHANGED vars
  BY <1>7, StutterStep
<1> QED
  BY <1>1, <1>2, <1>3, <1>4, <1>5, <1>6, <1>7 DEF Next, Worker, AtRest

\* The header, the DAG and the kernel of a GPU are those of the live job whenever
\* the worker thread is between updateConstants and the next job.
THEOREM Inductive == Spec => []IInv
  BY InitIInv, NextIInv, PTL DEF Spec

-----------------------------------------------------------------------------
\* executeAsync launches a batch on the other stream only when the one before it
\* has ended: the two streams of a device never run at once.
THEOREM StreamsAlternate == Spec => []OneBatchInFlight
<1>1. IInv => OneBatchInFlight
  BY DEF IInv
<1> QED
  BY <1>1, Inductive, PTL

\* Every batch starts with the header, the DAG and the search kernel of the live
\* job, for every resolver, although AMD ProgPOW leaves the kernel that builds the
\* DAG behind: the period changes with the epoch.
THEOREM BatchesFit == Spec => LaunchFits
<1> DEFINE Fits == batches' # batches =>
                     header = job.id /\ dag = Epoch(job.block) /\ FitsKernel
<1>1. IInv /\ [Next]_vars => [Fits]_vars
  <2> SUFFICES ASSUME IInv, Next, batches' # batches
               PROVE  header = job.id /\ dag = Epoch(job.block) /\ FitsKernel
    OBVIOUS
  <2>1. Launch
    BY DEF Next, UpdateJob, Worker, UpdateMemory, UpdateConstants, Harvest, HarvestNothing,
           ReadResults, ResetResults, Submit, Kill, AtRest, Find, BatchEnds, vars, hostVars
  <2>2. pc = "loop" /\ job.id > 0
    BY <2>1 DEF Launch, LaunchSync, LaunchAsync
  <2> QED
    BY <2>2 DEF IInv, UpToDate
<1> QED
  BY <1>1, Inductive, PTL DEF Spec, LaunchFits

-----------------------------------------------------------------------------
(***************************************************************************)
(* Where a winner is from the moment it is found.                          *)
(***************************************************************************)
Settled == pc \in {"loop", "memory", "constants", "submit"}
Harvesting == pc \in {"harvest", "reset"}

\* The ranks of a batch are taken one after the other, so a new winner is new.
Numbered == IsFiniteSet(found) /\ \A w \in found : w.rank <= Cardinality(FoundBy(w.batch))

\* No nonce is in both buffers, ...
BuffersApart == buf[0] \cap buf[1] = {}

\* ... and none is in resultShare and a buffer but between the two halves of a harvest.
ShareHeld ==
  /\ pc \in {"loop", "memory", "constants", "harvest"} => share.nonces = {}
  /\ pc = "reset" => share.nonces \subseteq buf[Buffer(idx)]
  /\ pc = "reset" /\ ~Races => buf[Buffer(idx)] = share.nonces
  /\ pc = "submit" => share.nonces \cap (buf[0] \cup buf[1]) = {}

\* A batch that runs is the last one. It runs on the current stream, and during a
\* harvest on the other one; without a second stream it ends before the harvest.
Running ==
  \A s \in Streams : run[s] # Idle =>
    /\ run[s].batch = batches /\ batches > 0
    /\ Settled => Resolver.async /\ s = idx
    /\ Harvesting => s = NextStream
    /\ pc = "reset" => Resolver.async
    /\ ~Resolver.async /\ pc # "dead" => run[s].headers = {job.id}

\* The buffer that is not the current one is empty when a batch is launched.
Buffered ==
  \A b \in Streams : \A w \in buf[b] :
    /\ Settled => Resolver.async /\ b = Buffer(idx) /\ w.batch = batches
    /\ Harvesting => /\ w.batch + 1 >= batches
                     /\ b # Buffer(idx) =>
                          Resolver.async /\ b = Buffer(NextStream) /\ w.batch = batches
                     /\ ~Resolver.async => w.batch = batches /\ w.header = job.id

WinnersInv ==
  /\ TypeOK
  /\ Numbered /\ BuffersApart /\ ShareHeld
  /\ Running /\ Buffered
  /\ Accounted /\ ShareIsRecent

\* The bounds and the sizes of the buffers.
LEMMA Bounds ==
  /\ MaxResult \in Nat /\ MaxJobs \in Nat /\ MaxBatches \in Nat /\ MaxFinds \in Nat
  BY BoundsAssumption

LEMMA InitWinners == Init => WinnersInv
<1> SUFFICES ASSUME Init PROVE WinnersInv
  OBVIOUS
<1> USE DEF Init
<1>1. TypeOK
  <2>1. /\ kind \in Kinds /\ pc = "loop" /\ jobId \in 0..MaxJobs /\ period \in Nat
        /\ idx \in Streams /\ batches \in 0..(MaxBatches + 1) /\ header \in 0..MaxJobs /\ dag \in Nat
    BY Bounds, Constants DEF Streams
  <2>2. job \in [id : 0..MaxJobs, block : Blocks \cup {0}]
        /\ share \in [nonces : SUBSET Winners, label : 0..MaxJobs]
        /\ kernel \in [code : {"none", "memory", "search"}, block : Blocks \cup {0}]
    BY Bounds DEF NoShare, NoKernel
  <2>3. /\ buf \in [Streams -> SUBSET Winners]
        /\ run \in [Streams -> [batch : 0..(MaxBatches + 1), headers : SUBSET (0..MaxJobs),
                                detached : BOOLEAN]]
    BY Bounds DEF Idle
  <2> QED
    BY <2>1, <2>2, <2>3 DEF TypeOK
<1>2. Numbered
  BY FS_EmptySet DEF Numbered
<1>3. BuffersApart /\ ShareHeld /\ Running /\ Buffered
  BY DEF BuffersApart, ShareHeld, Running, Buffered, Streams, NoShare
<1>4. Accounted /\ ShareIsRecent
  BY DEF Accounted, ShareIsRecent, Pending, Sent, NoShare, Streams
<1> QED
  BY <1>1, <1>2, <1>3, <1>4 DEF WinnersInv

\* Steps that leave the winners where they are.
LEMMA UpdateJobWinners == IInv /\ WinnersInv /\ (\E b \in Blocks : UpdateJob(b)) => WinnersInv'
<1> SUFFICES ASSUME IInv, WinnersInv, NEW b \in Blocks, UpdateJob(b) PROVE WinnersInv'
  OBVIOUS
<1> USE DEF UpdateJob, gpuVars, history
<1>1. Resolver' = Resolver /\ pc = "loop" /\ pc' \in {"memory", "constants"}
  BY DEF Resolver
<1>2. TypeOK'
  <2>1. job' \in [id : 0..MaxJobs, block : Blocks \cup {0}]
    BY Bounds DEF WinnersInv, TypeOK
  <2> QED
    BY <1>1, <2>1 DEF WinnersInv, TypeOK, Winners
<1>3. Numbered' /\ BuffersApart' /\ ShareHeld'
  BY <1>1 DEF WinnersInv, Numbered, FoundBy, BuffersApart, ShareHeld
<1>4. Running' /\ Buffered'
  BY <1>1 DEF WinnersInv, Running, Buffered, Settled, Harvesting, Buffer
<1>5. Accounted' /\ ShareIsRecent'
  BY <1>1 DEF WinnersInv, Accounted, ShareIsRecent, Pending, Sent
<1> QED
  BY <1>2, <1>3, <1>4, <1>5 DEF WinnersInv

LEMMA UpdateConstantsWinners == IInv /\ WinnersInv /\ UpdateConstants => WinnersInv'
<1> SUFFICES ASSUME IInv, WinnersInv, UpdateConstants PROVE WinnersInv'
  OBVIOUS
<1>1. /\ Resolver' = Resolver /\ pc = "constants" /\ pc' = "loop"
      /\ UNCHANGED <<kind, job, idx, share, batches, dag, buf, found, sent, dropped, lost>>
      /\ header' = job.id /\ jobId' = job.id /\ job.id > 0
  BY DEF UpdateConstants, Resolver, history, IInv, ConstantsDue
<1>2. run' \in [Streams -> [batch : 0..(MaxBatches + 1), headers : SUBSET (0..MaxJobs),
                            detached : BOOLEAN]]
      /\ \A s \in Streams : /\ run'[s].batch = run[s].batch
                            /\ run[s] = Idle => run'[s] = Idle
  BY DEF UpdateConstants, WinnersInv, TypeOK, Idle
<1>3. TypeOK'
  <2>1. job.block \in Blocks /\ period' \in Nat
        /\ kernel' \in [code : {"none", "memory", "search"}, block : Blocks \cup {0}]
    BY <1>1, EpochType DEF UpdateConstants, IInv, Types, WinnersInv, TypeOK, SearchKernel
  <2> QED
    BY <1>1, <1>2, <2>1 DEF WinnersInv, TypeOK, Winners
<1>4. Numbered' /\ BuffersApart' /\ ShareHeld'
  BY <1>1 DEF WinnersInv, Numbered, FoundBy, BuffersApart, ShareHeld
<1>5. Running' /\ Buffered'
  BY <1>1, <1>2 DEF WinnersInv, Running, Buffered, Settled, Harvesting, Buffer
<1>6. Accounted' /\ ShareIsRecent'
  BY <1>1 DEF WinnersInv, Accounted, ShareIsRecent, Pending, Sent
<1> QED
  BY <1>3, <1>4, <1>5, <1>6 DEF WinnersInv

\* updateMemory loses what the buffers hold. What it leaves is not on the way any more.
LEMMA UpdateMemoryWinners == IInv /\ WinnersInv /\ UpdateMemory => WinnersInv'
<1> SUFFICES ASSUME IInv, WinnersInv, UpdateMemory PROVE WinnersInv'
  OBVIOUS
<1>1. /\ Resolver' = Resolver /\ pc = "memory" /\ pc' = "constants"
      /\ UNCHANGED <<kind, job, jobId, period, idx, share, batches, found, sent, dropped>>
      /\ lost' = lost \cup buf[0] \cup buf[1]
      /\ buf' = [b \in Streams |-> {}]
      /\ share.nonces = {} /\ job.id > 0
  BY DEF UpdateMemory, Resolver, WinnersInv, ShareHeld, IInv, MemoryDue
<1>2. /\ run' \in [Streams -> [batch : 0..(MaxBatches + 1), headers : SUBSET (0..MaxJobs),
                               detached : BOOLEAN]]
      /\ \A s \in Streams : /\ run'[s].batch = run[s].batch /\ run'[s].headers = run[s].headers
                            /\ run[s] = Idle => run'[s] = Idle
  <2> DEFINE Runs == [batch : 0..(MaxBatches + 1), headers : SUBSET (0..MaxJobs),
                      detached : BOOLEAN]
  <2>1. run' = [s \in Streams |-> IF run[s] = Idle THEN Idle
                                  ELSE [run[s] EXCEPT !.detached = TRUE]]
    BY DEF UpdateMemory
  <2>2. run \in [Streams -> Runs]
    BY DEF WinnersInv, TypeOK
  <2>3. ASSUME NEW r \in Runs
        PROVE  /\ [r EXCEPT !.detached = TRUE] \in Runs
               /\ [r EXCEPT !.detached = TRUE].batch = r.batch
               /\ [r EXCEPT !.detached = TRUE].headers = r.headers
    BY DEF Runs
  <2> HIDE DEF Runs
  <2>4. ASSUME NEW s \in Streams
        PROVE  /\ run'[s] \in Runs
               /\ run'[s].batch = run[s].batch /\ run'[s].headers = run[s].headers
               /\ run[s] = Idle => run'[s] = Idle
    BY <2>1, <2>2, <2>3
  <2>5. run' \in [Streams -> Runs]
    BY <2>1, <2>4
  <2> QED
    BY <2>4, <2>5 DEF Runs
<1>3. TypeOK'
  <2>1. /\ dag' \in Nat /\ header' \in 0..MaxJobs
        /\ kernel' \in [code : {"none", "memory", "search"}, block : Blocks \cup {0}]
    <3>1. job.block \in Blocks /\ header' \in {header, 0} /\ dag' = Epoch(job.block)
      BY <1>1 DEF UpdateMemory, IInv, Types
    <3>2. Epoch(job.block) \in Nat
      BY <3>1, Constants, EpochType DEF WinnersInv, TypeOK
    <3>3. kernel' \in [code : {"none", "memory", "search"}, block : Blocks \cup {0}]
      BY <3>1, ResolverShape
         DEF UpdateMemory, WinnersInv, TypeOK, MemoryBuilds, SearchKernel, BuiltKernel, MemoryKernel
    <3> QED
      BY <3>1, <3>2, <3>3, Bounds DEF WinnersInv, TypeOK
  <2>2. buf' \in [Streams -> SUBSET Winners] /\ lost' \in SUBSET Winners
    BY <1>1 DEF WinnersInv, TypeOK, Streams
  <2> QED
    BY <1>1, <1>2, <2>1, <2>2 DEF WinnersInv, TypeOK, Winners
<1>4. Numbered' /\ BuffersApart' /\ ShareHeld'
  BY <1>1 DEF WinnersInv, Numbered, FoundBy, BuffersApart, ShareHeld, Streams
<1>5. Running' /\ Buffered'
  BY <1>1, <1>2 DEF WinnersInv, Running, Buffered, Settled, Harvesting
<1>6. Accounted'
  <2>1. Pending = buf[0] \cup buf[1] /\ Pending' = {} /\ Sent' = Sent
    BY <1>1 DEF Pending, Sent, Streams
  <2> QED
    BY <1>1, <2>1 DEF WinnersInv, Accounted
<1>7. ShareIsRecent'
  BY <1>1 DEF WinnersInv, ShareIsRecent
<1> QED
  BY <1>3, <1>4, <1>5, <1>6, <1>7 DEF WinnersInv

\* A launch finds the buffer of its stream empty, and the other stream done.
LEMMA LaunchWinners == IInv /\ WinnersInv /\ Launch => WinnersInv'
<1> SUFFICES ASSUME IInv, WinnersInv, Launch PROVE WinnersInv'
  OBVIOUS
<1>1. PICK s \in Streams : /\ Starts(s) /\ pc = "loop" /\ job.id > 0
                           /\ run[Other(s)] = Idle
                           /\ s = NextStream
  BY DEF Launch, LaunchSync, LaunchAsync, IInv, Types, SyncStream, Streams, Other, NextStream
<1>2. /\ Resolver' = Resolver /\ pc' = "harvest"
      /\ UNCHANGED <<kind, job, jobId, period, idx, share, header, dag, kernel, buf,
                     found, sent, dropped, lost>>
      /\ run' = [run EXCEPT ![s] = [batch |-> NextBatch, headers |-> {header}, detached |-> FALSE]]
      /\ batches' = NextBatch /\ header = job.id /\ NextStream' = NextStream
  BY <1>1 DEF Starts, Resolver, history, IInv, UpToDate, NextStream, Other
<1>3. NextBatch \in 0..(MaxBatches + 1) /\ NextBatch >= batches /\ NextBatch <= batches + 1 /\ NextBatch > 0
  BY Bounds DEF NextBatch, WinnersInv, TypeOK
<1>4. TypeOK'
  <2>1. run' \in [Streams -> [batch : 0..(MaxBatches + 1), headers : SUBSET (0..MaxJobs),
                              detached : BOOLEAN]]
    BY <1>2, <1>3 DEF WinnersInv, TypeOK
  <2> QED
    BY <1>2, <1>3, <2>1 DEF WinnersInv, TypeOK, Winners
<1>5. Numbered' /\ BuffersApart' /\ ShareHeld'
  BY <1>1, <1>2 DEF WinnersInv, Numbered, FoundBy, BuffersApart, ShareHeld
<1>6. Running'
  BY <1>1, <1>2, <1>3 DEF WinnersInv, TypeOK, Running, Settled, Harvesting, Streams, Other
<1>7. Buffered'
  <2> SUFFICES ASSUME NEW b \in Streams, NEW w \in buf[b]
               PROVE  /\ w.batch + 1 >= batches'
                      /\ b = Buffer(idx)
                      /\ Resolver.async
    BY <1>1, <1>2 DEF Buffered, Settled, Harvesting, Buffer
  <2>1. w.batch = batches /\ batches \in Nat /\ b = Buffer(idx) /\ Resolver.async
    BY <1>1 DEF WinnersInv, TypeOK, Buffered, Settled
  <2> QED
    BY <1>2, <1>3, <2>1
<1>8. Accounted' /\ ShareIsRecent'
  BY <1>1, <1>2 DEF WinnersInv, ShareHeld, Accounted, ShareIsRecent, Pending, Sent
<1> QED
  BY <1>4, <1>5, <1>6, <1>7, <1>8 DEF WinnersInv

\* Nothing was found: the streams are swapped.
LEMMA HarvestNothingWinners == IInv /\ WinnersInv /\ HarvestNothing => WinnersInv'
<1> SUFFICES ASSUME IInv, WinnersInv, HarvestNothing PROVE WinnersInv'
  OBVIOUS
<1>1. /\ Resolver' = Resolver /\ pc = "harvest" /\ pc' = "submit"
      /\ UNCHANGED <<kind, job, jobId, period, share, batches, header, dag, kernel, buf, run,
                     found, sent, dropped, lost>>
      /\ buf[Buffer(idx)] = {} /\ idx' = NextStream /\ share.nonces = {}
      /\ ~Resolver.async => run[idx] = Idle
  BY DEF HarvestNothing, Harvested, gpuVars, history, Resolver, WinnersInv, ShareHeld
<1>2. idx' \in Streams /\ idx \in Streams
  BY <1>1 DEF WinnersInv, TypeOK, NextStream, Other, Streams
<1>3. TypeOK'
  BY <1>1, <1>2 DEF WinnersInv, TypeOK, Winners
<1>4. Numbered' /\ BuffersApart' /\ ShareHeld'
  BY <1>1 DEF WinnersInv, Numbered, FoundBy, BuffersApart, ShareHeld
<1>5. Running'
  BY <1>1, <1>2 DEF WinnersInv, Running, Settled, Harvesting, NextStream
<1>6. Buffered'
  <2> SUFFICES ASSUME NEW b \in Streams, NEW w \in buf[b]
               PROVE  Resolver.async /\ b = Buffer(idx') /\ w.batch = batches
    BY <1>1 DEF Buffered, Settled, Harvesting, Buffer
  <2> QED
    BY <1>1 DEF WinnersInv, Buffered, Harvesting
<1>7. Accounted' /\ ShareIsRecent'
  BY <1>1 DEF WinnersInv, Accounted, ShareIsRecent, Pending, Sent
<1> QED
  BY <1>3, <1>4, <1>5, <1>6, <1>7 DEF WinnersInv

\* The nonces that are copied are of the batch before, or of the last one if it ended.
LEMMA ReadResultsWinners == IInv /\ WinnersInv /\ ReadResults => WinnersInv'
<1> SUFFICES ASSUME IInv, WinnersInv, ReadResults PROVE WinnersInv'
  OBVIOUS
<1>1. /\ Resolver' = Resolver /\ pc = "harvest" /\ pc' = "reset"
      /\ UNCHANGED <<kind, job, jobId, period, idx, batches, header, dag, kernel, buf, run,
                     found, sent, dropped, lost>>
      /\ share' = [nonces |-> buf[Buffer(idx)], label |-> job.id] /\ share.nonces = {}
      /\ ~Resolver.async => run[idx] = Idle
  BY DEF ReadResults, Harvested, gpuVars, history, Resolver, WinnersInv, ShareHeld
<1>2. Buffer(idx) \in Streams /\ Buffer(idx)' = Buffer(idx)
  BY <1>1, ResolverShape DEF WinnersInv, TypeOK, Buffer, Streams
<1>3. TypeOK'
  BY <1>1, <1>2 DEF WinnersInv, TypeOK, Winners
<1>4. Numbered' /\ BuffersApart' /\ ShareHeld'
  BY <1>1, <1>2 DEF WinnersInv, Numbered, FoundBy, BuffersApart, ShareHeld
<1>5. Running'
  BY <1>1 DEF WinnersInv, Running, Settled, Harvesting, NextStream
<1>6. Buffered'
  BY <1>1, <1>2 DEF WinnersInv, Buffered, Settled, Harvesting, NextStream, Buffer
<1>7. Accounted'
  <2>1. Pending' = Pending /\ Sent' = Sent
    BY <1>1, <1>2 DEF Pending, Sent, Streams
  <2> QED
    BY <1>1, <2>1 DEF WinnersInv, Accounted
<1>8. ShareIsRecent'
  <2> SUFFICES ASSUME NEW w \in buf[Buffer(idx)]
               PROVE  w.batch + 1 >= batches /\ (~Resolver.async => w.batch = batches /\ w.header = job.id)
    BY <1>1 DEF ShareIsRecent
  <2> QED
    BY <1>1, <1>2 DEF WinnersInv, Buffered, Harvesting
<1> QED
  BY <1>3, <1>4, <1>5, <1>6, <1>7, <1>8 DEF WinnersInv

\* The reset empties the buffer that was read. What it held is in resultShare, or lost.
LEMMA ResetResultsWinners == IInv /\ WinnersInv /\ ResetResults => WinnersInv'
<1> SUFFICES ASSUME IInv, WinnersInv, ResetResults PROVE WinnersInv'
  OBVIOUS
<1> DEFINE b0 == Buffer(idx)
<1>1. /\ Resolver' = Resolver /\ pc = "reset" /\ pc' = "submit"
      /\ UNCHANGED <<kind, job, jobId, period, share, batches, header, dag, kernel, run,
                     found, sent, dropped>>
      /\ lost' = lost \cup (buf[b0] \ share.nonces) /\ buf' = [buf EXCEPT ![b0] = {}]
      /\ idx' = NextStream /\ share.nonces \subseteq buf[b0]
  BY DEF ResetResults, Resolver, WinnersInv, ShareHeld
<1>2. idx' \in Streams /\ idx \in Streams /\ b0 \in Streams
  BY <1>1, ResolverShape DEF WinnersInv, TypeOK, NextStream, Other, Buffer, Streams
<1>3. /\ buf'[b0] = {} /\ \A b \in Streams : b # b0 => buf'[b] = buf[b]
      /\ \A b \in Streams : buf'[b] \subseteq buf[b]
  BY <1>1, <1>2 DEF WinnersInv, TypeOK
<1>4. TypeOK'
  <2>1. buf' \in [Streams -> SUBSET Winners] /\ lost' \in SUBSET Winners
    BY <1>1, <1>2 DEF WinnersInv, TypeOK
  <2> QED
    BY <1>1, <1>2, <2>1 DEF WinnersInv, TypeOK, Winners
<1>5. Numbered' /\ BuffersApart' /\ ShareHeld'
  BY <1>1, <1>2, <1>3 DEF WinnersInv, Numbered, FoundBy, BuffersApart, ShareHeld, Streams
<1>6. Running'
  BY <1>1, <1>2 DEF WinnersInv, Running, Settled, Harvesting, NextStream
<1>7. Buffered'
  <2> SUFFICES ASSUME NEW b \in Streams, NEW w \in buf'[b]
               PROVE  Resolver.async /\ b = Buffer(idx') /\ w.batch = batches
    BY <1>1 DEF Buffered, Settled, Harvesting, Buffer
  <2> QED
    BY <1>1, <1>3 DEF WinnersInv, Buffered, Harvesting
<1>8. Accounted'
  <2>1. /\ Pending' = share.nonces \cup buf'[0] \cup buf'[1] /\ Sent' = Sent
        /\ Pending = buf[0] \cup buf[1]
    BY <1>1, <1>2 DEF Pending, Sent, Streams
  <2>2. Pending = Pending' \cup (buf[b0] \ share.nonces)
        /\ Pending' \cap (buf[b0] \ share.nonces) = {}
    BY <1>1, <1>2, <1>3, <2>1 DEF WinnersInv, BuffersApart, Streams
  <2> QED
    BY <1>1, <2>1, <2>2 DEF WinnersInv, Accounted
<1>9. ShareIsRecent'
  BY <1>1 DEF WinnersInv, ShareIsRecent
<1> QED
  BY <1>4, <1>5, <1>6, <1>7, <1>8, <1>9 DEF WinnersInv

\* What resultShare holds was never sent, and is sent once: it is emptied.
LEMMA SubmitWinners == IInv /\ WinnersInv /\ Submit => WinnersInv'
<1> SUFFICES ASSUME IInv, WinnersInv, Submit PROVE WinnersInv'
  OBVIOUS
<1>1. /\ Resolver' = Resolver /\ pc = "submit" /\ pc' = "loop"
      /\ UNCHANGED <<kind, job, jobId, period, idx, batches, header, dag, kernel, buf, run,
                     found, lost>>
      /\ share' = NoShare
      /\ \/ dropped' = dropped \cup share.nonces /\ sent' = sent
         \/ /\ sent' = sent \cup {[nonce |-> w, label |-> share.label] : w \in share.nonces}
            /\ dropped' = dropped
  BY DEF Submit, gpuVars, Resolver
<1>2. TypeOK'
  <2>1. share' \in [nonces : SUBSET Winners, label : 0..MaxJobs]
    BY <1>1, Bounds DEF NoShare
  <2>2. share.nonces \subseteq Winners /\ share.label \in 0..MaxJobs
    BY DEF WinnersInv, TypeOK
  <2>3. sent' \in SUBSET [nonce : Winners, label : 0..MaxJobs] /\ dropped' \in SUBSET Winners
    BY <1>1, <2>2 DEF WinnersInv, TypeOK
  <2> QED
    BY <1>1, <2>1, <2>3 DEF WinnersInv, TypeOK, Winners
<1>3. Numbered' /\ BuffersApart' /\ ShareHeld'
  BY <1>1 DEF WinnersInv, Numbered, FoundBy, BuffersApart, ShareHeld, NoShare
<1>4. Running' /\ Buffered'
  BY <1>1 DEF WinnersInv, Running, Buffered, Settled, Harvesting, Buffer
<1>5. Accounted'
  <2>1. /\ Pending = share.nonces \cup Pending' /\ share.nonces \cap Pending' = {}
    BY <1>1 DEF Pending, NoShare, WinnersInv, ShareHeld
  <2>2. CASE dropped' = dropped \cup share.nonces /\ sent' = sent
    <3>1. Sent' = Sent
      BY <2>2 DEF Sent
    <3> QED
      BY <1>1, <2>1, <2>2, <3>1 DEF WinnersInv, Accounted
  <2>3. CASE /\ sent' = sent \cup {[nonce |-> w, label |-> share.label] : w \in share.nonces}
             /\ dropped' = dropped
    <3>1. Sent' = Sent \cup share.nonces
      <4> DEFINE these == {[nonce |-> w, label |-> share.label] : w \in share.nonces}
      <4>1. {s.nonce : s \in these} = share.nonces
        <5>1. \A s \in these : s.nonce \in share.nonces
          OBVIOUS
        <5>2. ASSUME NEW w \in share.nonces PROVE w \in {s.nonce : s \in these}
          <6>1. [nonce |-> w, label |-> share.label] \in these
            OBVIOUS
          <6>2. [nonce |-> w, label |-> share.label].nonce = w
            OBVIOUS
          <6> HIDE DEF these
          <6> QED
            BY <6>1, <6>2
        <5> HIDE DEF these
        <5> QED
          BY <5>1, <5>2
      <4>2. {s.nonce : s \in sent \cup these} = Sent \cup {s.nonce : s \in these}
        BY DEF Sent
      <4> QED
        BY <2>3, <4>1, <4>2 DEF Sent
    <3>2. \A s, t \in sent' : s.nonce = t.nonce => s = t
      <4>1. \A s \in sent : s.nonce \notin share.nonces
        BY <2>1 DEF WinnersInv, Accounted, Sent
      <4> QED
        BY <2>3, <4>1 DEF WinnersInv, Accounted
    <3> QED
      BY <1>1, <2>1, <2>3, <3>1, <3>2 DEF WinnersInv, Accounted
  <2> QED
    BY <1>1, <2>2, <2>3
<1>6. ShareIsRecent'
  BY <1>1 DEF ShareIsRecent, NoShare
<1> QED
  BY <1>2, <1>3, <1>4, <1>5, <1>6 DEF WinnersInv

\* A device that is killed leaves the winners where they are.
LEMMA KillWinners == IInv /\ WinnersInv /\ Kill => WinnersInv'
<1> SUFFICES ASSUME IInv, WinnersInv, Kill PROVE WinnersInv'
  OBVIOUS
<1>1. /\ Resolver' = Resolver /\ pc' = "dead"
      /\ UNCHANGED <<kind, job, jobId, period, idx, share, batches, header, dag, kernel, buf, run,
                     found, sent, dropped, lost>>
  BY DEF Kill, gpuVars, history, Resolver
<1>2. TypeOK' /\ Numbered' /\ BuffersApart' /\ ShareHeld'
  BY <1>1 DEF WinnersInv, TypeOK, Winners, Numbered, FoundBy, BuffersApart, ShareHeld
<1>3. Running' /\ Buffered'
  BY <1>1 DEF WinnersInv, Running, Buffered, Settled, Harvesting
<1>4. Accounted' /\ ShareIsRecent'
  BY <1>1 DEF WinnersInv, Accounted, ShareIsRecent, Pending, Sent
<1> QED
  BY <1>2, <1>3, <1>4 DEF WinnersInv

\* A nonce that is found is a new one.
LEMMA FindIsNew ==
  ASSUME WinnersInv, NEW w,
         w.rank = Cardinality(FoundBy(w.batch)) + 1
  PROVE  w \notin found
<1>1. IsFiniteSet(FoundBy(w.batch)) 
  BY FS_Subset DEF WinnersInv, Numbered, FoundBy
<1>2. Cardinality(FoundBy(w.batch)) \in Nat
  BY <1>1, FS_CardinalityType
<1> QED
  BY <1>2 DEF WinnersInv, Numbered

\* A nonce that is found is in the buffer of its stream, or lost.
LEMMA FindWinners == IInv /\ WinnersInv /\ (\E s \in Streams : Find(s)) => WinnersInv'
<1> SUFFICES ASSUME IInv, WinnersInv, NEW s \in Streams, Find(s) PROVE WinnersInv'
  OBVIOUS
<1> DEFINE b0 == Buffer(s)
           kept == ~run[s].detached /\ Cardinality(buf[b0]) < MaxResult
           rank == Cardinality(FoundBy(run[s].batch)) + 1
<1>1. PICK h \in run[s].headers :
        LET w == [batch |-> run[s].batch, rank |-> rank, header |-> h]
        IN  /\ found' = found \cup {w}
            /\ buf' = IF kept THEN [buf EXCEPT ![b0] = @ \cup {w}] ELSE buf
            /\ lost' = IF kept THEN lost ELSE lost \cup {w}
  BY DEF Find
<1> DEFINE new == [batch |-> run[s].batch, rank |-> rank, header |-> h]
<1>2. /\ Resolver' = Resolver /\ run[s] # Idle /\ run[s].batch <= MaxBatches /\ rank <= MaxFinds
      /\ UNCHANGED <<kind, pc, job, jobId, period, idx, share, batches, header, dag, kernel, run,
                     sent, dropped>>
  BY DEF Find, hostVars, Resolver
<1>3. /\ found' = found \cup {new}
      /\ \/ buf' = [buf EXCEPT ![b0] = @ \cup {new}] /\ lost' = lost
         \/ buf' = buf /\ lost' = lost \cup {new}
  BY <1>1
<1>4. b0 \in Streams /\ new \notin found
  <2>1. b0 \in Streams
    BY DEF Buffer, Streams
  <2>2. new.rank = Cardinality(FoundBy(new.batch)) + 1
    OBVIOUS
  <2> QED
    BY <2>1, <2>2, FindIsNew
<1>5. new \in Winners
  <2>1. rank \in 1..MaxFinds
    <3>1. IsFiniteSet(FoundBy(run[s].batch))
      BY FS_Subset DEF WinnersInv, Numbered, FoundBy
    <3>2. Cardinality(FoundBy(run[s].batch)) \in Nat
      BY <3>1, FS_CardinalityType
    <3> QED
      BY <1>2, <3>2, Bounds
  <2>2. run[s].batch \in 1..MaxBatches /\ h \in 0..MaxJobs
    <3>1. run[s].headers \subseteq 0..MaxJobs /\ run[s].batch \in 0..(MaxBatches + 1)
      BY DEF WinnersInv, TypeOK
    <3>2. run[s].batch # 0
      BY <1>2 DEF WinnersInv, Running
    <3> QED
      BY <1>2, <3>1, <3>2, Bounds
  <2> QED
    BY <2>1, <2>2 DEF Winners
<1>6. \A b \in Streams : /\ buf[b] \subseteq found
                         /\ buf'[b] \subseteq buf[b] \cup {new}
                         /\ new \in buf'[b] => b = b0
  BY <1>3, <1>4 DEF WinnersInv, TypeOK, Accounted, Pending, Streams
<1>7. TypeOK'
  <2>1. found' \in SUBSET Winners /\ lost' \in SUBSET Winners
    BY <1>3, <1>5 DEF WinnersInv, TypeOK
  <2>2. buf' \in [Streams -> SUBSET Winners]
    BY <1>3, <1>4, <1>5 DEF WinnersInv, TypeOK
  <2> QED
    BY <1>2, <2>1, <2>2 DEF WinnersInv, TypeOK, Winners
<1>8. Numbered'
  <2> DEFINE after(b) == {w \in found' : w.batch = b}
  <2>1. IsFiniteSet(found) /\ IsFiniteSet(found')
    BY <1>3, FS_AddElement DEF WinnersInv, Numbered
  <2>2. \A b : IsFiniteSet(FoundBy(b)) /\ IsFiniteSet(after(b))
    BY <2>1, FS_Subset DEF FoundBy
  <2>3. \A b : Cardinality(FoundBy(b)) \in Nat /\ Cardinality(after(b)) \in Nat
    BY <2>2, FS_CardinalityType
  <2>4. \A b : Cardinality(FoundBy(b)) <= Cardinality(after(b))
    <3>1. \A b : FoundBy(b) \subseteq after(b)
      BY <1>3 DEF FoundBy
    <3> QED
      BY <2>2, <3>1, FS_Subset
  <2>5. Cardinality(after(new.batch)) = rank
    <3>1. after(new.batch) = FoundBy(new.batch) \cup {new} /\ new \notin FoundBy(new.batch)
      BY <1>3, <1>4 DEF FoundBy
    <3> QED
      BY <2>2, <3>1, FS_AddElement
  <2>6. \A w \in found' : w.rank <= Cardinality(after(w.batch))
    <3> SUFFICES ASSUME NEW w \in found' PROVE w.rank <= Cardinality(after(w.batch))
      OBVIOUS
    <3>1. CASE w = new
      BY <2>3, <2>5, <3>1
    <3>2. CASE w \in found
      <4>1. w.rank \in Nat
        BY <3>2, Bounds DEF WinnersInv, TypeOK, Winners
      <4>2. w.rank <= Cardinality(FoundBy(w.batch))
        BY <3>2 DEF WinnersInv, Numbered
      <4> QED
        BY <2>3, <2>4, <4>1, <4>2
    <3> QED
      BY <1>3, <3>1, <3>2
  <2> QED
    BY <2>1, <2>6 DEF Numbered, FoundBy
<1>9. BuffersApart' /\ ShareHeld'
  <2>1. BuffersApart'
    BY <1>4, <1>6 DEF WinnersInv, BuffersApart, Streams
  <2>2. share.nonces \subseteq found
    BY DEF WinnersInv, Accounted, Pending
  <2>3. \A b \in Streams : buf[b] \subseteq buf'[b]
    BY <1>3, <1>4 DEF WinnersInv, TypeOK
  <2>4. pc = "reset" /\ ~Races => Buffer(idx) # b0
    BY <1>2 DEF WinnersInv, Running, Harvesting, NextStream, Races, Buffer, Other, TypeOK, Streams
  <2>5. Buffer(idx) \in Streams
    BY DEF WinnersInv, TypeOK, Buffer, Streams
  <2>6. pc = "reset" /\ ~Races => buf'[Buffer(idx)] = buf[Buffer(idx)]
    BY <1>6, <2>3, <2>4, <2>5
  <2>7. Buffer(idx)' = Buffer(idx) /\ Races' = Races
    BY <1>2 DEF Buffer, Races
  <2>8. pc = "submit" => share.nonces \cap (buf'[0] \cup buf'[1]) = {}
    BY <1>4, <1>6, <2>2 DEF WinnersInv, ShareHeld, Streams
  <2> QED
    BY <1>2, <2>1, <2>3, <2>5, <2>6, <2>7, <2>8 DEF WinnersInv, ShareHeld
<1>10. Running'
  BY <1>2 DEF WinnersInv, Running, Settled, Harvesting, NextStream
<1>11. Buffered'
  <2> SUFFICES ASSUME NEW b \in Streams, NEW w \in buf'[b]
               PROVE
    /\ Settled => Resolver.async /\ b = Buffer(idx) /\ w.batch = batches
    /\ Harvesting => /\ w.batch + 1 >= batches
                     /\ b # Buffer(idx) =>
                          Resolver.async /\ b = Buffer(NextStream) /\ w.batch = batches
                     /\ ~Resolver.async => w.batch = batches /\ w.header = job.id
    BY <1>2 DEF Buffered, Settled, Harvesting, NextStream, Buffer
  <2>1. CASE w \in buf[b]
    BY <2>1 DEF WinnersInv, Buffered
  <2>2. CASE w = new /\ b = b0
    <3>1. w.batch = batches /\ w.batch + 1 >= batches
      BY <1>2, <2>2 DEF WinnersInv, Running, TypeOK
    <3>2. (Settled => Resolver.async /\ s = idx) /\ (Harvesting => s = NextStream)
      BY <1>2 DEF WinnersInv, Running
    <3>3. Harvesting /\ ~Resolver.async => w.header = job.id
      BY <1>2, <2>2 DEF WinnersInv, Running, Harvesting
    <3> QED
      BY <2>2, <3>1, <3>2, <3>3 DEF NextStream
  <2> QED
    BY <1>6, <2>1, <2>2
<1>12. Accounted'
  <2>1. Sent' = Sent
    BY <1>2 DEF Sent
  <2>2. \/ Pending' = Pending \cup {new} /\ lost' = lost
        \/ Pending' = Pending /\ lost' = lost \cup {new}
    BY <1>2, <1>3, <1>4 DEF Pending, WinnersInv, TypeOK, Streams
  <2> QED
    BY <1>2, <1>3, <1>4, <2>1, <2>2 DEF WinnersInv, Accounted
<1>13. ShareIsRecent'
  BY <1>2 DEF WinnersInv, ShareIsRecent
<1> QED
  BY <1>7, <1>8, <1>9, <1>10, <1>11, <1>12, <1>13 DEF WinnersInv

\* A batch that ends leaves what it wrote.
LEMMA BatchEndsWinners == IInv /\ WinnersInv /\ (\E s \in Streams : BatchEnds(s)) => WinnersInv'
<1> SUFFICES ASSUME IInv, WinnersInv, NEW s \in Streams, BatchEnds(s) PROVE WinnersInv'
  OBVIOUS
<1>1. /\ Resolver' = Resolver /\ run' = [run EXCEPT ![s] = Idle]
      /\ UNCHANGED <<kind, pc, job, jobId, period, idx, share, batches, header, dag, kernel, buf,
                     found, sent, dropped, lost>>
  BY DEF BatchEnds, hostVars, history, Resolver
<1>2. TypeOK'
  <2>1. run' \in [Streams -> [batch : 0..(MaxBatches + 1), headers : SUBSET (0..MaxJobs),
                              detached : BOOLEAN]]
    BY <1>1, Bounds DEF WinnersInv, TypeOK, Idle
  <2> QED
    BY <1>1, <2>1 DEF WinnersInv, TypeOK, Winners
<1>3. Numbered' /\ BuffersApart' /\ ShareHeld'
  BY <1>1 DEF WinnersInv, Numbered, FoundBy, BuffersApart, ShareHeld, Buffer, Races
<1>4. Running'
  BY <1>1 DEF WinnersInv, TypeOK, Running, Settled, Harvesting, NextStream
<1>5. Buffered'
  BY <1>1 DEF WinnersInv, Buffered, Settled, Harvesting, NextStream, Buffer
<1>6. Accounted' /\ ShareIsRecent'
  BY <1>1 DEF WinnersInv, Accounted, ShareIsRecent, Pending, Sent
<1> QED
  BY <1>2, <1>3, <1>4, <1>5, <1>6 DEF WinnersInv

\* A step that changes nothing keeps the winners.
LEMMA StutterWinners == IInv /\ WinnersInv /\ UNCHANGED vars => WinnersInv'
<1> SUFFICES ASSUME IInv, WinnersInv, UNCHANGED vars PROVE WinnersInv'
  OBVIOUS
<1>1. /\ Resolver' = Resolver
      /\ UNCHANGED <<kind, pc, job, jobId, period, idx, share, batches, header, dag, kernel, buf,
                     run, found, sent, dropped, lost>>
  BY DEF vars, hostVars, gpuVars, history, Resolver
<1>2. TypeOK' /\ Numbered' /\ BuffersApart' /\ ShareHeld'
  BY <1>1 DEF WinnersInv, TypeOK, Winners, Numbered, FoundBy, BuffersApart, ShareHeld, Buffer, Races
<1>3. Running' /\ Buffered'
  BY <1>1 DEF WinnersInv, Running, Buffered, Settled, Harvesting, NextStream, Buffer
<1>4. Accounted' /\ ShareIsRecent'
  BY <1>1 DEF WinnersInv, Accounted, ShareIsRecent, Pending, Sent
<1> QED
  BY <1>2, <1>3, <1>4 DEF WinnersInv

LEMMA NextWinners == IInv /\ WinnersInv /\ [Next]_vars => WinnersInv'
<1> SUFFICES ASSUME IInv, WinnersInv, [Next]_vars PROVE WinnersInv'
  OBVIOUS
<1>1. CASE \E b \in Blocks : UpdateJob(b)
  BY <1>1, UpdateJobWinners
<1>2. CASE UpdateMemory
  BY <1>2, UpdateMemoryWinners
<1>3. CASE UpdateConstants
  BY <1>3, UpdateConstantsWinners
<1>4. CASE Launch
  BY <1>4, LaunchWinners
<1>5. CASE Harvest
  BY <1>5, HarvestNothingWinners, ReadResultsWinners, ResetResultsWinners DEF Harvest
<1>6. CASE Submit
  BY <1>6, SubmitWinners
<1>7. CASE Kill
  BY <1>7, KillWinners
<1>8. CASE \E s \in Streams : Find(s) \/ BatchEnds(s)
  BY <1>8, FindWinners, BatchEndsWinners
<1>9. CASE UNCHANGED vars
  BY <1>9, StutterWinners
<1> QED
  BY <1>1, <1>2, <1>3, <1>4, <1>5, <1>6, <1>7, <1>8, <1>9 DEF Next, Worker, AtRest

LEMMA WinnersInductive == Spec => []WinnersInv
<1>1. Init => WinnersInv
  BY InitWinners
<1>2. IInv /\ WinnersInv /\ [Next]_vars => WinnersInv'
  BY NextWinners
<1> QED
  BY <1>1, <1>2, Inductive, PTL DEF Spec

-----------------------------------------------------------------------------
\* The variables keep their types. In particular every winner has one of the ranks of
\* its batch and a header of a job that came, which needs the batch to be a running one.
THEOREM TypeCorrect == Spec => []TypeOK
<1>1. WinnersInv => TypeOK
  BY DEF WinnersInv
<1> QED
  BY <1>1, WinnersInductive, PTL

\* Every nonce the GPU counted is in a buffer, in resultShare, sent, dropped as stale
\* or lost, in one of these only, and none is sent twice: the copy and the reset of
\* getResultCache and the emptying of resultShare by submit are enough for that,
\* whatever the batches that run meanwhile write.
THEOREM WinnersAccounted == Spec => []Accounted
<1>1. WinnersInv => Accounted
  BY DEF WinnersInv
<1> QED
  BY <1>1, WinnersInductive, PTL

\* What getResultCache copies is of the last batch, or of the one before on a resolver
\* with two streams; without a second stream it was hashed with the header of the
\* job it is labelled with.
THEOREM SharesAreRecent == Spec => []ShareIsRecent
<1>1. WinnersInv => ShareIsRecent
  BY DEF WinnersInv
<1> QED
  BY <1>1, WinnersInductive, PTL

\* A winner is lost to updateMemory, to a full buffer, and on AMD ProgPOW to the
\* reset of the buffer that both its streams write; on every other resolver the
\* buffer that is reset holds what was copied from it and nothing else.
THEOREM LossesAreKnown == Spec => LostOnly
<1> DEFINE Known == lost' # lost => pc = "memory" \/ found' # found \/ (pc = "reset" /\ Races)
<1>1. WinnersInv /\ [Next]_vars => [Known]_vars
  <2> SUFFICES ASSUME WinnersInv, Next, lost' # lost
               PROVE  pc = "memory" \/ found' # found \/ (pc = "reset" /\ Races)
    OBVIOUS
  <2>1. CASE UpdateMemory
    BY <2>1 DEF UpdateMemory
  <2>2. CASE ResetResults
    BY <2>2 DEF ResetResults, WinnersInv, ShareHeld
  <2>3. CASE \E s \in Streams : Find(s)
    <3>1. PICK s \in Streams : Find(s)
      BY <2>3
    <3>2. PICK w : /\ w.batch = run[s].batch /\ w.rank = Cardinality(FoundBy(run[s].batch)) + 1
                   /\ found' = found \cup {w}
      BY <3>1 DEF Find
    <3>3. w \notin found
      BY <3>2, FindIsNew
    <3> QED
      BY <3>2, <3>3
  <2>4. UpdateMemory \/ ResetResults \/ \E s \in Streams : Find(s)
    BY DEF Next, Worker, UpdateJob, UpdateConstants, Launch, LaunchSync, LaunchAsync, Starts,
           Harvest, HarvestNothing, ReadResults, Submit, Kill, AtRest, BatchEnds, history, vars
  <2> QED
    BY <2>1, <2>2, <2>3, <2>4
<1> QED
  BY <1>1, WinnersInductive, PTL DEF Spec, LostOnly

=============================================================================
