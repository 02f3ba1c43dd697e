------------------------------ MODULE CpuBlake3 ------------------------------
(***************************************************************************)
(* resolver::ResolverCpuBlake3 under the loop of its device: two batch     *)
(* buffers, a pool of workers that scans one of them, and the shares that  *)
(* are harvested, labelled and submitted.                                  *)
(*                                                                         *)
(* The device's thread alternates Device::updateJob, executeAsync and      *)
(* submit; the pool's workers run the chunk callback, which reads the      *)
(* buffer that currentIndexStream selects at that moment.  The pool is     *)
(* taken by its specification, ParallelFor, which CpuThreadPool implements.*)
(* A job is its number: it stands for the header the workers hash and for  *)
(* the job id the pool knows it by.                                        *)
(***************************************************************************)
EXTENDS Integers, FiniteSets

CONSTANTS
  Count,           \* blocks * threads: the nonces of a batch
  InternalLoop,    \* config.occupancy.internalLoop
  MaxResult,       \* algo::blake3::MAX_RESULT
  Stale,           \* config.mining.stale
  MaxJobs,         \* bound: jobs of a behaviour
  MaxBatchesOfJob  \* bound: batches dispatched for one job

ASSUME CountAssumption == Count \in Nat \ {0}
ASSUME InternalLoopAssumption == InternalLoop \in Nat \ {0}
ASSUME MaxResultAssumption == MaxResult \in Nat \ {0}
ASSUME StaleAssumption == Stale \in BOOLEAN
ASSUME BoundsAssumption == MaxJobs \in Nat \ {0} /\ MaxBatchesOfJob \in Nat \ {0}

VARIABLES
  \* the device's thread
  devicePc,            \* where it is in loopDoWork and executeAsync
  jobInfo,             \* Device::currentJobInfo: its job and its next nonce
  jobId,               \* Resolver::jobId
  currentIndexStream,  \* the buffer in use
  inFlight,            \* a batch was dispatched and not waited for
  resultShare,         \* the shares to submit and the label they will carry
  \* shared with the workers
  batch,               \* the two buffers
  busy, scans,         \* the pool, as ParallelFor describes it
  \* history
  scanned,             \* every candidate hashed
  found,               \* the winners kept in a result buffer
  sent, dropped        \* the winners submitted, with their label, and discarded

deviceVars == <<jobInfo, jobId, currentIndexStream, inFlight, resultShare>>
parallelVars == <<busy, scans>>
history == <<scanned, found, sent, dropped>>
blakeVars == <<devicePc, deviceVars, batch, parallelVars, history>>

Pool == INSTANCE ParallelFor WITH Counts <- {Count}

\* The indices of the batch in flight nobody has hashed.
pending == Pool!Pending

Buffers == {0, 1}
Candidates == [header : 1..MaxJobs, nonce : Nat]
Empty == [header |-> 0, base |-> 0, hits |-> {}]
NoShare == [label |-> 0, hits |-> {}]

\* The bound on the batches of one job.
MayExecute == jobInfo.nonce < MaxBatchesOfJob * Count * InternalLoop

-----------------------------------------------------------------------------
\* Device::updateJob with new constants, or waitJob before the first job.
UpdateJob ==
  /\ devicePc \in {"waitJob", "loop"}
  /\ jobInfo.job < MaxJobs
  /\ jobInfo' = [job |-> jobInfo.job + 1, nonce |-> 0]
  /\ jobId' = jobInfo'.job
  /\ devicePc' = "loop"
  /\ UNCHANGED <<currentIndexStream, inFlight, resultShare, batch, parallelVars, history>>

\* executeAsync: nothing was dispatched before, or ...
FirstBatch ==
  /\ devicePc = "loop"
  /\ MayExecute
  /\ ~inFlight
  /\ devicePc' = "prepare"
  /\ UNCHANGED <<deviceVars, batch, parallelVars, history>>

\* Mutant: the harvested winners stay in their buffer.
HarvestKeeps ==
  LET done == batch[currentIndexStream]
  IN /\ devicePc = "loop"
     /\ MayExecute
     /\ inFlight
     /\ Pool!Finish
     /\ IF done.hits # {}
        THEN resultShare' = [label |-> jobInfo.job, hits |-> done.hits]
        ELSE UNCHANGED resultShare
     /\ devicePc' = "prepare"
     /\ UNCHANGED <<jobInfo, jobId, currentIndexStream, inFlight, batch, history>>

\* ... the pool is waited for and its buffer harvested: the winners get the job
\* id of the live job.
Harvest ==
  LET done == batch[currentIndexStream]
  IN /\ devicePc = "loop"
     /\ MayExecute
     /\ inFlight
     /\ Pool!Finish
     /\ IF done.hits # {}
        THEN /\ resultShare' = [label |-> jobInfo.job, hits |-> done.hits]
             /\ batch' = [batch EXCEPT ![currentIndexStream].hits = {}]
        ELSE UNCHANGED <<resultShare, batch>>
     /\ devicePc' = "prepare"
     /\ UNCHANGED <<jobInfo, jobId, currentIndexStream, inFlight, history>>

\* swapIndexStream and prepareBatch: the idle buffer gets the job by value.
Prepare ==
  /\ devicePc = "prepare"
  /\ currentIndexStream' = 1 - currentIndexStream
  /\ batch' = [batch EXCEPT ![currentIndexStream'] =
                 [header |-> jobInfo.job, base |-> jobInfo.nonce, hits |-> {}]]
  /\ devicePc' = "dispatch"
  /\ UNCHANGED <<jobInfo, jobId, inFlight, resultShare, parallelVars, history>>

\* Mutant: the dispatched batch is not marked, so it is not waited for.
DispatchUnmarked ==
  /\ devicePc = "dispatch"
  /\ Pool!Dispatch(Count)
  /\ devicePc' = "submit"
  /\ UNCHANGED <<deviceVars, batch, history>>

\* threadPool.runAsync(count).
Dispatch ==
  /\ devicePc = "dispatch"
  /\ Pool!Dispatch(Count)
  /\ inFlight' = TRUE
  /\ devicePc' = "submit"
  /\ UNCHANGED <<jobInfo, jobId, currentIndexStream, resultShare, batch, history>>

\* isStale: the label is compared with the job id of the last constants.
IsStale(label) == ~Stale /\ jobId # label

\* submit: the shares are sent or, when stale, dropped; resultShare is cleared.
Submit ==
  /\ devicePc = "submit"
  /\ IF IsStale(resultShare.label)
     THEN dropped' = dropped \cup resultShare.hits /\ UNCHANGED sent
     ELSE /\ sent' = sent \cup [share : resultShare.hits, label : {resultShare.label}]
          /\ UNCHANGED dropped
  /\ resultShare' = NoShare
  /\ devicePc' = "advance"
  /\ UNCHANGED <<jobInfo, jobId, currentIndexStream, inFlight, batch, parallelVars,
                 scanned, found>>

\* Mutant: the next batch starts one nonce late.
AdvanceOneMore ==
  /\ devicePc = "advance"
  /\ jobInfo' = [jobInfo EXCEPT !.nonce = @ + Count * InternalLoop + 1]
  /\ devicePc' = "loop"
  /\ UNCHANGED <<jobId, currentIndexStream, inFlight, resultShare, batch, parallelVars, history>>

\* Mutant: the next batch starts one nonce early.
AdvanceOneLess ==
  /\ devicePc = "advance"
  /\ jobInfo' = [jobInfo EXCEPT !.nonce = @ + Count * InternalLoop - 1]
  /\ devicePc' = "loop"
  /\ UNCHANGED <<jobId, currentIndexStream, inFlight, resultShare, batch, parallelVars, history>>

\* currentJobInfo.nonce += miningStats.getBatchNonce().
Advance ==
  /\ devicePc = "advance"
  /\ jobInfo' = [jobInfo EXCEPT !.nonce = @ + Count * InternalLoop]
  /\ devicePc' = "loop"
  /\ UNCHANGED <<jobId, currentIndexStream, inFlight, resultShare, batch, parallelVars, history>>

\* The device is killed: its loop ends and its resolver may be deleted.
LeaveLoop ==
  /\ devicePc = "loop"
  /\ devicePc' = "cleanUp"
  /\ UNCHANGED <<deviceVars, batch, parallelVars, history>>

\* ~ResolverCpuBlake3 waits for the batch in flight before its buffers are freed.
Destroy ==
  /\ devicePc = "cleanUp"
  /\ IF inFlight THEN Pool!Finish ELSE UNCHANGED parallelVars
  /\ inFlight' = FALSE
  /\ devicePc' = "destroyed"
  /\ UNCHANGED <<jobInfo, jobId, currentIndexStream, resultShare, batch, history>>

Device ==
  \/ UpdateJob
  \/ FirstBatch \/ Harvest \/ Prepare \/ Dispatch
  \/ Submit \/ Advance \/ LeaveLoop \/ Destroy

-----------------------------------------------------------------------------
\* The candidates of a slice of the batch in buffer b.
CandidatesOf(b, slice) == {[header |-> batch[b].header, nonce |-> batch[b].base + i] : i \in slice}

\* The result has room for MAX_RESULT nonces.
Fits(hits) == Cardinality(hits) <= MaxResult

\* hashChunk on the current buffer: some of the slice wins, and as many winners as
\* fit are kept.
HashChunk(slice, kept) ==
  LET b == currentIndexStream
      hashed == CandidatesOf(b, slice)
  IN /\ Pool!Scan(slice)
     /\ kept \subseteq hashed
     /\ Fits(batch[b].hits \cup kept)
     /\ batch' = [batch EXCEPT ![b].hits = @ \cup kept]
     /\ scanned' = scanned \cup hashed
     /\ found' = found \cup kept
     /\ UNCHANGED <<devicePc, deviceVars, sent, dropped>>

PoolWork ==
  \E slice \in SUBSET pending :
    \E kept \in SUBSET CandidatesOf(currentIndexStream, slice) : HashChunk(slice, kept)

\* Nothing is left to do once the resolver is gone.
Over ==
  /\ devicePc = "destroyed"
  /\ UNCHANGED blakeVars

BlakeInit ==
  /\ devicePc = "waitJob"
  /\ jobInfo = [job |-> 0, nonce |-> 0]
  /\ jobId = 0
  /\ currentIndexStream = 0
  /\ inFlight = FALSE
  /\ resultShare = NoShare
  /\ batch = [b \in Buffers |-> Empty]
  /\ Pool!Init
  /\ scanned = {}
  /\ found = {}
  /\ sent = {}
  /\ dropped = {}

BlakeNext == Device \/ PoolWork \/ Over

BlakeSpec == BlakeInit /\ [][BlakeNext]_blakeVars

-----------------------------------------------------------------------------
BlakeTypeOK ==
  /\ devicePc \in {"waitJob", "loop", "prepare", "dispatch", "submit", "advance",
             "cleanUp", "destroyed"}
  /\ jobInfo \in [job : 0..MaxJobs, nonce : Nat]
  /\ jobId \in 0..MaxJobs
  /\ currentIndexStream \in Buffers
  /\ inFlight \in BOOLEAN
  /\ resultShare.label \in 0..MaxJobs /\ resultShare.hits \subseteq Candidates
  /\ \A b \in Buffers : /\ batch[b].header \in 0..MaxJobs /\ batch[b].base \in Nat
                        /\ batch[b].hits \subseteq Candidates
                        /\ Cardinality(batch[b].hits) <= MaxResult
  /\ busy \in BOOLEAN
  /\ scans \in [DOMAIN scans -> Nat] /\ DOMAIN scans \subseteq 0..(Count - 1)

\* The winners that wait in a buffer or in resultShare.
Held == batch[0].hits \cup batch[1].hits \cup resultShare.hits
Settled == dropped \cup {s.share : s \in sent}

\* Every winner that was kept is held, sent or dropped, and none is sent or dropped
\* while it is still held, which would submit it again.
SharesAccounted == found = Held \cup Settled /\ Held \cap Settled = {}

\* While the workers scan, the device's thread swaps no buffer and rewrites none of
\* what they read: a winner belongs to the header and the nonce range it was
\* dispatched with.
BatchIsStable ==
  [][busy /\ busy' =>
       /\ currentIndexStream' = currentIndexStream
       /\ LET b == currentIndexStream
          IN /\ batch'[b].header = batch[b].header
             /\ batch'[b].base = batch[b].base
             /\ batch[b].hits \subseteq batch'[b].hits]_blakeVars

\* No candidate is hashed twice ...
ScannedOnce ==
  [][\A slice \in SUBSET pending :
       Pool!Scan(slice) => CandidatesOf(currentIndexStream, slice) \cap scanned = {}]_blakeVars

\* ... and none is skipped: with one internal loop, when a batch is prepared every
\* nonce of the job below it was hashed.
NoNonceSkipped ==
  (devicePc = "prepare" /\ jobInfo.job > 0) =>
    \A n \in 0..(jobInfo.nonce - 1) : [header |-> jobInfo.job, nonce |-> n] \in scanned

\* cpu/blake3.hpp: the label is the live job's, "and submit() drops anything gone
\* stale".  A winner of the job before is harvested under the new job's id, so
\* submit() takes it for a share of the new job and sends it: this does not hold.
StaleIsDropped == ~Stale => \A s \in sent : s.label = s.share.header
=============================================================================
