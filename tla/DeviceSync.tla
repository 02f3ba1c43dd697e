----------------------------- MODULE DeviceSync -----------------------------
(***************************************************************************)
(* The hand-off of mining jobs from the network thread of one stratum to   *)
(* the worker threads of the devices bound to it.                          *)
(*                                                                         *)
(* The network thread (DeviceManager::onUpdateJob, Device::update) writes  *)
(* nextjobInfo and then raises the counters of the device's synchronizer;  *)
(* the worker (Device::loopDoWork, Device::updateJob) compares the         *)
(* counters with the values it last consumed, snapshots them, copies       *)
(* nextjobInfo into currentJobInfo and brings its resolver up to date.     *)
(* StratumJobInfo::copy locks the mutex of its destination only, so the    *)
(* two copies of nextjobInfo (into it, and out of it) exclude nobody:      *)
(* every field is a step of its own.                                       *)
(*                                                                         *)
(* A job is an epoch (which DAG it needs) and a header (its constants).    *)
(* Of its nonce only the slice is kept: the pool's start nonce belongs to  *)
(* slice 0, and adding gapNonce * id moves it to slice id.                 *)
(***************************************************************************)
EXTENDS Naturals

CONSTANTS
  Devices,   \* ids of the devices bound to the stratum, as indices in DeviceManager::devices
  Epochs,    \* epochs a pool may announce
  Headers,   \* header hashes (or header blobs) a pool may announce
  NoEpoch,   \* epoch of a default StratumJobInfo (-1)
  NoHeader,  \* header of a default StratumJobInfo (all zero)
  MaxJobs    \* bound: jobs accepted by onUpdateJob in a behaviour

ASSUME DevicesAssumption == Devices \subseteq Nat /\ Devices # {}
ASSUME DefaultsAssumption == NoEpoch \notin Epochs /\ NoHeader \notin Headers
ASSUME MaxJobsAssumption == MaxJobs \in Nat

VARIABLES
  \* network thread, under DeviceManager::mtxJobInfo
  jobInfo,   \* jobInfos[stratumUUID]: the last job accepted
  accepted,  \* number of jobs accepted, for the bound
  netPc,     \* where the network thread is in onUpdateJob / update
  netDev,    \* the device it is updating
  todo,      \* the devices it has still to update
  flags,     \* updateMemory and updateConstants of this dispatch
  \* shared between the two threads
  next,      \* next[d]: nextjobInfo of device d
  current,   \* current[d]: AtomicCounter::current of synchronizer.job/constant/memory
  \* worker thread of device d
  alive,     \* Device::alive
  pc,        \* where the worker is in loopDoWork / updateJob
  last,      \* last[d]: AtomicCounter::last of the three counters
  need,      \* needUpdateConstant and needUpdateMemory
  snap,      \* currentAtomicJob / Constant / Memory
  cur,       \* currentJobInfo
  resolver   \* epoch of the resolver's DAG, header in its constants

netVars == <<jobInfo, accepted, netPc, netDev, todo, flags>>
devVars == <<alive, pc, last, need, snap, cur, resolver>>
vars == <<netVars, next, current, devVars>>

Jobs == [epoch : Epochs, header : Headers]
EmptyJob == [epoch |-> NoEpoch, header |-> NoHeader]

\* A StratumJobInfo as a device keeps it.
Infos == [epoch : Epochs \cup {NoEpoch}, header : Headers \cup {NoHeader},
          slice : Devices \cup {0}]
EmptyInfo == [epoch |-> NoEpoch, header |-> NoHeader, slice |-> 0]

\* The work device d is meant to do for job j.
Sliced(j, d) == [epoch |-> j.epoch, header |-> j.header, slice |-> d]

Counters == [job : Nat, constant : Nat, memory : Nat]
Zero == [job |-> 0, constant |-> 0, memory |-> 0]

NetPcs == {"idle", "device", "header", "nonce", "offset", "constant", "memory", "job"}

WorkerPcs == {"initialize", "waitJob", "loop", "needConstant", "needMemory",
              "getJob", "getConstant", "getMemory",
              "copyEpoch", "copyHeader", "copyNonce",
              "updateMemory", "updateConstants", "execute", "cleanUp", "done"}

-----------------------------------------------------------------------------
(***************************************************************************)
(* Network thread.                                                         *)
(***************************************************************************)

\* DeviceManager::onUpdateJob: the job is compared with the last one accepted.
\* A job with the same epoch and header is skipped; any other one is kept and
\* handed to the devices one after the other.
IsSameEpoch(j) == jobInfo.epoch = j.epoch
IsSameHeader(j) == jobInfo.header = j.header

SkipJob(j) ==
  /\ netPc = "idle"
  /\ IsSameEpoch(j) /\ IsSameHeader(j)
  /\ UNCHANGED vars

AcceptJob(j) ==
  /\ netPc = "idle"
  /\ ~(IsSameEpoch(j) /\ IsSameHeader(j))
  /\ accepted < MaxJobs
  /\ accepted' = accepted + 1
  /\ flags' = [memory |-> ~IsSameEpoch(j), constants |-> ~IsSameHeader(j)]
  /\ jobInfo' = j
  /\ todo' = Devices
  /\ netPc' = "device"
  /\ UNCHANGED <<netDev, next, current, devVars>>

\* Device::update, called for the devices in the order of DeviceManager::devices.
\* nextjobInfo.copy(newJobInfo) writes the epoch first, ...
UpdateEpoch(d) ==
  /\ netPc = "device"
  /\ d \in todo /\ \A e \in todo : d <= e
  /\ todo' = todo \ {d}
  /\ netDev' = d
  /\ next' = [next EXCEPT ![d].epoch = jobInfo.epoch]
  /\ netPc' = "header"
  /\ UNCHANGED <<jobInfo, accepted, flags, current, devVars>>

\* ... then the hashes, ...
UpdateHeader ==
  /\ netPc = "header"
  /\ next' = [next EXCEPT ![netDev].header = jobInfo.header]
  /\ netPc' = "nonce"
  /\ UNCHANGED <<jobInfo, accepted, netDev, todo, flags, current, devVars>>

\* ... then the nonce of the pool, and releases the mutex.
UpdateNonce ==
  /\ netPc = "nonce"
  /\ next' = [next EXCEPT ![netDev].slice = 0]
  /\ netPc' = "offset"
  /\ UNCHANGED <<jobInfo, accepted, netDev, todo, flags, current, devVars>>

\* Mutant: the device's offset is never added to the pool's nonce.
UpdateOffsetMissing ==
  /\ netPc = "offset"
  /\ netPc' = "constant"
  /\ UNCHANGED <<jobInfo, accepted, netDev, todo, flags, next, current, devVars>>

\* nextjobInfo.nonce += gapNonce * id, outside the mutex.
UpdateOffset ==
  /\ netPc = "offset"
  /\ next' = [next EXCEPT ![netDev].slice = netDev]
  /\ netPc' = "constant"
  /\ UNCHANGED <<jobInfo, accepted, netDev, todo, flags, current, devVars>>

\* The counters are raised in this order: constant, memory, job.
AddConstant ==
  /\ netPc = "constant"
  /\ current' = IF flags.constants
                THEN [current EXCEPT ![netDev].constant = @ + 1]
                ELSE current
  /\ netPc' = "memory"
  /\ UNCHANGED <<jobInfo, accepted, netDev, todo, flags, next, devVars>>

AddMemory ==
  /\ netPc = "memory"
  /\ current' = IF flags.memory
                THEN [current EXCEPT ![netDev].memory = @ + 1]
                ELSE current
  /\ netPc' = "job"
  /\ UNCHANGED <<jobInfo, accepted, netDev, todo, flags, next, devVars>>

AddJob ==
  /\ netPc = "job"
  /\ current' = [current EXCEPT ![netDev].job = @ + 1]
  /\ netPc' = IF todo = {} THEN "idle" ELSE "device"
  /\ UNCHANGED <<jobInfo, accepted, netDev, todo, flags, next, devVars>>

Update ==
  \/ \E d \in Devices : UpdateEpoch(d)
  \/ UpdateHeader \/ UpdateNonce \/ UpdateOffset
  \/ AddConstant \/ AddMemory \/ AddJob

-----------------------------------------------------------------------------
(***************************************************************************)
(* Worker thread of device d.                                              *)
(***************************************************************************)

Goto(d, from, to) ==
  /\ pc[d] = from
  /\ pc' = [pc EXCEPT ![d] = to]

\* loopDoWork: a disabled device is killed, a device whose initialize() fails or
\* that has no resolver returns; the others come alive and wait for a job.
Start(d) ==
  /\ Goto(d, "initialize", "waitJob")
  /\ alive' = [alive EXCEPT ![d] = TRUE]
  /\ UNCHANGED <<netVars, next, current, last, need, snap, cur, resolver>>

StartFails(d) ==
  /\ Goto(d, "initialize", "done")
  /\ UNCHANGED <<netVars, next, current, alive, last, need, snap, cur, resolver>>

WaitJob(d) ==
  /\ current[d].job # last[d].job
  /\ Goto(d, "waitJob", "loop")
  /\ UNCHANGED <<netVars, next, current, alive, last, need, snap, cur, resolver>>

\* The loop ends when the device is no longer alive: clean up, computing = false.
LeaveLoop(d) ==
  /\ ~alive[d]
  /\ Goto(d, "loop", "cleanUp")
  /\ UNCHANGED <<netVars, next, current, alive, last, need, snap, cur, resolver>>

CleanUp(d) ==
  /\ Goto(d, "cleanUp", "done")
  /\ UNCHANGED <<netVars, next, current, alive, last, need, snap, cur, resolver>>

\* updateJob reads the three counters one after the other ...
NeedJob(d) ==
  /\ alive[d]
  /\ Goto(d, "loop", IF current[d].job # last[d].job THEN "needConstant" ELSE "execute")
  /\ UNCHANGED <<netVars, next, current, alive, last, need, snap, cur, resolver>>

NeedConstant(d) ==
  /\ Goto(d, "needConstant", "needMemory")
  /\ need' = [need EXCEPT ![d].constant = current[d].constant # last[d].constant]
  /\ UNCHANGED <<netVars, next, current, alive, last, snap, cur, resolver>>

\* ... and returns false when neither the constants nor the memory changed.
NeedMemory(d) ==
  LET changed == current[d].memory # last[d].memory IN
  /\ Goto(d, "needMemory",
          IF need[d].constant \/ changed THEN "getJob" ELSE "execute")
  /\ need' = [need EXCEPT ![d].memory = changed]
  /\ UNCHANGED <<netVars, next, current, alive, last, snap, cur, resolver>>

\* It then takes its snapshot of the counters: job, constant, memory.
GetJob(d) ==
  /\ Goto(d, "getJob", "getConstant")
  /\ snap' = [snap EXCEPT ![d].job = current[d].job]
  /\ UNCHANGED <<netVars, next, current, alive, last, need, cur, resolver>>

GetConstant(d) ==
  /\ Goto(d, "getConstant", "getMemory")
  /\ snap' = [snap EXCEPT ![d].constant = current[d].constant]
  /\ UNCHANGED <<netVars, next, current, alive, last, need, cur, resolver>>

GetMemory(d) ==
  /\ Goto(d, "getMemory", "copyEpoch")
  /\ snap' = [snap EXCEPT ![d].memory = current[d].memory]
  /\ UNCHANGED <<netVars, next, current, alive, last, need, cur, resolver>>

\* currentJobInfo.copy(nextjobInfo) locks currentJobInfo, not nextjobInfo.
CopyEpoch(d) ==
  /\ Goto(d, "copyEpoch", "copyHeader")
  /\ cur' = [cur EXCEPT ![d].epoch = next[d].epoch]
  /\ UNCHANGED <<netVars, next, current, alive, last, need, snap, resolver>>

CopyHeader(d) ==
  /\ Goto(d, "copyHeader", "copyNonce")
  /\ cur' = [cur EXCEPT ![d].header = next[d].header]
  /\ UNCHANGED <<netVars, next, current, alive, last, need, snap, resolver>>

\* Mutant: synchronizer.job is updated to the live counter, not to the snapshot.
CopyNonceLive(d) ==
  /\ Goto(d, "copyNonce", "updateMemory")
  /\ cur' = [cur EXCEPT ![d].slice = next[d].slice]
  /\ last' = [last EXCEPT ![d].job = current[d].job]
  /\ UNCHANGED <<netVars, next, current, alive, need, snap, resolver>>

\* The last field, then synchronizer.job.update(snapshot).
CopyNonce(d) ==
  /\ Goto(d, "copyNonce", "updateMemory")
  /\ cur' = [cur EXCEPT ![d].slice = next[d].slice]
  /\ last' = [last EXCEPT ![d].job = snap[d].job]
  /\ UNCHANGED <<netVars, next, current, alive, need, snap, resolver>>

\* Mutant: synchronizer.memory is updated to the live counter.
UpdateMemoryLive(d) ==
  /\ Goto(d, "updateMemory", "updateConstants")
  /\ IF need[d].memory
     THEN /\ last' = [last EXCEPT ![d].memory = current[d].memory]
          /\ resolver' = [resolver EXCEPT ![d].epoch = cur[d].epoch]
     ELSE UNCHANGED <<last, resolver>>
  /\ UNCHANGED <<netVars, next, current, alive, need, snap, cur>>

\* resolver->updateMemory(currentJobInfo) when the memory changed.
UpdateMemory(d) ==
  /\ Goto(d, "updateMemory", "updateConstants")
  /\ IF need[d].memory
     THEN /\ last' = [last EXCEPT ![d].memory = snap[d].memory]
          /\ resolver' = [resolver EXCEPT ![d].epoch = cur[d].epoch]
     ELSE UNCHANGED <<last, resolver>>
  /\ UNCHANGED <<netVars, next, current, alive, need, snap, cur>>

\* A rebuild that fails kills the device; the old DAG may be gone by then.
UpdateMemoryFails(d) ==
  /\ need[d].memory
  /\ Goto(d, "updateMemory", "loop")
  /\ last' = [last EXCEPT ![d].memory = snap[d].memory]
  /\ \E e \in {resolver[d].epoch, NoEpoch} :
        resolver' = [resolver EXCEPT ![d].epoch = e]
  /\ alive' = [alive EXCEPT ![d] = FALSE]
  /\ UNCHANGED <<netVars, next, current, need, snap, cur>>

\* resolver->updateConstants(currentJobInfo) when the constants changed.
UpdateConstants(d) ==
  /\ Goto(d, "updateConstants", "loop")
  /\ IF need[d].constant
     THEN /\ last' = [last EXCEPT ![d].constant = snap[d].constant]
          /\ resolver' = [resolver EXCEPT ![d].header = cur[d].header]
     ELSE UNCHANGED <<last, resolver>>
  /\ UNCHANGED <<netVars, next, current, alive, need, snap, cur>>

UpdateConstantsFails(d) ==
  /\ need[d].constant
  /\ Goto(d, "updateConstants", "loop")
  /\ last' = [last EXCEPT ![d].constant = snap[d].constant]
  /\ alive' = [alive EXCEPT ![d] = FALSE]
  /\ UNCHANGED <<netVars, next, current, need, snap, cur, resolver>>

\* resolver->executeAsync(currentJobInfo), share submission, next nonces.
Execute(d) ==
  /\ Goto(d, "execute", "loop")
  /\ UNCHANGED <<netVars, next, current, alive, last, need, snap, cur, resolver>>

ExecuteFails(d) ==
  /\ Goto(d, "execute", "loop")
  /\ alive' = [alive EXCEPT ![d] = FALSE]
  /\ UNCHANGED <<netVars, next, current, last, need, snap, cur, resolver>>

Worker(d) ==
  \/ Start(d) \/ StartFails(d) \/ WaitJob(d) \/ LeaveLoop(d) \/ CleanUp(d)
  \/ NeedJob(d) \/ NeedConstant(d) \/ NeedMemory(d)
  \/ GetJob(d) \/ GetConstant(d) \/ GetMemory(d)
  \/ CopyEpoch(d) \/ CopyHeader(d) \/ CopyNonce(d)
  \/ UpdateMemory(d) \/ UpdateMemoryFails(d)
  \/ UpdateConstants(d) \/ UpdateConstantsFails(d)
  \/ Execute(d) \/ ExecuteFails(d)

-----------------------------------------------------------------------------
Init ==
  /\ jobInfo = EmptyJob
  /\ accepted = 0
  /\ netPc = "idle"
  /\ netDev \in Devices
  /\ todo = {}
  /\ flags = [memory |-> FALSE, constants |-> FALSE]
  /\ next = [d \in Devices |-> EmptyInfo]
  /\ current = [d \in Devices |-> Zero]
  /\ alive = [d \in Devices |-> FALSE]
  /\ pc = [d \in Devices |-> "initialize"]
  /\ last = [d \in Devices |-> Zero]
  /\ need = [d \in Devices |-> [constant |-> FALSE, memory |-> FALSE]]
  /\ snap = [d \in Devices |-> Zero]
  /\ cur = [d \in Devices |-> EmptyInfo]
  /\ resolver = [d \in Devices |-> [epoch |-> NoEpoch, header |-> NoHeader]]

Network ==
  \/ \E j \in Jobs : SkipJob(j) \/ AcceptJob(j)
  \/ Update

Next == Network \/ \E d \in Devices : Worker(d)

\* The operating system runs both threads: an update that has begun is carried
\* through, and a worker that can step does. Pools need not send anything.
Fairness == WF_vars(Update) /\ \A d \in Devices : WF_vars(Worker(d))

Spec == Init /\ [][Next]_vars
FairSpec == Spec /\ Fairness

-----------------------------------------------------------------------------
(***************************************************************************)
(* Properties.                                                             *)
(***************************************************************************)

TypeOK ==
  /\ jobInfo \in Jobs \cup {EmptyJob}
  /\ accepted \in 0..MaxJobs
  /\ netPc \in NetPcs
  /\ netDev \in Devices
  /\ todo \subseteq Devices
  /\ flags \in [memory : BOOLEAN, constants : BOOLEAN]
  /\ next \in [Devices -> Infos]
  /\ current \in [Devices -> Counters]
  /\ alive \in [Devices -> BOOLEAN]
  /\ pc \in [Devices -> WorkerPcs]
  /\ last \in [Devices -> Counters]
  /\ need \in [Devices -> [constant : BOOLEAN, memory : BOOLEAN]]
  /\ snap \in [Devices -> Counters]
  /\ cur \in [Devices -> Infos]
  /\ resolver \in [Devices -> [epoch : Epochs \cup {NoEpoch},
                               header : Headers \cup {NoHeader}]]

\* The network thread is inside onUpdateJob and not yet done with device d.
Dispatching(d) ==
  \/ d \in todo
  \/ netDev = d /\ netPc \in {"header", "nonce", "offset", "constant", "memory", "job"}

Computing(d) == alive[d] /\ pc[d] \in {"loop", "execute"}

\* updateJob() would return false: the worker keeps computing what it has.
NothingToUpdate(d) ==
  \/ current[d].job = last[d].job
  \/ /\ current[d].constant = last[d].constant
     /\ current[d].memory = last[d].memory

\* No job is lost: once the network thread is done with a device, a worker that
\* sees nothing to update holds the last accepted job, whole and in its own
\* slice of the nonces, however the two copies and the counters interleaved.
NoJobLost ==
  \A d \in Devices :
    (Computing(d) /\ ~Dispatching(d) /\ NothingToUpdate(d))
      => cur[d] = Sliced(jobInfo, d)

\* The first counter this dispatch raises for device d is still to be raised.
Unannounced(d) ==
  /\ netDev = d
  /\ \/ netPc \in {"header", "nonce", "offset", "constant"}
     \/ netPc = "memory" /\ ~flags.constants

\* The copies may tear a job, but a device that hashes outside its own slice
\* (nonces another device is hashing too) does so only until it sees the counter
\* that announces the job: the tear cannot outlive the dispatch that caused it.
ForeignSliceIsPending ==
  \A d \in Devices :
    (Computing(d) /\ cur[d].slice # d)
      => \/ Unannounced(d)
         \/ current[d].constant # last[d].constant
         \/ current[d].memory # last[d].memory

\* A device hashes with a DAG of another epoch than its job's only while its
\* memory counter is pending or about to be raised: no rebuild is forgotten.
StaleDagIsPending ==
  \A d \in Devices :
    (Computing(d) /\ resolver[d].epoch # cur[d].epoch)
      => \/ netDev = d /\ flags.memory
            /\ netPc \in {"header", "nonce", "offset", "constant", "memory"}
         \/ current[d].memory # last[d].memory

\* The same for the header the resolver hashes and its constant counter.
StaleHeaderIsPending ==
  \A d \in Devices :
    (Computing(d) /\ resolver[d].header # cur[d].header)
      => \/ netDev = d /\ flags.constants
            /\ netPc \in {"header", "nonce", "offset", "constant"}
         \/ current[d].constant # last[d].constant

\* Device::updateJob is called again after an update because "a new job can spawn
\* during the update": when it then finds nothing to update, the DAG should be
\* the one the job needs. It need not be: a memory counter raised between the
\* test of needUpdateMemory and the snapshots is left for the next job. No cfg
\* lists it: TLC refutes it when it is added to MCDeviceSync.cfg.
DagCurrentWhenSettled ==
  \A d \in Devices :
    (Computing(d) /\ ~Dispatching(d) /\ NothingToUpdate(d))
      => resolver[d].epoch = cur[d].epoch

\* A worker catches up with the network thread unless it stopped or never came up.
CatchesUp ==
  \A d \in Devices :
    []<>(\/ jobInfo = EmptyJob
         \/ cur[d] = Sliced(jobInfo, d)
         \/ pc[d] = "done")

=============================================================================
