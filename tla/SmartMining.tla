----------------------------- MODULE SmartMining -----------------------------
(***************************************************************************)
(* The session of the SMART_MINING profile (StratumSmartMining) and its    *)
(* algorithm switches: on smart_mining.set_algo the network thread stops   *)
(* every device, gives it a resolver of the new algorithm and starts it    *)
(* again with a new thread (DeviceManager::onSmartMiningSetAlgorithm, run, *)
(* Device::kill, setAlgorithm, run and loopDoWork), and replaces the       *)
(* stratum of the algorithm, a client that shares the session's socket.    *)
(*                                                                         *)
(* Device::run interrupts the thread it replaces and detaches it; a thread *)
(* that sleeps in waitJob does not hear the interruption, so a device may  *)
(* have several threads, numbered by the switch that started them.  The    *)
(* counters and copies of a job hand-over are one step here: DeviceSync    *)
(* takes them apart.  A job is the algorithm it is for and its epoch, every *)
(* job has a header of its own, and an answer to a share, which only       *)
(* counts, is left to SharePath.  A message that is refused, because there is no stratum   *)
(* or because its algorithm takes no extranonce, changes nothing and is no *)
(* step.                                                                   *)
(***************************************************************************)
EXTENDS Naturals

CONSTANTS
  Devices,      \* ids of the devices, in the order of DeviceManager::devices
  Enabled,      \* the devices Config::isEnable admits
  Algorithms,   \* algorithms a pool may ask for
  Unsupported,  \* those for which setResolver creates no resolver
  Unknown,      \* algo::UNKNOWN, for which NewStratum has no stratum
  Extranonced,  \* those set_extra_nonce has a case for
  Pinned,       \* those without a DAG, whose strata give every job the epoch 1
  Epochs,       \* epochs of the jobs of the others
  None,         \* no algorithm: nullptr; no epoch: -1
  MaxSwitches,  \* bound: set_algo messages
  MaxJobs       \* bound: jobs sent

ASSUME DevicesAssumption == Devices \subseteq Nat /\ Devices # {} /\ Enabled \subseteq Devices
ASSUME AlgorithmsAssumption ==
  /\ None \notin Algorithms
  /\ Unsupported \subseteq Algorithms /\ Extranonced \subseteq Algorithms /\ Pinned \subseteq Algorithms
  /\ Unknown \in Algorithms => Unknown \in Unsupported
ASSUME EpochsAssumption == Epochs \subseteq Nat /\ None \notin Nat
ASSUME BoundsAssumption == MaxSwitches \in Nat /\ MaxJobs \in Nat

VARIABLES
  \* network thread
  net,        \* where it is in onSmartMiningSetAlgorithm
  todo,       \* the devices its current loop has still to visit
  wanted,     \* the algorithm asked for
  switches,   \* set_algo messages handled
  pool,       \* the algorithm stratumPool was last made for
  told,       \* what its jobInfo has got: extranonce, target
  accepted,   \* the epoch of jobInfos[0]
  deleted,    \* socketTCP, which stratumPool shares with the session, was deleted
  \* device d, shared
  alive,      \* Device::alive
  computing,  \* Device::computing
  resolver,   \* its algorithm and the switch that created it
  next,       \* nextjobInfo
  cur,        \* currentJobInfo
  current,    \* AtomicCounter::current of its synchronizer
  last,       \* AtomicCounter::last
  memory,     \* its memory counter is pending
  built,      \* updateMemory of its resolver has succeeded
  batch,      \* the algorithm of the batch its resolver will harvest
  \* its threads
  pc,         \* pc[d][k]: where the thread started by switch k is in loopDoWork
  held,       \* held[d][k]: the resolver it is calling
  \* history
  early       \* the devices a switch killed before they were at work

netVars == <<net, todo, wanted, switches, early>>
poolVars == <<pool, told, accepted, deleted>>
jobVars == <<next, cur, current, last, memory>>
memoryVars == <<built, batch>>
vars == <<netVars, poolVars, alive, computing, resolver, jobVars, memoryVars, pc, held>>

Switches == 1..MaxSwitches
Resolvers == [algorithm : Algorithms \cup {None}, switch : 0..MaxSwitches]
NoResolver == [algorithm |-> None, switch |-> 0]
Jobs == [algorithm : Algorithms \cup {None}, epoch : Epochs \cup {1, None}]
CleanJob == [algorithm |-> None, epoch |-> None]

\* The device the loop over the devices visits next.
First(d) == d \in todo /\ \A e \in todo : d <= e

\* NewStratum has none for algo::UNKNOWN, and there is none before the first set_algo.
HasStratum == pool \notin {None, Unknown}

\* A thread of the device initializes or sleeps in waitJob: it will not hear of a kill.
AtRest(d) == \E k \in Switches : pc[d][k] \in {"initialize", "waitJob"}

-----------------------------------------------------------------------------
(***************************************************************************)
(* Network thread.                                                         *)
(***************************************************************************)

\* Mutant: the stratum is replaced before the devices are stopped.
SetAlgoFirst(algorithm) ==
  /\ net = "idle"
  /\ switches < MaxSwitches
  /\ switches' = switches + 1
  /\ wanted' = algorithm
  /\ todo' = Devices
  /\ net' = "kill"
  /\ pool' = algorithm
  /\ UNCHANGED <<early, told, accepted, deleted, alive, computing, resolver, jobVars,
                 memoryVars, pc, held>>

\* smart_mining.set_algo.
SetAlgo(algorithm) ==
  /\ net = "idle"
  /\ switches < MaxSwitches
  /\ switches' = switches + 1
  /\ wanted' = algorithm
  /\ todo' = Devices
  /\ net' = "kill"
  /\ UNCHANGED <<early, poolVars, alive, computing, resolver, jobVars, memoryVars, pc, held>>

\* device->kill(DISABLE).
Kill(d) ==
  /\ net = "kill"
  /\ First(d)
  /\ alive' = [alive EXCEPT ![d] = FALSE]
  /\ early' = IF AtRest(d) THEN early \cup {d} ELSE early
  /\ net' = "await"
  /\ UNCHANGED <<todo, wanted, switches, poolVars, computing, resolver, jobVars, memoryVars, pc, held>>

\* Mutant: the device is not waited for.
AwaitNothing(d) ==
  /\ net = "await"
  /\ First(d)
  /\ IF todo = {d} THEN net' = "resolver" /\ todo' = Devices
                   ELSE net' = "kill" /\ todo' = todo \ {d}
  /\ UNCHANGED <<wanted, switches, early, poolVars, alive, computing, resolver, jobVars, memoryVars, pc, held>>

\* while (device->isComputing()) sleep; then the next device.
Await(d) ==
  /\ net = "await"
  /\ First(d)
  /\ ~computing[d]
  /\ IF todo = {d} THEN net' = "resolver" /\ todo' = Devices
                   ELSE net' = "kill" /\ todo' = todo \ {d}
  /\ UNCHANGED <<wanted, switches, early, poolVars, alive, computing, resolver, jobVars, memoryVars, pc, held>>

\* Device::setAlgorithm: the old resolver is deleted and a new one created, unless
\* the algorithm has none; a device without a resolver is killed.
SetAlgorithm(d) ==
  LET created == IF wanted \in Unsupported THEN resolver[d]
                 ELSE [algorithm |-> wanted, switch |-> switches]
  IN /\ net = "resolver"
     /\ First(d)
     /\ resolver' = [resolver EXCEPT ![d] = created]
     /\ alive' = [alive EXCEPT ![d] = @ /\ created # NoResolver]
     /\ built' = [built EXCEPT ![d] = @ /\ created = resolver[d]]
     /\ batch' = [batch EXCEPT ![d] = IF created = resolver[d] THEN @ ELSE None]
     /\ IF todo = {d} THEN net' = "run" /\ todo' = Devices
                      ELSE todo' = todo \ {d} /\ UNCHANGED net
     /\ UNCHANGED <<wanted, switches, early, poolVars, computing, jobVars, pc, held>>

\* Mutant: the job of the last algorithm stays with the device.
RunUnclean(d) ==
  /\ net = "run"
  /\ First(d)
  /\ accepted' = None
  /\ pc' = [pc EXCEPT ![d][switches] = "initialize"]
  /\ IF todo = {d} THEN net' = "pool" /\ todo' = {}
                   ELSE todo' = todo \ {d} /\ UNCHANGED net
  /\ UNCHANGED <<wanted, switches, early, pool, told, deleted, alive, computing, resolver,
                 jobVars, memoryVars, held>>

\* Mutant: the manager keeps the last job it accepted.
RunKeepsAccepted(d) ==
  /\ net = "run"
  /\ First(d)
  /\ next' = [next EXCEPT ![d] = CleanJob]
  /\ pc' = [pc EXCEPT ![d][switches] = "initialize"]
  /\ IF todo = {d} THEN net' = "pool" /\ todo' = {}
                   ELSE todo' = todo \ {d} /\ UNCHANGED net
  /\ UNCHANGED <<wanted, switches, early, poolVars, alive, computing, resolver, cur, current, last,
                 memory, memoryVars, held>>

\* DeviceManager::run: device->cleanJob() and device->run(). Before the first device it makes
\* jobInfos, which only this thread reads, the clean job too.
Run(d) ==
  /\ net = "run"
  /\ First(d)
  /\ accepted' = None
  /\ next' = [next EXCEPT ![d] = CleanJob]
  /\ pc' = [pc EXCEPT ![d][switches] = "initialize"]
  /\ IF todo = {d} THEN net' = "pool" /\ todo' = {}
                   ELSE todo' = todo \ {d} /\ UNCHANGED net
  /\ UNCHANGED <<wanted, switches, early, pool, told, deleted, alive, computing, resolver, cur,
                 current, last, memory, memoryVars, held>>

\* stratumPool is replaced. The destructor of the old one deletes, as every client's does,
\* the socket it was given, which is the session's. What the session does with a deleted
\* socket is undefined: it may go on.
NewPool ==
  /\ net = "pool"
  /\ pool' = wanted
  /\ told' = {}
  /\ deleted' = (deleted \/ HasStratum)
  /\ net' = "idle"
  /\ UNCHANGED <<todo, wanted, switches, early, accepted, alive, computing, resolver, jobVars,
                 memoryVars, pc, held>>

\* smart_mining.set_extra_nonce.
SetExtraNonce ==
  /\ net = "idle"
  /\ pool \in Extranonced
  /\ told' = told \cup {"extranonce"}
  /\ UNCHANGED <<netVars, pool, accepted, deleted, alive, computing, resolver, jobVars,
                 memoryVars, pc, held>>

\* mining.set_target or mining.set_difficulty.
SetTarget ==
  /\ net = "idle"
  /\ HasStratum
  /\ told' = told \cup {"target"}
  /\ UNCHANGED <<netVars, pool, accepted, deleted, alive, computing, resolver, jobVars,
                 memoryVars, pc, held>>

\* mining.notify: the stratum reads the job, whole or not, and onUpdateJob gives it to
\* every device. A new epoch raises the memory counters. A stratum that cannot tell the
\* epoch of the job leaves that of the job before, or the -1 it was made with.
Notify(epoch) ==
  /\ net = "idle"
  /\ HasStratum
  /\ epoch \in IF pool \in Pinned THEN {1} ELSE Epochs \cup {accepted}
  /\ \A d \in Devices : current[d] < MaxJobs
  /\ accepted' = epoch
  /\ next' = [d \in Devices |-> [algorithm |-> pool, epoch |-> epoch]]
  /\ current' = [d \in Devices |-> current[d] + 1]
  /\ memory' = [d \in Devices |-> memory[d] \/ epoch # accepted]
  /\ UNCHANGED <<netVars, pool, told, deleted, alive, computing, resolver,
                 cur, last, memoryVars, pc, held>>

\* The part of a switch that goes on once it has begun.
Switch ==
  \/ \E d \in Devices : Kill(d) \/ Await(d) \/ SetAlgorithm(d) \/ Run(d)
  \/ NewPool

Network ==
  \/ Switch \/ SetExtraNonce \/ SetTarget
  \/ \E e \in Epochs \cup {1, None} : Notify(e)
  \/ \E a \in Algorithms : SetAlgo(a)

-----------------------------------------------------------------------------
(***************************************************************************)
(* loopDoWork, by thread k of device d.                                    *)
(***************************************************************************)
Goto(d, k, from, to) == pc[d][k] = from /\ pc' = [pc EXCEPT ![d][k] = to]

StartDisabled(d, k) ==
  /\ d \notin Enabled
  /\ Goto(d, k, "initialize", "done")
  /\ alive' = [alive EXCEPT ![d] = FALSE]
  /\ UNCHANGED <<netVars, poolVars, computing, resolver, jobVars, memoryVars, held>>

\* initialize() fails, or the device has no resolver.
StartFails(d, k) ==
  /\ d \in Enabled
  /\ Goto(d, k, "initialize", "done")
  /\ UNCHANGED <<netVars, poolVars, alive, computing, resolver, jobVars, memoryVars, held>>

Start(d, k) ==
  /\ d \in Enabled
  /\ resolver[d] # NoResolver
  /\ Goto(d, k, "initialize", "waitJob")
  /\ alive' = [alive EXCEPT ![d] = TRUE]
  /\ UNCHANGED <<netVars, poolVars, computing, resolver, jobVars, memoryVars, held>>

\* waitJob returns; computing = true, before alive is read.
WaitJob(d, k) ==
  /\ current[d] # last[d]
  /\ Goto(d, k, "waitJob", "test")
  /\ computing' = [computing EXCEPT ![d] = TRUE]
  /\ UNCHANGED <<netVars, poolVars, alive, resolver, jobVars, memoryVars, held>>

\* Mutant: the loop goes on as long as there is a resolver.
EnterKilled(d, k) ==
  /\ resolver[d] # NoResolver
  /\ Goto(d, k, "test", "updateJob")
  /\ held' = [held EXCEPT ![d][k] = resolver[d]]
  /\ UNCHANGED <<netVars, poolVars, alive, computing, resolver, jobVars, memoryVars>>

\* The loop's condition.
Enter(d, k) ==
  /\ alive[d] /\ resolver[d] # NoResolver
  /\ Goto(d, k, "test", "updateJob")
  /\ held' = [held EXCEPT ![d][k] = resolver[d]]
  /\ UNCHANGED <<netVars, poolVars, alive, computing, resolver, jobVars, memoryVars>>

\* The loop is left: cleanUp, computing = false.
Leave(d, k) ==
  /\ ~(alive[d] /\ resolver[d] # NoResolver)
  /\ Goto(d, k, "test", "done")
  /\ computing' = [computing EXCEPT ![d] = FALSE]
  /\ held' = [held EXCEPT ![d][k] = NoResolver]
  /\ UNCHANGED <<netVars, poolVars, alive, resolver, jobVars, memoryVars>>

\* updateJob with a job to take: the copy, then updateMemory if its counter is pending.
TakeJob(d, k) ==
  /\ current[d] # last[d]
  /\ Goto(d, k, "updateJob", IF memory[d] THEN "updateMemory" ELSE "updateConstants")
  /\ cur' = [cur EXCEPT ![d] = next[d]]
  /\ last' = [last EXCEPT ![d] = current[d]]
  /\ memory' = [memory EXCEPT ![d] = FALSE]
  /\ UNCHANGED <<netVars, poolVars, alive, computing, resolver, next, current, memoryVars, held>>

\* updateJob has nothing to do.
KeepJob(d, k) ==
  /\ current[d] = last[d]
  /\ Goto(d, k, "updateJob", "execute")
  /\ UNCHANGED <<netVars, poolVars, alive, computing, resolver, jobVars, memoryVars, held>>

\* updateMemory and then updateConstants: false kills the device and ends the iteration.
UpdateMemory(d, k) ==
  \E memoryOk, ok \in BOOLEAN :
    /\ ok => memoryOk
    /\ Goto(d, k, "updateMemory", "test")
    /\ built' = [built EXCEPT ![d] = @ \/ memoryOk]
    /\ alive' = [alive EXCEPT ![d] = @ /\ ok]
    /\ UNCHANGED <<netVars, poolVars, computing, resolver, jobVars, batch, held>>

\* The same without a new epoch.
UpdateConstants(d, k) ==
  \E ok \in BOOLEAN :
    /\ Goto(d, k, "updateConstants", "test")
    /\ alive' = [alive EXCEPT ![d] = @ /\ ok]
    /\ UNCHANGED <<netVars, poolVars, computing, resolver, jobVars, memoryVars, held>>

\* executeAsync: the batch of the last call is harvested and another dispatched. The
\* clean job has no target, so that its batch finds nothing.
Execute(d, k) ==
  \E ok, found \in BOOLEAN :
    /\ found => ok /\ batch[d] # None
    /\ Goto(d, k, "execute", IF found THEN "submit" ELSE "test")
    /\ alive' = [alive EXCEPT ![d] = @ /\ ok]
    /\ batch' = [batch EXCEPT ![d] = IF ok THEN cur[d].algorithm ELSE @]
    /\ UNCHANGED <<netVars, poolVars, computing, resolver, jobVars, built, held>>

\* The winners are handed to miningSubmit of stratumPool, which is not locked.
Submit(d, k) ==
  /\ Goto(d, k, "submit", "test")
  /\ UNCHANGED <<netVars, poolVars, alive, computing, resolver, jobVars, memoryVars, held>>

Worker(d, k) ==
  \/ StartDisabled(d, k) \/ StartFails(d, k) \/ Start(d, k)
  \/ WaitJob(d, k) \/ Enter(d, k) \/ Leave(d, k) \/ TakeJob(d, k) \/ KeepJob(d, k)
  \/ UpdateMemory(d, k) \/ UpdateConstants(d, k) \/ Execute(d, k) \/ Submit(d, k)

Init ==
  /\ net = "idle"
  /\ todo = {}
  /\ wanted = None
  /\ switches = 0
  /\ pool = None
  /\ told = {}
  /\ accepted = None
  /\ deleted = FALSE
  /\ alive = [d \in Devices |-> FALSE]
  /\ computing = [d \in Devices |-> FALSE]
  /\ resolver = [d \in Devices |-> NoResolver]
  /\ next = [d \in Devices |-> CleanJob]
  /\ cur = [d \in Devices |-> CleanJob]
  /\ current = [d \in Devices |-> 0]
  /\ last = [d \in Devices |-> 0]
  /\ memory = [d \in Devices |-> FALSE]
  /\ built = [d \in Devices |-> FALSE]
  /\ batch = [d \in Devices |-> None]
  /\ pc = [d \in Devices |-> [k \in Switches |-> "none"]]
  /\ held = [d \in Devices |-> [k \in Switches |-> NoResolver]]
  /\ early = {}

\* The bounds are reached and every thread is over, or waits for a job.
Over ==
  /\ net = "idle"
  /\ switches = MaxSwitches
  /\ \A d \in Devices, k \in Switches :
       pc[d][k] \in {"none", "done"} \/ (pc[d][k] = "waitJob" /\ current[d] = last[d])
  /\ UNCHANGED vars

Next == Network \/ (\E d \in Devices, k \in Switches : Worker(d, k)) \/ Over

\* Threads that can run do; the pool need not send anything.
Fairness ==
  /\ WF_vars(Switch)
  /\ \A d \in Devices, k \in Switches : WF_vars(Worker(d, k))

Spec == Init /\ [][Next]_vars
FairSpec == Spec /\ Fairness

-----------------------------------------------------------------------------
TypeOK ==
  /\ net \in {"idle", "kill", "await", "resolver", "run", "pool"}
  /\ todo \subseteq Devices
  /\ wanted \in Algorithms \cup {None}
  /\ switches \in 0..MaxSwitches
  /\ pool \in Algorithms \cup {None}
  /\ told \subseteq {"extranonce", "target"}
  /\ accepted \in Epochs \cup {1, None}
  /\ deleted \in BOOLEAN
  /\ alive \in [Devices -> BOOLEAN]
  /\ computing \in [Devices -> BOOLEAN]
  /\ resolver \in [Devices -> Resolvers]
  /\ next \in [Devices -> Jobs]
  /\ cur \in [Devices -> Jobs]
  /\ current \in [Devices -> 0..MaxJobs]
  /\ \A d \in Devices : last[d] \in 0..current[d]
  /\ memory \in [Devices -> BOOLEAN]
  /\ built \in [Devices -> BOOLEAN]
  /\ batch \in [Devices -> Algorithms \cup {None}]
  /\ pc \in [Devices -> [Switches -> {"none", "initialize", "waitJob", "test",
                                      "updateJob", "updateMemory", "updateConstants", "execute",
                                      "submit", "done"}]]
  /\ held \in [Devices -> [Switches -> Resolvers]]
  /\ early \subseteq Devices

Working(d, k) == pc[d][k] \in {"updateJob", "updateMemory", "updateConstants", "execute", "submit"}

\* setAlgorithm deletes a resolver only when no thread is calling it. The exception is a
\* device that was killed before it was at work: kill() does not join, so its thread
\* survives and calls the resolvers of later switches.
ResolverOutlivesCalls ==
  \A d \in Devices \ early, k \in Switches : Working(d, k) => held[d][k] = resolver[d]

\* onSmartMiningSetAlgorithm waits without limit for each device it killed: the device stops
\* computing, unless it was killed before it was at work, when its thread sets alive again.
AwaitEnds ==
  \A d \in Devices :
    net = "await" /\ First(d) /\ d \notin early ~> ~(net = "await" /\ First(d))

\* ARCHITECTURE.md gives a device one thread, and has kill() join it: so it is but for
\* the devices killed before they were at work.
OneThread ==
  \A d \in Devices \ early, j, k \in Switches : Working(d, j) /\ Working(d, k) => j = k

\* setAlgorithm is to "instantiate correct Resolver subclass": what a device executes is a
\* job of its resolver's algorithm, or the clean job, whose epoch no resolver can search.
\* The exception is the algorithm that has a stratum and no resolver: the old one stays
\* and is given the jobs.
RightResolver ==
  \A d \in Devices \ early, k \in Switches :
    pc[d][k] = "execute" => cur[d].algorithm \in {resolver[d].algorithm, None} \cup Unsupported

\* A device that submits is not stopped yet, so that the stratum it reaches through
\* stratumPool is there and of the algorithm its resolver found the shares of, or of one
\* that has no resolver.
SubmitsToItsPool ==
  \A d \in Devices \ early, k \in Switches :
    pc[d][k] = "submit" => pool \in {resolver[d].algorithm} \cup Unsupported

\* A new resolver is told to build its memory only by the epoch of the first job, so that
\* no job with an epoch is executed without it: not even when the next algorithm's jobs
\* have the epoch of the last one's, since run() makes the manager forget it.
MemoryIsBuilt ==
  \A d \in Devices \ early, k \in Switches : pc[d][k] = "execute" /\ cur[d].epoch # None => built[d]

\* SMART_MINING.md switches coins "during your mining session": its socket is
\* still there after a switch. Does not hold: the stratum that is replaced deletes it.
SocketOutlivesSwitch == net = "idle" => ~deleted

\* Only jobs with their extranonce and target are handed to the devices, as isValidJob has
\* it for the other sessions. Does not hold: here onUpdateJob is called whatever it says.
WholeJobsOnly == [][current' = current \/ told = {"extranonce", "target"}]_vars
=============================================================================
