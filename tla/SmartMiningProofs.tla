-------------------------- MODULE SmartMiningProofs --------------------------
(***************************************************************************)
(* Switching algorithms, for any devices, algorithms and number of         *)
(* switches and jobs, and for a pool that may switch at any time: a device *)
(* has one thread that works, its resolver is not deleted under a call,    *)
(* has its memory when it executes a job, and what it executes and submits *)
(* is of the algorithm of its resolver and of the stratum.  All of it      *)
(* holds for a device as long as no switch has killed it before it was at  *)
(* work, which is when its thread survives the kill.                       *)
(***************************************************************************)
EXTENDS SmartMining, TLAPS

Gone(d, k) == pc[d][k] \in {"none", "done"}
InLoop(d, k) == pc[d][k] = "test" \/ Working(d, k)

\* Between two switches, and while the devices are being stopped.
Settled == net \in {"idle", "kill", "await"}

\* Of the devices that are being stopped, the one that is waited for.
Awaited(d) == net = "await" /\ First(d)

\* Only the thread of the last switch is there; while the devices are stopped it is the
\* one of the switch before, and in its loop once its device was killed.
OneThreadLives ==
  \A d \in Devices \ early, k \in Switches :
    /\ k > switches => pc[d][k] = "none"
    /\ k = switches /\ (net \in {"kill", "await", "resolver"} \/ (net = "run" /\ d \in todo)) =>
         pc[d][k] = "none"
    /\ k < switches /\ ~Gone(d, k) =>
         /\ net \in {"kill", "await"} /\ d \in todo
         /\ k + 1 = switches
         /\ Awaited(d) => InLoop(d, k)

LoopingIsComputing ==
  \A d \in Devices \ early, k \in Switches : InLoop(d, k) => computing[d]

ThreadInv ==
  /\ TypeOK
  /\ OneThreadLives
  /\ LoopingIsComputing
  /\ ResolverOutlivesCalls

\* The resolvers are of the algorithm of the stratum, unless there is no resolver of it, or
\* on their way from the last algorithm to the one asked for.
ResolverOf(d) == [algorithm |-> wanted, switch |-> switches]
Keeps == Settled \/ wanted \in Unsupported
ResolversFollow ==
  /\ net # "idle" => wanted \in Algorithms
  /\ \A d \in Devices :
       /\ resolver[d].switch <= switches
       /\ Keeps => pool \in {resolver[d].algorithm} \cup Unsupported
       /\ net \in {"kill", "await"} \/ (net = "resolver" /\ d \in todo) =>
            resolver[d].switch < switches
       /\ ~Keeps /\ (net \in {"run", "pool"} \/ d \notin todo) => resolver[d] = ResolverOf(d)

\* The job announced last is of that algorithm, and has the epoch the manager compares with;
\* there is none until the stratum is replaced.
Fits(d, a) == a \in {resolver[d].algorithm, None} \cup Unsupported
JobsFollow ==
  /\ net = "pool" => accepted = None
  /\ \A d \in Devices :
       /\ Settled => Fits(d, next[d].algorithm) /\ next[d].epoch = accepted
       /\ net = "pool" \/ (net = "run" /\ d \notin todo) => next[d] = CleanJob

\* So are the batch that will be harvested and the job a device works on, once it took one.
Taken(d) == IF Settled THEN Fits(d, cur[d].algorithm) ELSE cur[d] = CleanJob
WorkFollows ==
  \A d \in Devices \ early :
    /\ Keeps => Fits(d, batch[d])
    /\ ~Keeps /\ (net \in {"run", "pool"} \/ d \notin todo) => batch[d] = None
    /\ \A k \in Switches :
         /\ InLoop(d, k) => \/ Taken(d)
                            \/ pc[d][k] \in {"test", "updateJob"} /\ current[d] # last[d]
         /\ pc[d][k] = "submit" => Keeps

JobInv == ResolversFollow /\ JobsFollow /\ WorkFollows

\* A job that has an epoch finds the memory built or about to be, in the counter or in the
\* hands of the thread, unless the thread is leaving; so does the one to take.
Lost(d, k) == pc[d][k] = "test" /\ ~alive[d]
MemoryInv ==
  \A d \in Devices \ early, k \in Switches :
    /\ ~Gone(d, k) /\ next[d].epoch # None =>
         built[d] \/ memory[d] \/ pc[d][k] = "updateMemory" \/ Lost(d, k)
    /\ InLoop(d, k) /\ cur[d].epoch # None =>
         \/ built[d] \/ pc[d][k] = "updateMemory" \/ Lost(d, k)
         \/ pc[d][k] \in {"test", "updateJob"} /\ current[d] # last[d]

-----------------------------------------------------------------------------
Pcs == {"none", "initialize", "waitJob", "test", "updateJob", "updateMemory",
        "updateConstants", "execute", "submit", "done"}
WorkPcs == {"updateJob", "updateMemory", "updateConstants", "execute", "submit"}
LoopPcs == {"test"} \cup WorkPcs

LEMMA PcTypes ==
  ASSUME TypeOK, NEW d \in Devices, NEW k \in Switches
  PROVE  /\ pc[d][k] \in Pcs /\ k \in Nat /\ k >= 1 /\ k <= MaxSwitches
         /\ switches \in Nat /\ switches <= MaxSwitches /\ MaxSwitches \in Nat
         /\ InLoop(d, k) <=> pc[d][k] \in LoopPcs
         /\ Working(d, k) <=> pc[d][k] \in WorkPcs
         /\ Working(d, k) => InLoop(d, k)
         /\ InLoop(d, k) => ~Gone(d, k)
<1>1. pc[d][k] \in Pcs
  BY DEF TypeOK, Pcs
<1>2. MaxSwitches \in Nat
  BY BoundsAssumption
<1>3. k \in Nat /\ k >= 1 /\ k <= MaxSwitches /\ switches \in Nat /\ switches <= MaxSwitches
  BY <1>2 DEF TypeOK, Switches
<1> QED
  BY <1>1, <1>2, <1>3 DEF InLoop, Working, Gone, LoopPcs, WorkPcs

\* A device has at most one thread that is not over.
LEMMA OneIsNotGone ==
  ASSUME ThreadInv, NEW d \in Devices \ early, NEW j \in Switches, NEW k \in Switches,
         ~Gone(d, j), ~Gone(d, k)
  PROVE  j = k
<1>1. TypeOK
  BY DEF ThreadInv
<1>2. /\ j \in Nat /\ k \in Nat /\ switches \in Nat /\ switches <= MaxSwitches
      /\ MaxSwitches \in Nat /\ j >= 1 /\ k >= 1
  BY <1>1, PcTypes
<1>3. j <= switches /\ k <= switches
  BY <1>2 DEF ThreadInv, OneThreadLives, Gone
<1>4. ASSUME NEW i \in Switches, i < switches, ~Gone(d, i)
      PROVE  i + 1 = switches /\ switches \in Switches /\ Gone(d, switches)
  <2>1. net \in {"kill", "await"} /\ i + 1 = switches
    BY <1>4 DEF ThreadInv, OneThreadLives
  <2>2. switches \in Switches
    BY <1>2, <2>1 DEF Switches
  <2> QED
    BY <2>1, <2>2 DEF ThreadInv, OneThreadLives, Gone
<1> QED
  BY <1>2, <1>3, <1>4

\* Once the devices are stopped nobody is there until its device runs again.
LEMMA NobodyLives ==
  ASSUME ThreadInv, NEW d \in Devices \ early, NEW k \in Switches,
         net = "resolver" \/ (net = "run" /\ d \in todo)
  PROVE  Gone(d, k)
<1>1. k \in Nat /\ switches \in Nat
  BY PcTypes DEF ThreadInv
<1>2. CASE k > switches
  BY <1>2 DEF ThreadInv, OneThreadLives, Gone
<1>3. CASE k = switches
  BY <1>3 DEF ThreadInv, OneThreadLives, Gone
<1>4. CASE k < switches
  BY <1>4 DEF ThreadInv, OneThreadLives, Gone
<1> QED
  BY <1>1, <1>2, <1>3, <1>4

-----------------------------------------------------------------------------
(***************************************************************************)
(* Types.                                                                  *)
(***************************************************************************)
LEMMA NetworkTypes ==
  ASSUME TypeOK, Network
  PROVE  TypeOK'
<1> USE DEF TypeOK, netVars, poolVars, jobVars, memoryVars
<1>1. ASSUME NEW a \in Algorithms, SetAlgo(a) PROVE TypeOK'
  BY <1>1, BoundsAssumption DEF SetAlgo
<1>2. ASSUME NEW d \in Devices, Kill(d) PROVE TypeOK'
  BY <1>2 DEF Kill
<1>3. ASSUME NEW d \in Devices, Await(d) PROVE TypeOK'
  BY <1>3 DEF Await
<1>4. ASSUME NEW d \in Devices, SetAlgorithm(d) PROVE TypeOK'
  <2> DEFINE created == IF wanted \in Unsupported THEN resolver[d]
                        ELSE [algorithm |-> wanted, switch |-> switches]
  <2>1. created \in Resolvers
    BY DEF Resolvers
  <2> HIDE DEF created
  <2>2. /\ net = "resolver"
        /\ resolver' = [resolver EXCEPT ![d] = created]
        /\ alive' = [alive EXCEPT ![d] = @ /\ created # NoResolver]
        /\ built' = [built EXCEPT ![d] = @ /\ created = resolver[d]]
        /\ batch' = [batch EXCEPT ![d] = IF created = resolver[d] THEN @ ELSE None]
        /\ IF todo = {d} THEN net' = "run" /\ todo' = Devices
                         ELSE todo' = todo \ {d} /\ UNCHANGED net
        /\ UNCHANGED <<wanted, switches, early, poolVars, computing, jobVars, pc, held>>
    BY <1>4 DEF SetAlgorithm, created
  <2>3. resolver' \in [Devices -> Resolvers] /\ batch' \in [Devices -> Algorithms \cup {None}]
    BY <2>1, <2>2
  <2>4. alive' \in [Devices -> BOOLEAN] /\ built' \in [Devices -> BOOLEAN]
    BY <2>2
  <2> QED
    BY <2>2, <2>3, <2>4
<1>5. ASSUME NEW d \in Devices, Run(d) PROVE TypeOK'
  <2>1. CleanJob \in Jobs
    BY DEF CleanJob, Jobs
  <2> QED
    BY <1>5, <2>1 DEF Run
<1>6. ASSUME NewPool PROVE TypeOK'
  BY <1>6 DEF NewPool
<1>7. ASSUME SetExtraNonce \/ SetTarget PROVE TypeOK'
  BY <1>7 DEF SetExtraNonce, SetTarget
<1>8. ASSUME NEW e \in Epochs \cup {1, None}, Notify(e) PROVE TypeOK'
  <2>1. /\ accepted' = e /\ pool # None
        /\ next' = [d \in Devices |-> [algorithm |-> pool, epoch |-> e]]
        /\ current' = [d \in Devices |-> current[d] + 1]
        /\ memory' = [d \in Devices |-> memory[d] \/ e # accepted]
        /\ \A d \in Devices : current[d] < MaxJobs
        /\ UNCHANGED <<netVars, pool, told, deleted, alive, computing, resolver,
                       cur, last, memoryVars, pc, held>>
    BY <1>8 DEF Notify, HasStratum
  <2>2. current' \in [Devices -> 0..MaxJobs] /\ \A d \in Devices : last'[d] \in 0..current'[d]
    BY <2>1, BoundsAssumption
  <2>3. memory' \in [Devices -> BOOLEAN]
    BY <2>1
  <2>4. next' \in [Devices -> Jobs]
    BY <2>1 DEF Jobs
  <2> QED
    BY <2>1, <2>2, <2>3, <2>4
<1> QED
  BY <1>1, <1>2, <1>3, <1>4, <1>5, <1>6, <1>7, <1>8 DEF Network, Switch

LEMMA WorkerTypes ==
  ASSUME TypeOK, NEW d \in Devices, NEW k \in Switches, Worker(d, k)
  PROVE  TypeOK'
<1> USE DEF TypeOK, netVars, poolVars, jobVars, memoryVars, Goto
<1>1. CASE StartDisabled(d, k)
  BY <1>1 DEF StartDisabled
<1>10. CASE StartFails(d, k)
  BY <1>10 DEF StartFails
<1>11. CASE Start(d, k)
  BY <1>11 DEF Start
<1>2. CASE WaitJob(d, k)
  BY <1>2 DEF WaitJob
<1>3. CASE Enter(d, k)
  BY <1>3 DEF Enter
<1>4. CASE Leave(d, k)
  BY <1>4, BoundsAssumption DEF Leave, NoResolver, Resolvers
<1>5. CASE TakeJob(d, k)
  BY <1>5 DEF TakeJob
<1>6. CASE KeepJob(d, k)
  BY <1>6 DEF KeepJob
<1>12. CASE Submit(d, k)
  BY <1>12 DEF Submit
<1>7. CASE UpdateMemory(d, k)
  BY <1>7 DEF UpdateMemory
<1>8. CASE UpdateConstants(d, k)
  BY <1>8 DEF UpdateConstants
<1>9. CASE Execute(d, k)
  <2>1. cur[d].algorithm \in Algorithms \cup {None}
    BY DEF Jobs
  <2> QED
    BY <1>9, <2>1 DEF Execute
<1> QED
  BY <1>1, <1>2, <1>3, <1>4, <1>5, <1>6, <1>7, <1>8, <1>9, <1>10, <1>11,
     <1>12 DEF Worker

-----------------------------------------------------------------------------
(***************************************************************************)
(* One thread that works.                                                  *)
(***************************************************************************)

\* A step of a thread that neither enters nor leaves the loop, takes no resolver and
\* touches no flag the others read.
LEMMA LoopStep ==
  ASSUME ThreadInv, TypeOK', NEW d \in Devices, NEW k \in Switches,
         NEW from \in Pcs \ {"none", "done"}, NEW to \in Pcs \ {"none"},
         Goto(d, k, from, to),
         to \in LoopPcs <=> from \in LoopPcs,
         to \in WorkPcs => from \in WorkPcs,
         UNCHANGED <<net, todo, switches, early, resolver, held, computing>>
  PROVE  ThreadInv'
<1>1. TypeOK
  BY DEF ThreadInv
<1>2. /\ pc[d][k] = from /\ pc'[d][k] = to
      /\ \A e \in Devices, j \in Switches : <<e, j>> # <<d, k>> => pc'[e][j] = pc[e][j]
  BY <1>1 DEF Goto, TypeOK
<1>3. /\ InLoop(d, k) <=> from \in LoopPcs
      /\ InLoop(d, k)' <=> to \in LoopPcs
      /\ Working(d, k)' <=> to \in WorkPcs
      /\ Working(d, k) <=> from \in WorkPcs
      /\ ~Gone(d, k)
  BY <1>2 DEF InLoop, Working, Gone, LoopPcs, WorkPcs
<1>4. \A e \in Devices, j \in Switches :
        /\ InLoop(e, j)' <=> InLoop(e, j)
        /\ Working(e, j)' => Working(e, j)
        /\ Gone(e, j) => Gone(e, j)' /\ (pc[e][j] = "none" => pc'[e][j] = "none")
  BY <1>2, <1>3 DEF InLoop, Working, Gone
<1>5. OneThreadLives'
  <2> SUFFICES ASSUME NEW e \in Devices \ early, NEW j \in Switches
               PROVE  /\ j > switches => pc'[e][j] = "none"
                      /\ j = switches /\ (net \in {"kill", "await", "resolver"}
                                          \/ (net = "run" /\ e \in todo)) => pc'[e][j] = "none"
                      /\ j < switches /\ ~Gone(e, j)' =>
                           /\ net \in {"kill", "await"} /\ e \in todo
                           /\ j + 1 = switches
                           /\ Awaited(e) => InLoop(e, j)'
    BY DEF OneThreadLives, Awaited, First
  <2>1. pc[e][j] = "none" => pc'[e][j] = "none"
    BY <1>4 DEF Gone
  <2>2. ~Gone(e, j)' => ~Gone(e, j)
    BY <1>4
  <2> QED
    BY <1>4, <2>1, <2>2 DEF ThreadInv, OneThreadLives
<1>6. LoopingIsComputing'
  BY <1>4 DEF ThreadInv, LoopingIsComputing
<1>7. ResolverOutlivesCalls'
  BY <1>4 DEF ThreadInv, ResolverOutlivesCalls
<1> QED
  BY <1>5, <1>6, <1>7 DEF ThreadInv

\* waitJob returns.
LEMMA WaitJobThreads ==
  ASSUME ThreadInv, TypeOK', NEW d \in Devices, NEW k \in Switches, WaitJob(d, k)
  PROVE  ThreadInv'
<1>1. /\ pc[d][k] = "waitJob" /\ pc'[d][k] = "test"
      /\ \A e \in Devices, j \in Switches : <<e, j>> # <<d, k>> => pc'[e][j] = pc[e][j]
      /\ computing'[d] = TRUE /\ \A e \in Devices \ {d} : computing'[e] = computing[e]
      /\ UNCHANGED <<net, todo, switches, early, resolver, held>>
  BY DEF WaitJob, Goto, ThreadInv, TypeOK, netVars
<1>2. ~Gone(d, k) /\ ~InLoop(d, k) /\ InLoop(d, k)' /\ ~Working(d, k)'
  BY <1>1 DEF Gone, InLoop, Working
<1>3. \A e \in Devices, j \in Switches : <<e, j>> # <<d, k>> =>
        /\ InLoop(e, j)' <=> InLoop(e, j)
        /\ Working(e, j)' <=> Working(e, j)
        /\ Gone(e, j)' <=> Gone(e, j)
  BY <1>1 DEF InLoop, Working, Gone
<1>4. \A e \in Devices, j \in Switches :
        /\ Gone(e, j)' <=> Gone(e, j)
        /\ InLoop(e, j) => InLoop(e, j)'
        /\ pc[e][j] = "none" => pc'[e][j] = "none"
  BY <1>1, <1>2, <1>3 DEF Gone
<1>5. OneThreadLives'
  BY <1>1, <1>4 DEF ThreadInv, OneThreadLives, Awaited, First
<1>6. LoopingIsComputing'
  BY <1>1, <1>3 DEF ThreadInv, LoopingIsComputing
<1>7. ResolverOutlivesCalls'
  BY <1>1, <1>2, <1>3 DEF ThreadInv, ResolverOutlivesCalls
<1> QED
  BY <1>5, <1>6, <1>7 DEF ThreadInv

\* The loop's condition holds.
LEMMA EnterThreads ==
  ASSUME ThreadInv, TypeOK', NEW d \in Devices, NEW k \in Switches, Enter(d, k)
  PROVE  ThreadInv'
<1>1. /\ pc[d][k] = "test" /\ pc'[d][k] = "updateJob"
      /\ \A e \in Devices, j \in Switches : <<e, j>> # <<d, k>> => /\ pc'[e][j] = pc[e][j]
                                                                   /\ held'[e][j] = held[e][j]
      /\ held'[d][k] = resolver[d]
      /\ UNCHANGED <<net, todo, switches, early, resolver, computing>>
  BY DEF Enter, Goto, ThreadInv, TypeOK, netVars
<1>2. ~Gone(d, k) /\ ~Gone(d, k)' /\ InLoop(d, k) /\ InLoop(d, k)'
  BY <1>1 DEF Gone, InLoop, Working
<1>3. \A e \in Devices, j \in Switches : <<e, j>> # <<d, k>> =>
        /\ InLoop(e, j)' <=> InLoop(e, j)
        /\ Working(e, j)' <=> Working(e, j)
        /\ Gone(e, j)' <=> Gone(e, j)
  BY <1>1 DEF InLoop, Working, Gone
<1>4. OneThreadLives'
  <2>1. \A e \in Devices, j \in Switches :
          /\ InLoop(e, j)' <=> InLoop(e, j)
          /\ Gone(e, j)' <=> Gone(e, j)
          /\ pc[e][j] = "none" => pc'[e][j] = "none"
    BY <1>1, <1>2, <1>3
  <2> QED
    BY <1>1, <2>1 DEF ThreadInv, OneThreadLives, Awaited, First
<1>6. LoopingIsComputing'
  BY <1>1, <1>2, <1>3 DEF ThreadInv, LoopingIsComputing
<1>7. ResolverOutlivesCalls'
  BY <1>1, <1>3 DEF ThreadInv, ResolverOutlivesCalls
<1> QED
  BY <1>4, <1>6, <1>7 DEF ThreadInv

\* The loop is left: nobody computes there any more.
LEMMA LeaveThreads ==
  ASSUME ThreadInv, TypeOK', NEW d \in Devices, NEW k \in Switches, Leave(d, k)
  PROVE  ThreadInv'
<1>1. /\ pc[d][k] = "test" /\ pc'[d][k] = "done"
      /\ \A e \in Devices, j \in Switches : <<e, j>> # <<d, k>> => /\ pc'[e][j] = pc[e][j]
                                                                   /\ held'[e][j] = held[e][j]
      /\ computing'[d] = FALSE /\ \A e \in Devices \ {d} : computing'[e] = computing[e]
      /\ UNCHANGED <<net, todo, switches, early, resolver>>
  BY DEF Leave, Goto, ThreadInv, TypeOK, netVars
<1>2. ~Gone(d, k) /\ Gone(d, k)' /\ ~InLoop(d, k)' /\ ~Working(d, k)'
  BY <1>1 DEF Gone, InLoop, Working
<1>3. \A e \in Devices, j \in Switches : <<e, j>> # <<d, k>> =>
        /\ InLoop(e, j)' <=> InLoop(e, j)
        /\ Working(e, j)' <=> Working(e, j)
        /\ Gone(e, j)' <=> Gone(e, j)
  BY <1>1 DEF InLoop, Working, Gone
<1>4. d \notin early => \A j \in Switches : j # k => Gone(d, j) /\ ~InLoop(d, j)
  BY <1>2, OneIsNotGone DEF Gone, InLoop, Working
<1>5. OneThreadLives'
  <2>1. \A e \in Devices, j \in Switches : ~Gone(e, j)' => ~Gone(e, j) /\ (InLoop(e, j) => InLoop(e, j)')
    BY <1>2, <1>3
  <2>2. d \notin early =>
          ~(k > switches) /\ ~(k = switches /\ (net \in {"kill", "await", "resolver"} \/ (net = "run" /\ d \in todo)))
    BY <1>1 DEF ThreadInv, OneThreadLives
  <2>3. \A e \in Devices, j \in Switches : <<e, j>> # <<d, k>> => pc'[e][j] = pc[e][j]
    BY <1>1
  <2> SUFFICES ASSUME NEW e \in Devices \ early, NEW j \in Switches
               PROVE  /\ j > switches => pc'[e][j] = "none"
                      /\ j = switches /\ (net \in {"kill", "await", "resolver"}
                                          \/ (net = "run" /\ e \in todo)) => pc'[e][j] = "none"
                      /\ j < switches /\ ~Gone(e, j)' =>
                           /\ net \in {"kill", "await"} /\ e \in todo
                           /\ j + 1 = switches
                           /\ Awaited(e) => InLoop(e, j)'
    BY <1>1 DEF OneThreadLives, Awaited, First
  <2> QED
    BY <2>1, <2>2, <2>3 DEF ThreadInv, OneThreadLives
<1>6. LoopingIsComputing'
  BY <1>1, <1>2, <1>3, <1>4 DEF ThreadInv, LoopingIsComputing
<1>7. ResolverOutlivesCalls'
  BY <1>1, <1>2, <1>3 DEF ThreadInv, ResolverOutlivesCalls
<1> QED
  BY <1>5, <1>6, <1>7 DEF ThreadInv

LEMMA WorkerThreads ==
  ASSUME ThreadInv, NEW d \in Devices, NEW k \in Switches, Worker(d, k)
  PROVE  ThreadInv'
<1>1. TypeOK'
  BY WorkerTypes DEF ThreadInv
<1> USE DEF netVars, jobVars, Pcs, LoopPcs, WorkPcs
<1>2. CASE StartDisabled(d, k)
  BY <1>1, <1>2, LoopStep DEF StartDisabled
<1>3. CASE StartFails(d, k)
  BY <1>1, <1>3, LoopStep DEF StartFails
<1>4. CASE Start(d, k)
  BY <1>1, <1>4, LoopStep DEF Start
<1>5. CASE TakeJob(d, k)
  <2>1. PICK to \in {"updateMemory", "updateConstants"} : Goto(d, k, "updateJob", to)
    BY <1>5 DEF TakeJob
  <2> QED
    BY <1>1, <1>5, <2>1, LoopStep DEF TakeJob
<1>6. CASE KeepJob(d, k)
  BY <1>1, <1>6, LoopStep DEF KeepJob
<1>7. CASE UpdateMemory(d, k)
  BY <1>1, <1>7, LoopStep DEF UpdateMemory
<1>8. CASE UpdateConstants(d, k)
  BY <1>1, <1>8, LoopStep DEF UpdateConstants
<1>9. CASE Execute(d, k)
  <2>1. PICK to \in {"submit", "test"} : Goto(d, k, "execute", to)
    BY <1>9 DEF Execute
  <2> QED
    BY <1>1, <1>9, <2>1, LoopStep DEF Execute
<1>10. CASE Submit(d, k)
  BY <1>1, <1>10, LoopStep DEF Submit
<1> QED
  BY <1>1, <1>2, <1>3, <1>4, <1>5, <1>6, <1>7, <1>8, <1>9, <1>10, WaitJobThreads, EnterThreads,
     LeaveThreads DEF Worker

\* The devices' threads stay where they are.
LEMMA Stay ==
  ASSUME pc' = pc, NEW d, NEW k
  PROVE  /\ InLoop(d, k)' <=> InLoop(d, k)
         /\ Working(d, k)' <=> Working(d, k)
         /\ Gone(d, k)' <=> Gone(d, k)
  BY DEF InLoop, Working, Gone

\* As many are in the loop as before, and those that call a resolver still do.
LEMMA LoopsStay ==
  ASSUME ThreadInv, TypeOK', UNCHANGED computing, early \subseteq early',
         \A d \in Devices \ early, k \in Switches : InLoop(d, k)' <=> InLoop(d, k),
         \A d \in Devices \ early, k \in Switches : Working(d, k)' => held'[d][k] = resolver'[d],
         OneThreadLives'
  PROVE  ThreadInv'
<1>1. LoopingIsComputing'
  BY DEF ThreadInv, LoopingIsComputing
<1>2. ResolverOutlivesCalls'
  BY DEF ResolverOutlivesCalls
<1> QED
  BY <1>1, <1>2 DEF ThreadInv

\* Who may be there is restated for the new place of the network thread.
LEMMA ThreadsStay ==
  ASSUME ThreadInv, TypeOK', pc' = pc, UNCHANGED <<computing, resolver, held>>,
         early \subseteq early', OneThreadLives'
  PROVE  ThreadInv'
<1>1. \A d \in Devices \ early, k \in Switches : Working(d, k)' => held'[d][k] = resolver'[d]
  BY Stay DEF ThreadInv, ResolverOutlivesCalls
<1> QED
  BY <1>1, Stay, LoopsStay

\* smart_mining.set_algo: the thread of the last switch, whatever it does, becomes that of
\* the switch before.
LEMMA SetAlgoThreads ==
  ASSUME ThreadInv, TypeOK', NEW a \in Algorithms, SetAlgo(a)
  PROVE  ThreadInv'
<1>1. /\ net = "idle" /\ net' = "kill" /\ todo' = Devices /\ switches' = switches + 1
      /\ UNCHANGED <<computing, resolver, pc, held, early>>
  BY DEF SetAlgo
<1>2. ASSUME NEW d \in Devices \ early, NEW k \in Switches
      PROVE  /\ k >= switches' => pc[d][k] = "none"
             /\ k < switches' /\ ~Gone(d, k) => k + 1 = switches'
  <2>1. k \in Nat /\ k >= 1 /\ switches \in Nat
    BY PcTypes DEF ThreadInv
  <2>2. k > switches => pc[d][k] = "none"
    BY DEF ThreadInv, OneThreadLives
  <2>3. k < switches => Gone(d, k)
    BY <1>1 DEF ThreadInv, OneThreadLives
  <2> QED
    BY <1>1, <2>1, <2>2, <2>3
<1>3. ASSUME NEW d \in Devices \ early, NEW k \in Switches
      PROVE  k \in Nat /\ switches' \in Nat
  BY <1>1, PcTypes DEF ThreadInv
<1>4. OneThreadLives'
  BY <1>1, <1>2, <1>3 DEF OneThreadLives, Awaited, Gone
<1> QED
  BY <1>1, <1>4, ThreadsStay

\* The device that is killed now either is early or has no thread outside of its loop.
LEMMA KillThreads ==
  ASSUME ThreadInv, TypeOK', NEW d \in Devices, Kill(d)
  PROVE  ThreadInv'
<1>1. /\ net = "kill" /\ net' = "await" /\ First(d)
      /\ early' = IF AtRest(d) THEN early \cup {d} ELSE early
      /\ UNCHANGED <<todo, switches, computing, resolver, pc, held>>
  BY DEF Kill
<1>2. ASSUME NEW e \in Devices, First(e) PROVE e = d
  BY <1>1, <1>2, DevicesAssumption DEF First
<1>3. ASSUME NEW k \in Switches, ~Gone(d, k), d \notin early'
      PROVE  InLoop(d, k)
  <2>1. pc[d][k] \in Pcs /\ pc[d][k] \notin {"initialize", "waitJob", "none", "done"}
    BY <1>1, <1>3, PcTypes DEF AtRest, ThreadInv, Gone
  <2> QED
    BY <2>1 DEF InLoop, Working, Pcs
<1>4. OneThreadLives'
  <2>1. \A e \in Devices, k \in Switches : /\ InLoop(e, k)' <=> InLoop(e, k)
                                           /\ Gone(e, k)' <=> Gone(e, k)
    BY <1>1, Stay
  <2>2. net' = "await" /\ todo' = todo /\ switches' = switches /\ pc' = pc
    BY <1>1
  <2>3. ASSUME NEW e \in Devices, NEW k \in Switches, e \notin early'
        PROVE  /\ k > switches => pc[e][k] = "none"
               /\ k = switches => pc[e][k] = "none"
               /\ k < switches /\ ~Gone(e, k) =>
                    e \in todo /\ k + 1 = switches /\ (First(e) => InLoop(e, k))
    <3>1. e \in Devices \ early
      BY <1>1, <2>3
    <3>2. First(e) /\ ~Gone(e, k) => InLoop(e, k)
      BY <1>2, <1>3, <2>3
    <3> QED
      BY <1>1, <3>1, <3>2 DEF ThreadInv, OneThreadLives
  <2>4. ASSUME NEW e \in Devices, NEW k \in Switches, e \notin early'
        PROVE  /\ k > switches' => pc'[e][k] = "none"
               /\ k = switches' => pc'[e][k] = "none"
               /\ k < switches' /\ ~Gone(e, k)' =>
                    e \in todo' /\ k + 1 = switches' /\ (First(e)' => InLoop(e, k)')
    <3>1. First(e)' <=> First(e)
      BY <2>2 DEF First
    <3> QED
      BY <2>1, <2>2, <2>3, <2>4, <3>1
  <2> QED
    BY <2>2, <2>4 DEF OneThreadLives, Awaited
<1> QED
  BY <1>1, <1>4, ThreadsStay

\* The device has stopped computing, so that no thread of it is in the loop.
LEMMA AwaitThreads ==
  ASSUME ThreadInv, TypeOK', NEW d \in Devices, Await(d)
  PROVE  ThreadInv'
<1>1. /\ net = "await" /\ net' \in {"kill", "resolver"} /\ ~computing[d] /\ First(d)
      /\ net' = "kill" => todo' = todo \ {d}
      /\ net' = "resolver" => todo = {d}
      /\ UNCHANGED <<switches, early, computing, resolver, pc, held>>
  BY DEF Await
<1>2. d \notin early => \A k \in Switches : ~InLoop(d, k)
  BY <1>1 DEF ThreadInv, LoopingIsComputing
<1>3. \A e \in Devices \ early, k \in Switches :
        /\ k > switches => pc[e][k] = "none"
        /\ k = switches => pc[e][k] = "none"
        /\ k < switches /\ ~Gone(e, k) => e \in todo /\ e # d /\ k + 1 = switches
  BY <1>1, <1>2 DEF ThreadInv, OneThreadLives, Awaited
<1>4. OneThreadLives'
  <2> SUFFICES ASSUME NEW e \in Devices \ early, NEW k \in Switches
               PROVE  /\ k > switches => pc[e][k] = "none"
                      /\ k = switches => pc[e][k] = "none"
                      /\ k < switches /\ ~Gone(e, k) =>
                           net' = "kill" /\ e \in todo' /\ k + 1 = switches
    BY <1>1 DEF OneThreadLives, Awaited, Gone
  <2> QED
    BY <1>1, <1>3
<1> QED
  BY <1>1, <1>4, ThreadsStay

\* A resolver is deleted when no thread of its device is there.
LEMMA SetAlgorithmThreads ==
  ASSUME ThreadInv, TypeOK', NEW d \in Devices, SetAlgorithm(d)
  PROVE  ThreadInv'
<1>1. /\ net = "resolver" /\ net' \in {"resolver", "run"}
      /\ net' = "run" => todo' = Devices
      /\ UNCHANGED <<switches, early, computing, pc, held>>
  BY DEF SetAlgorithm, ThreadInv, TypeOK
<1>2. \A e \in Devices \ early, k \in Switches : Gone(e, k) /\ ~InLoop(e, k) /\ ~Working(e, k)
  BY <1>1, NobodyLives DEF Gone, InLoop, Working
<1>3. OneThreadLives'
  <2> SUFFICES ASSUME NEW e \in Devices \ early, NEW k \in Switches
               PROVE  /\ k > switches => pc[e][k] = "none"
                      /\ k = switches => pc[e][k] = "none"
                      /\ Gone(e, k)
    BY <1>1 DEF OneThreadLives, Gone
  <2> QED
    BY <1>1, <1>2 DEF ThreadInv, OneThreadLives
<1>4. \A e \in Devices \ early, k \in Switches : InLoop(e, k)' <=> InLoop(e, k)
  BY <1>1, Stay
<1>5. \A e \in Devices \ early, k \in Switches : Working(e, k)' => held'[e][k] = resolver'[e]
  BY <1>1, <1>2, Stay
<1> QED
  BY <1>1, <1>3, <1>4, <1>5, LoopsStay

\* The device gets the thread of this switch.
LEMMA RunThreads ==
  ASSUME ThreadInv, TypeOK', NEW d \in Devices, Run(d)
  PROVE  ThreadInv'
<1>1. /\ net = "run" /\ net' \in {"run", "pool"} /\ d \in todo
      /\ net' = "run" => todo' = todo \ {d}
      /\ pc' = [pc EXCEPT ![d][switches] = "initialize"]
      /\ UNCHANGED <<switches, early, computing, resolver, held>>
  BY DEF Run, First, memoryVars
<1>2. d \notin early => \A k \in Switches : Gone(d, k)
  BY <1>1, NobodyLives
<1>3. \A e \in Devices, k \in Switches : e # d \/ k # switches => pc'[e][k] = pc[e][k]
  BY <1>1 DEF ThreadInv, TypeOK
<1>4. switches \in Switches => pc'[d][switches] = "initialize"
  BY <1>1 DEF ThreadInv, TypeOK
<1>5. \A e \in Devices \ early, k \in Switches : /\ InLoop(e, k)' <=> InLoop(e, k)
                                                 /\ Working(e, k)' <=> Working(e, k)
  BY <1>2, <1>3, <1>4 DEF InLoop, Working, Gone
<1>6. OneThreadLives'
  <2> SUFFICES ASSUME NEW e \in Devices \ early, NEW k \in Switches
               PROVE  /\ k > switches => pc'[e][k] = "none"
                      /\ k = switches /\ net' = "run" /\ e \in todo' => pc'[e][k] = "none"
                      /\ k < switches => Gone(e, k)'
    BY <1>1 DEF OneThreadLives
  <2>1. k \in Nat /\ switches \in Nat
    BY PcTypes DEF ThreadInv
  <2>2. CASE e = d /\ k = switches
    BY <1>1, <2>1, <2>2
  <2>3. CASE ~(e = d /\ k = switches)
    <3>1. pc'[e][k] = pc[e][k]
      BY <1>3, <2>3
    <3>2. k < switches => Gone(e, k)
      BY <1>1 DEF ThreadInv, OneThreadLives
    <3>3. k > switches => pc[e][k] = "none"
      BY DEF ThreadInv, OneThreadLives
    <3>4. k = switches /\ e \in todo => pc[e][k] = "none"
      BY <1>1 DEF ThreadInv, OneThreadLives
    <3>5. e \in todo' /\ net' = "run" => e \in todo
      BY <1>1
    <3> QED
      BY <3>1, <3>2, <3>3, <3>4, <3>5 DEF Gone
  <2> QED
    BY <2>2, <2>3
<1>7. \A e \in Devices \ early, k \in Switches : Working(e, k)' => held'[e][k] = resolver'[e]
  BY <1>1, <1>5 DEF ThreadInv, ResolverOutlivesCalls
<1>8. \A e \in Devices \ early, k \in Switches : InLoop(e, k)' <=> InLoop(e, k)
  BY <1>5
<1> QED
  BY <1>1, <1>6, <1>7, <1>8, LoopsStay

LEMMA NetworkThreads ==
  ASSUME ThreadInv, Network
  PROVE  ThreadInv'
<1>1. TypeOK'
  BY NetworkTypes DEF ThreadInv
<1>2. CASE NewPool
  <2>1. /\ net = "pool" /\ net' = "idle"
        /\ UNCHANGED <<switches, early, computing, resolver, pc, held>>
    BY <1>2 DEF NewPool
  <2>2. OneThreadLives'
    BY <2>1 DEF ThreadInv, OneThreadLives, Gone
  <2> QED
    BY <1>1, <2>1, <2>2, ThreadsStay
<1>3. CASE SetExtraNonce \/ SetTarget \/ \E e \in Epochs \cup {1, None} : Notify(e)
  <2>1. UNCHANGED <<net, todo, switches, early, computing, resolver, pc, held>>
    BY <1>3 DEF SetExtraNonce, SetTarget, Notify, netVars
  <2>2. OneThreadLives'
    BY <2>1 DEF ThreadInv, OneThreadLives, Awaited, First, Gone, InLoop, Working
  <2> QED
    BY <1>1, <2>1, <2>2, ThreadsStay
<1> QED
  BY <1>1, <1>2, <1>3, SetAlgoThreads, KillThreads, AwaitThreads, SetAlgorithmThreads, RunThreads
     DEF Network, Switch

LEMMA InitThreads == Init => ThreadInv
<1> SUFFICES ASSUME Init PROVE ThreadInv
  OBVIOUS
<1>1. TypeOK
  <2>1. NoResolver \in Resolvers /\ 0 \in 0..MaxSwitches /\ 0 \in 0..MaxJobs /\ 0 \in 0..0
    BY BoundsAssumption DEF Resolvers, NoResolver
  <2> HIDE DEF NoResolver, Resolvers
  <2>2. /\ last = [d \in Devices |-> 0] /\ current = [d \in Devices |-> 0]
        /\ pc = [d \in Devices |-> [k \in Switches |-> "none"]]
        /\ held = [d \in Devices |-> [k \in Switches |-> NoResolver]]
        /\ resolver = [d \in Devices |-> NoResolver]
    BY DEF Init
  <2>3. /\ current \in [Devices -> 0..MaxJobs]
        /\ \A d \in Devices : last[d] \in 0..current[d]
        /\ pc \in [Devices -> [Switches -> Pcs]]
        /\ held \in [Devices -> [Switches -> Resolvers]]
        /\ resolver \in [Devices -> Resolvers]
    BY <2>1, <2>2 DEF Pcs
  <2>4. net \in {"idle"} /\ switches \in 0..MaxSwitches /\ deleted \in BOOLEAN
    BY <2>1 DEF Init
  <2>5. /\ todo \subseteq Devices /\ wanted = None /\ pool = None /\ told = {} /\ accepted = None
    BY DEF Init
  <2>6. /\ alive \in [Devices -> BOOLEAN] /\ computing \in [Devices -> BOOLEAN]
        /\ memory \in [Devices -> BOOLEAN] /\ built \in [Devices -> BOOLEAN]
    BY DEF Init
  <2>7. /\ next \in [Devices -> Jobs]
        /\ cur \in [Devices -> Jobs]
        /\ batch \in [Devices -> Algorithms \cup {None}]
        /\ early \subseteq Devices
    BY DEF Init, Jobs, CleanJob
  <2> QED
    BY <2>3, <2>4, <2>5, <2>6, <2>7 DEF TypeOK, Pcs
<1>2. \A d \in Devices, k \in Switches : pc[d][k] = "none" /\ ~computing[d]
  BY DEF Init
<1>3. \A d \in Devices, k \in Switches : Gone(d, k) /\ ~InLoop(d, k) /\ ~Working(d, k)
  BY <1>2 DEF Gone, InLoop, Working
<1>4. OneThreadLives
  BY <1>2, <1>3 DEF OneThreadLives
<1>5. \A d \in Devices : ~computing[d]
  BY DEF Init
<1> QED
  BY <1>1, <1>3, <1>4, <1>5
     DEF ThreadInv, LoopingIsComputing, ResolverOutlivesCalls

LEMMA NextThreads == ThreadInv /\ [Next]_vars => ThreadInv'
<1> SUFFICES ASSUME ThreadInv, [Next]_vars PROVE ThreadInv'
  OBVIOUS
<1>1. CASE UNCHANGED vars
  <2>1. UNCHANGED <<net, todo, switches, early, computing, resolver, pc, held>>
    BY <1>1 DEF vars, netVars
  <2>2. TypeOK'
    BY <1>1 DEF ThreadInv, TypeOK, vars, netVars, poolVars, jobVars, memoryVars
  <2>3. OneThreadLives'
    BY <2>1 DEF ThreadInv, OneThreadLives, Awaited, First, Gone, InLoop, Working
  <2> QED
    BY <2>1, <2>2, <2>3, ThreadsStay
<1> QED
  BY <1>1, NetworkThreads, WorkerThreads DEF Next, Over

-----------------------------------------------------------------------------
(***************************************************************************)
(* Jobs.                                                                   *)
(***************************************************************************)

\* What a device can do with a job or a batch depends on its resolver and on whether the
\* network thread keeps it.
LEMMA SameFits ==
  ASSUME UNCHANGED <<net, wanted, resolver>>
  PROVE  /\ Settled' <=> Settled
         /\ Keeps' <=> Keeps
         /\ \A d, a : Fits(d, a)' <=> Fits(d, a)
BY DEF Settled, Keeps, Fits

\* A thread that is there while the switch is under way was started by it: its device has
\* been given a clean job, and no batch unless it keeps its resolver.
LEMMA CleanStart ==
  ASSUME ThreadInv, JobInv, NEW d \in Devices \ early, NEW k \in Switches, ~Gone(d, k), ~Settled
  PROVE  next[d] = CleanJob /\ (~Keeps => batch[d] = None)
<1>1. net \in {"resolver", "run", "pool"}
  BY DEF Settled, ThreadInv, TypeOK
<1>2. net = "pool" \/ (net = "run" /\ d \notin todo)
  BY <1>1, NobodyLives
<1> QED
  BY <1>2 DEF JobInv, JobsFollow, WorkFollows

\* What the job part speaks of, unless a thread changes it.
LEMMA JobsStay ==
  ASSUME JobInv,
         UNCHANGED <<net, todo, wanted, switches, early, pool, accepted, resolver, next, cur,
                     current, last, batch, pc>>
  PROVE  JobInv'
<1>1. ResolversFollow'
  BY SameFits DEF JobInv, ResolversFollow, ResolverOf
<1>2. JobsFollow'
  BY SameFits DEF JobInv, JobsFollow
<1>3. \A d \in Devices, k \in Switches : InLoop(d, k)' <=> InLoop(d, k)
  BY Stay
<1>4. \A d \in Devices : Taken(d)' <=> Taken(d)
  BY SameFits DEF Taken
<1>5. WorkFollows'
  BY <1>3, <1>4, SameFits DEF JobInv, WorkFollows
<1> QED
  BY <1>1, <1>2, <1>5 DEF JobInv

\* A step of a thread leaves the network thread and the other devices alone; its own
\* device keeps a job that is taken, or leaves one to take.
LEMMA WorkStep ==
  ASSUME ThreadInv, JobInv, NEW d \in Devices, NEW k \in Switches,
         ~Gone(d, k),
         UNCHANGED <<net, todo, wanted, switches, early, pool, accepted, resolver, next, current>>,
         \A e \in Devices \ {d} : cur'[e] = cur[e] /\ last'[e] = last[e] /\ batch'[e] = batch[e],
         \A e \in Devices, j \in Switches : <<e, j>> # <<d, k>> => pc'[e][j] = pc[e][j],
         d \notin early =>
           /\ batch'[d] # batch[d] => batch'[d] = cur[d].algorithm /\ Taken(d)
           /\ InLoop(d, k)' => \/ Taken(d)'
                               \/ pc'[d][k] \in {"test", "updateJob"} /\ current[d] # last'[d]
           /\ pc'[d][k] = "submit" => Keeps
  PROVE  JobInv'
<1>1. ResolversFollow' /\ JobsFollow'
  BY SameFits DEF JobInv, ResolversFollow, JobsFollow, ResolverOf
<1>2. ASSUME NEW e \in Devices \ early
      PROVE  /\ Keeps' => Fits(e, batch[e])'
             /\ ~Keeps' /\ (net' \in {"run", "pool"} \/ e \notin todo') => batch'[e] = None
  <2>1. /\ Keeps => Fits(e, batch[e])
        /\ ~Keeps /\ (net \in {"run", "pool"} \/ e \notin todo) => batch[e] = None
    BY DEF JobInv, WorkFollows
  <2>2. CASE batch'[e] = batch[e]
    BY <2>1, <2>2, SameFits DEF Fits
  <2>3. CASE batch'[e] # batch[e]
    <3>1. e = d /\ batch'[e] = cur[e].algorithm /\ Taken(e)
      BY <2>3
    <3>2. Settled => Keeps
      BY DEF Keeps
    <3>3. CASE Settled
      BY <3>1, <3>2, <3>3, SameFits DEF Taken, Fits
    <3>4. CASE ~Settled
      <4>1. batch'[e] = None
        BY <3>1, <3>4 DEF Taken, CleanJob
      <4> QED
        BY <4>1 DEF Fits
    <3> QED
      BY <3>3, <3>4
  <2> QED
    BY <2>2, <2>3
<1>3. ASSUME NEW e \in Devices \ early, NEW j \in Switches
      PROVE  /\ InLoop(e, j)' =>
                  \/ Taken(e)'
                  \/ pc'[e][j] \in {"test", "updateJob"} /\ current'[e] # last'[e]
             /\ pc'[e][j] = "submit" => Keeps'
  <2>1. CASE e = d /\ j = k
    BY <2>1, SameFits
  <2>2. CASE e = d /\ j # k
    <3>1. Gone(d, j)
      BY <2>2, OneIsNotGone
    <3>2. pc'[e][j] = pc[e][j]
      BY <2>2
    <3> QED
      BY <2>2, <3>1, <3>2 DEF Gone, InLoop, Working
  <2>3. CASE e # d
    <3>1. /\ pc'[e][j] = pc[e][j] /\ cur'[e] = cur[e] /\ last'[e] = last[e]
          /\ current'[e] = current[e] /\ resolver'[e] = resolver[e]
      BY <2>3
    <3>2. Taken(e)' <=> Taken(e)
      BY <3>1, SameFits DEF Taken, Fits
    <3>3. InLoop(e, j)' <=> InLoop(e, j)
      BY <3>1 DEF InLoop, Working
    <3> QED
      BY <3>1, <3>2, <3>3, SameFits DEF JobInv, WorkFollows
  <2> QED
    BY <2>1, <2>2, <2>3
<1>4. WorkFollows'
  BY <1>2, <1>3 DEF WorkFollows
<1> QED
  BY <1>1, <1>4 DEF JobInv

LEMMA WorkerJobs ==
  ASSUME ThreadInv, JobInv, NEW d \in Devices, NEW k \in Switches, Worker(d, k)
  PROVE  JobInv'
<1> USE DEF netVars, poolVars, jobVars, memoryVars
<1>1. TypeOK
  BY DEF ThreadInv
<1>2. ASSUME NEW from, NEW to, Goto(d, k, from, to)
      PROVE  /\ pc[d][k] = from /\ pc'[d][k] = to
             /\ \A e \in Devices, j \in Switches : <<e, j>> # <<d, k>> => pc'[e][j] = pc[e][j]
  BY <1>1, <1>2 DEF Goto, TypeOK
<1>3. d \notin early /\ InLoop(d, k) =>
        \/ Taken(d)
        \/ pc[d][k] \in {"test", "updateJob"} /\ current[d] # last[d]
  BY DEF JobInv, WorkFollows
<1>4. CASE StartDisabled(d, k) \/ StartFails(d, k) \/ Start(d, k)
  <2>1. PICK to \in {"done", "waitJob"} : Goto(d, k, "initialize", to)
    BY <1>4 DEF StartDisabled, StartFails, Start
  <2>2. ~Gone(d, k) /\ ~InLoop(d, k)' /\ pc'[d][k] # "submit"
    BY <1>2, <2>1 DEF Gone, InLoop, Working
  <2>3. UNCHANGED <<net, todo, wanted, switches, early, pool, accepted, resolver, next, cur,
                    current, last, batch>>
    BY <1>4 DEF StartDisabled, StartFails, Start
  <2> QED
    BY <1>2, <2>1, <2>2, <2>3, WorkStep
<1>5. CASE WaitJob(d, k)
  <2>1. pc[d][k] = "waitJob" /\ pc'[d][k] = "test" /\ current[d] # last[d] /\ ~Gone(d, k)
    BY <1>2, <1>5 DEF WaitJob, Gone
  <2>2. UNCHANGED <<net, todo, wanted, switches, early, pool, accepted, resolver, next, cur,
                    current, last, batch>>
    BY <1>5 DEF WaitJob
  <2> QED
    BY <1>2, <1>5, <2>1, <2>2, WorkStep DEF WaitJob
<1>6. CASE Enter(d, k) \/ Leave(d, k)
  <2>1. PICK to \in {"updateJob", "done"} : Goto(d, k, "test", to)
    BY <1>6 DEF Enter, Leave
  <2>2. ~Gone(d, k) /\ InLoop(d, k) /\ pc'[d][k] # "submit"
    BY <1>2, <2>1 DEF Gone, InLoop
  <2>3. UNCHANGED <<net, todo, wanted, switches, early, pool, accepted, resolver, next, cur,
                    current, last, batch>>
    BY <1>6 DEF Enter, Leave
  <2>4. InLoop(d, k)' => pc'[d][k] = "updateJob"
    BY <1>2, <2>1 DEF InLoop, Working
  <2>5. Taken(d)' <=> Taken(d)
    BY <2>3, SameFits DEF Taken
  <2> QED
    BY <1>2, <1>3, <2>1, <2>2, <2>3, <2>4, <2>5, WorkStep
<1>7. CASE TakeJob(d, k)
  <2>1. PICK to \in {"updateMemory", "updateConstants"} : Goto(d, k, "updateJob", to)
    BY <1>7 DEF TakeJob
  <2>2. ~Gone(d, k) /\ pc'[d][k] # "submit"
    BY <1>2, <2>1 DEF Gone
  <2>3. /\ UNCHANGED <<net, todo, wanted, switches, early, pool, accepted, resolver, next, current,
                       batch>>
        /\ cur' = [cur EXCEPT ![d] = next[d]] /\ last' = [last EXCEPT ![d] = current[d]]
    BY <1>7 DEF TakeJob
  <2>4. cur'[d] = next[d] /\ \A e \in Devices \ {d} : cur'[e] = cur[e] /\ last'[e] = last[e]
    BY <1>1, <2>3 DEF TypeOK
  <2>5. d \notin early => Taken(d)'
    <3>1. CASE Settled
      BY <2>3, <2>4, <3>1, SameFits DEF Taken, Fits, JobInv, JobsFollow
    <3>2. CASE ~Settled
      <4>1. d \notin early => next[d] = CleanJob
        BY <2>2, <3>2, CleanStart
      <4> QED
        BY <2>3, <2>4, <3>2, <4>1, SameFits DEF Taken
    <3> QED
      BY <3>1, <3>2
  <2> QED
    BY <1>2, <2>1, <2>2, <2>3, <2>4, <2>5, WorkStep
<1>8. CASE KeepJob(d, k) \/ UpdateMemory(d, k) \/ UpdateConstants(d, k) \/ Submit(d, k)
  <2>1. PICK from \in {"updateJob", "updateMemory", "updateConstants", "submit"},
             to \in {"execute", "test"} :
               Goto(d, k, from, to) /\ (from = "updateJob" => current[d] = last[d])
    BY <1>8 DEF KeepJob, UpdateMemory, UpdateConstants, Submit
  <2>2. ~Gone(d, k) /\ InLoop(d, k) /\ pc'[d][k] # "submit"
    BY <1>2, <2>1 DEF Gone, InLoop, Working
  <2>3. UNCHANGED <<net, todo, wanted, switches, early, pool, accepted, resolver, next, cur,
                    current, last, batch>>
    BY <1>8 DEF KeepJob, UpdateMemory, UpdateConstants, Submit
  <2>4. d \notin early => Taken(d)
    BY <1>2, <1>3, <2>1, <2>2
  <2>5. d \notin early => Taken(d)'
    BY <2>3, <2>4, SameFits DEF Taken
  <2> QED
    BY <1>2, <2>1, <2>2, <2>3, <2>5, WorkStep
<1>9. CASE Execute(d, k)
  <2>1. PICK ok \in BOOLEAN, found \in BOOLEAN :
          /\ found => ok /\ batch[d] # None
          /\ Goto(d, k, "execute", IF found THEN "submit" ELSE "test")
          /\ batch' = [batch EXCEPT ![d] = IF ok THEN cur[d].algorithm ELSE @]
          /\ UNCHANGED <<net, todo, wanted, switches, early, pool, accepted, resolver, next, cur,
                         current, last>>
    BY <1>9 DEF Execute
  <2>2. /\ pc[d][k] = "execute" /\ pc'[d][k] = IF found THEN "submit" ELSE "test"
        /\ \A e \in Devices, j \in Switches : <<e, j>> # <<d, k>> => pc'[e][j] = pc[e][j]
    BY <1>2, <2>1
  <2>3. ~Gone(d, k) /\ InLoop(d, k)
    BY <2>2 DEF Gone, InLoop, Working
  <2>4. d \notin early => Taken(d)
    BY <1>3, <2>2, <2>3
  <2>5. d \notin early => Taken(d)'
    BY <2>1, <2>4, SameFits DEF Taken
  <2>6. found /\ d \notin early => Keeps
    BY <2>1, <2>3, CleanStart DEF Keeps
  <2>7. /\ batch'[d] # batch[d] => batch'[d] = cur[d].algorithm
        /\ \A e \in Devices \ {d} : batch'[e] = batch[e]
    BY <1>1, <2>1 DEF TypeOK
  <2>8. pc'[d][k] = "submit" => found
    BY <2>2
  <2> QED
    BY <2>1, <2>2, <2>3, <2>4, <2>5, <2>6, <2>7, <2>8, WorkStep
<1> QED
  BY <1>4, <1>5, <1>6, <1>7, <1>8, <1>9 DEF Worker

LEMMA SetAlgoJobs ==
  ASSUME ThreadInv, JobInv, NEW a \in Algorithms, SetAlgo(a)
  PROVE  JobInv'
<1>1. /\ net = "idle" /\ net' = "kill" /\ switches' = switches + 1 /\ wanted' = a
      /\ UNCHANGED <<early, pool, accepted, resolver, next, cur, current, last, batch>> /\ pc' = pc
  BY DEF SetAlgo, poolVars, jobVars, memoryVars
<1>2. Settled /\ Settled' /\ Keeps /\ Keeps' /\ \A d, b : Fits(d, b)' <=> Fits(d, b)
  BY <1>1 DEF Settled, Keeps, Fits
<1>3. ResolversFollow'
  <2>1. ASSUME NEW d \in Devices
        PROVE  resolver[d].switch \in Nat /\ switches \in Nat
    <3>1. resolver[d] \in Resolvers /\ switches \in 0..MaxSwitches
      BY DEF ThreadInv, TypeOK
    <3> QED
      BY <3>1, BoundsAssumption DEF Resolvers
  <2> QED
    BY <1>1, <1>2, <2>1 DEF JobInv, ResolversFollow
<1>4. JobsFollow'
  BY <1>1, <1>2 DEF JobInv, JobsFollow
<1>5. \A d \in Devices : Taken(d)' <=> Taken(d)
  BY <1>1, <1>2 DEF Taken
<1>6. WorkFollows'
  BY <1>1, <1>2, <1>5, Stay DEF JobInv, WorkFollows
<1> QED
  BY <1>3, <1>4, <1>6 DEF JobInv

LEMMA KillJobs ==
  ASSUME ThreadInv, JobInv, NEW d \in Devices, Kill(d)
  PROVE  JobInv'
<1>1. /\ net = "kill" /\ net' = "await" /\ pc' = pc /\ early \subseteq early'
      /\ UNCHANGED <<todo, wanted, switches, pool, accepted, resolver, next, cur, current, last,
                     batch>>
  BY DEF Kill, poolVars, jobVars, memoryVars
<1>2. Settled /\ Settled' /\ Keeps /\ Keeps' /\ \A e, b : Fits(e, b)' <=> Fits(e, b)
  BY <1>1 DEF Settled, Keeps, Fits
<1>3. ResolversFollow' /\ JobsFollow'
  BY <1>1, <1>2 DEF JobInv, ResolversFollow, JobsFollow
<1>4. \A e \in Devices : Taken(e)' <=> Taken(e)
  BY <1>1, <1>2 DEF Taken
<1>5. WorkFollows'
  BY <1>1, <1>2, <1>4, Stay DEF JobInv, WorkFollows
<1> QED
  BY <1>3, <1>5 DEF JobInv

\* When the last device is waited for no thread is in its loop.
LEMMA AwaitJobs ==
  ASSUME ThreadInv, JobInv, NEW d \in Devices, Await(d)
  PROVE  JobInv'
<1>1. /\ net = "await" /\ net' \in {"kill", "resolver"} /\ ~computing[d] /\ pc' = pc
      /\ net' = "resolver" => todo = {d} /\ todo' = Devices
      /\ UNCHANGED <<wanted, switches, early, pool, accepted, resolver, next, cur, current, last,
                     batch>>
  BY DEF Await, poolVars, jobVars, memoryVars
<1>2. /\ Settled /\ (Settled' <=> net' = "kill") /\ Keeps
      /\ \A e, b : Fits(e, b)' <=> Fits(e, b)
  BY <1>1 DEF Settled, Keeps, Fits
<1>3. ResolversFollow'
  BY <1>1, <1>2 DEF JobInv, ResolversFollow, Keeps
<1>4. JobsFollow'
  BY <1>1, <1>2 DEF JobInv, JobsFollow
<1>5. \A e \in Devices \ early : /\ Fits(e, batch[e])'
                                 /\ net' = "resolver" => e \in todo'
  BY <1>1, <1>2 DEF JobInv, WorkFollows, Fits
<1>6. CASE net' = "kill"
  <2>1. \A e \in Devices : Taken(e)' <=> Taken(e)
    BY <1>1, <1>2, <1>6 DEF Taken
  <2>2. Keeps'
    BY <1>2, <1>6 DEF Keeps
  <2>3. WorkFollows'
    BY <1>1, <1>2, <1>5, <1>6, <2>1, <2>2, Stay DEF JobInv, WorkFollows
  <2> QED
    BY <1>3, <1>4, <2>3 DEF JobInv
<1>7. CASE net' = "resolver"
  <2>1. ASSUME NEW e \in Devices \ early, NEW k \in Switches
        PROVE  ~InLoop(e, k)
    <3>1. k \in Nat /\ switches \in Nat
      BY PcTypes DEF ThreadInv
    <3>2. k >= switches => pc[e][k] = "none"
      BY <1>1, <3>1 DEF ThreadInv, OneThreadLives
    <3>3. k < switches /\ ~Gone(e, k) => e = d
      BY <1>1, <1>7 DEF ThreadInv, OneThreadLives
    <3>4. e = d => ~InLoop(e, k)
      BY <1>1 DEF ThreadInv, LoopingIsComputing
    <3> QED
      BY <3>1, <3>2, <3>3, <3>4 DEF InLoop, Working, Gone
  <2>2. \A e \in Devices \ early, k \in Switches : ~InLoop(e, k)' /\ pc'[e][k] # "submit"
    BY <1>1, <2>1 DEF InLoop, Working
  <2>3. WorkFollows'
    BY <1>1, <1>5, <1>7, <2>2 DEF WorkFollows
  <2> QED
    BY <1>3, <1>4, <2>3 DEF JobInv
<1> QED
  BY <1>1, <1>6, <1>7

\* The device keeps its resolver or gets one without a batch; nobody is there to use it.
LEMMA SetAlgorithmJobs ==
  ASSUME ThreadInv, JobInv, NEW d \in Devices, SetAlgorithm(d)
  PROVE  JobInv'
<1> DEFINE created == IF wanted \in Unsupported THEN resolver[d] ELSE ResolverOf(d)
<1>1. /\ net = "resolver" /\ d \in todo /\ net' \in {"resolver", "run"}
      /\ net' = "run" => todo = {d} /\ todo' = Devices
      /\ net' = "resolver" => todo' = todo \ {d}
      /\ resolver' = [resolver EXCEPT ![d] = created]
      /\ batch' = [batch EXCEPT ![d] = IF created = resolver[d] THEN @ ELSE None]
      /\ UNCHANGED <<wanted, switches, early, pool, accepted, next, cur, current, last>>
      /\ pc' = pc
  BY DEF SetAlgorithm, First, ResolverOf, poolVars, jobVars
<1>2. /\ resolver'[d] = created
      /\ \A e \in Devices \ {d} : resolver'[e] = resolver[e] /\ batch'[e] = batch[e]
      /\ batch'[d] = IF created = resolver[d] THEN batch[d] ELSE None
  BY <1>1 DEF ThreadInv, TypeOK
<1> HIDE DEF created
<1>3. ~Settled /\ ~Settled' /\ (Keeps <=> wanted \in Unsupported) /\ (Keeps' <=> Keeps)
  BY <1>1 DEF Settled, Keeps
<1>4. resolver[d].switch < switches /\ resolver[d].switch \in Nat /\ switches \in Nat
  BY <1>1, BoundsAssumption DEF JobInv, ResolversFollow, ThreadInv, TypeOK, Resolvers
<1>5. /\ Keeps => created = resolver[d]
      /\ ~Keeps => created = ResolverOf(d) /\ created # resolver[d]
  <2>1. ResolverOf(d).switch = switches
    BY DEF ResolverOf
  <2> QED
    BY <1>3, <1>4, <2>1 DEF created
<1>6. ResolversFollow'
  <2>1. ASSUME NEW e \in Devices
        PROVE  /\ resolver'[e].switch <= switches
               /\ Keeps => pool \in {resolver'[e].algorithm} \cup Unsupported
               /\ net' = "resolver" /\ e \in todo' => resolver'[e].switch < switches
               /\ ~Keeps /\ (net' = "run" \/ e \notin todo') => resolver'[e] = ResolverOf(e)
    <3>1. CASE e = d
      <4>1. resolver'[e].switch <= switches
        BY <1>2, <1>4, <1>5, <3>1 DEF ResolverOf
      <4>2. net' = "resolver" => e \notin todo'
        BY <1>1, <3>1
      <4>3. Keeps => resolver'[e] = resolver[e]
        BY <1>2, <1>5, <3>1
      <4>4. ~Keeps => resolver'[e] = ResolverOf(e)
        BY <1>2, <1>5, <3>1
      <4> QED
        BY <4>1, <4>2, <4>3, <4>4 DEF JobInv, ResolversFollow
    <3>2. CASE e # d
      <4>1. resolver'[e] = resolver[e] /\ (e \in todo' /\ net' = "resolver" => e \in todo)
        BY <1>1, <1>2, <3>2
      <4>2. net' = "run" \/ e \notin todo' => e \notin todo
        BY <1>1, <3>2
      <4> QED
        BY <1>1, <4>1, <4>2 DEF JobInv, ResolversFollow
    <3> QED
      BY <3>1, <3>2
  <2>2. wanted' \in Algorithms
    BY <1>1 DEF JobInv, ResolversFollow
  <2>3. \A e \in Devices : ResolverOf(e)' = ResolverOf(e)
    BY <1>1 DEF ResolverOf
  <2> QED
    BY <1>1, <1>3, <2>1, <2>2, <2>3 DEF ResolversFollow
<1>7. JobsFollow'
  BY <1>1, <1>3 DEF JobsFollow
<1>8. WorkFollows'
  <2>1. \A e \in Devices \ early, k \in Switches : Gone(e, k)
    BY <1>1, NobodyLives
  <2>2. \A e \in Devices \ early, k \in Switches : ~InLoop(e, k)' /\ pc'[e][k] # "submit"
    BY <1>1, <2>1 DEF InLoop, Working, Gone
  <2>3. ASSUME NEW e \in Devices \ early
        PROVE  /\ Keeps => Fits(e, batch[e])'
               /\ ~Keeps /\ (net' = "run" \/ e \notin todo') => batch'[e] = None
    <3>1. CASE Keeps
      <4>1. resolver'[e] = resolver[e] /\ batch'[e] = batch[e] /\ Fits(e, batch[e])
        BY <1>2, <1>5, <3>1 DEF JobInv, WorkFollows
      <4> QED
        BY <3>1, <4>1 DEF Fits
    <3>2. CASE ~Keeps
      <4>1. e = d => batch'[e] = None
        BY <1>2, <1>5, <3>2
      <4>2. e # d /\ (net' = "run" \/ e \notin todo') => e \notin todo
        BY <1>1
      <4> QED
        BY <1>2, <3>2, <4>1, <4>2 DEF JobInv, WorkFollows
    <3> QED
      BY <3>1, <3>2
  <2> QED
    BY <1>1, <1>3, <2>2, <2>3 DEF WorkFollows
<1> QED
  BY <1>6, <1>7, <1>8 DEF JobInv

\* The clean job is announced, and a thread started that is not in its loop.
LEMMA RunJobs ==
  ASSUME ThreadInv, JobInv, NEW d \in Devices, Run(d)
  PROVE  JobInv'
<1>1. /\ net = "run" /\ net' \in {"run", "pool"} /\ d \in todo
      /\ net' = "run" => todo' = todo \ {d}
      /\ net' = "pool" => todo = {d}
      /\ pc' = [pc EXCEPT ![d][switches] = "initialize"]
      /\ next' = [next EXCEPT ![d] = CleanJob]
      /\ accepted' = None
      /\ UNCHANGED <<wanted, switches, early, pool, resolver, cur, current, last, batch>>
  BY DEF Run, First, poolVars, memoryVars
<1>2. /\ ~Settled /\ ~Settled' /\ (Keeps' <=> Keeps)
      /\ \A e, b : Fits(e, b)' <=> Fits(e, b)
  BY <1>1 DEF Settled, Keeps, Fits
<1>3. ResolversFollow'
  BY <1>1, <1>2 DEF JobInv, ResolversFollow, ResolverOf
<1>4. JobsFollow'
  <2>1. next'[d] = CleanJob /\ \A e \in Devices \ {d} : next'[e] = next[e]
    BY <1>1 DEF ThreadInv, TypeOK
  <2> SUFFICES ASSUME NEW e \in Devices
               PROVE  net' = "pool" \/ e \notin todo' => next'[e] = CleanJob
    BY <1>1, <1>2 DEF JobsFollow
  <2> QED
    BY <1>1, <2>1 DEF JobInv, JobsFollow
<1>5. WorkFollows'
  <2>1. \A e \in Devices, k \in Switches : pc'[e][k] = pc[e][k] \/ pc'[e][k] = "initialize"
    BY <1>1 DEF ThreadInv, TypeOK
  <2>2. \A e \in Devices : Taken(e)' <=> Taken(e)
    BY <1>1, <1>2 DEF Taken
  <2>3. ASSUME NEW e \in Devices \ early, NEW k \in Switches
        PROVE  /\ InLoop(e, k)' =>
                    \/ Taken(e)'
                    \/ pc'[e][k] \in {"test", "updateJob"} /\ current[e] # last[e]
               /\ pc'[e][k] = "submit" => Keeps
    <3>1. CASE pc'[e][k] = "initialize"
      BY <3>1 DEF InLoop, Working
    <3>2. CASE pc'[e][k] = pc[e][k]
      <4>1. InLoop(e, k)' <=> InLoop(e, k)
        BY <3>2 DEF InLoop, Working
      <4> QED
        BY <2>2, <3>2, <4>1 DEF JobInv, WorkFollows
    <3> QED
      BY <2>1, <3>1, <3>2
  <2>4. \A e \in Devices \ early : /\ Keeps => Fits(e, batch[e])
                                   /\ ~Keeps => batch[e] = None
    BY <1>1 DEF JobInv, WorkFollows
  <2> QED
    BY <1>1, <1>2, <2>3, <2>4 DEF WorkFollows
<1> QED
  BY <1>3, <1>4, <1>5 DEF JobInv

\* The stratum of the algorithm of the resolvers, unless there is no resolver of it.
LEMMA NewPoolJobs ==
  ASSUME ThreadInv, JobInv, NewPool
  PROVE  JobInv'
<1>1. /\ net = "pool" /\ net' = "idle" /\ pool' = wanted /\ pc' = pc
      /\ UNCHANGED <<todo, wanted, switches, early, accepted, resolver, next, cur, current, last,
                     batch>>
  BY DEF NewPool, jobVars, memoryVars
<1>2. /\ ~Settled /\ Settled' /\ Keeps' /\ (Keeps <=> wanted \in Unsupported)
      /\ \A e, b : Fits(e, b)' <=> Fits(e, b)
  BY <1>1 DEF Settled, Keeps, Fits
<1>3. \A d \in Devices : ~Keeps => resolver[d].algorithm = wanted
  BY <1>1 DEF JobInv, ResolversFollow, ResolverOf
<1>4. ResolversFollow'
  BY <1>1, <1>2, <1>3 DEF JobInv, ResolversFollow
<1>5. JobsFollow'
  BY <1>1 DEF JobInv, JobsFollow, CleanJob, Fits
<1>6. \A d \in Devices : Taken(d) => Taken(d)'
  BY <1>1, <1>2 DEF Taken, Fits, CleanJob
<1>7. \A d \in Devices \ early : Fits(d, batch[d])
  BY <1>1 DEF JobInv, WorkFollows, Fits
<1>8. \A d \in Devices \ early : Fits(d, batch[d])'
  BY <1>1, <1>7 DEF Fits
<1>9. WorkFollows'
  BY <1>1, <1>2, <1>6, <1>8, Stay DEF JobInv, WorkFollows
<1> QED
  BY <1>4, <1>5, <1>9 DEF JobInv

\* Every device has a job to take, of the algorithm of the stratum.
LEMMA NotifyJobs ==
  ASSUME ThreadInv, JobInv, NEW epoch, Notify(epoch)
  PROVE  JobInv'
<1>1. /\ net = "idle" /\ next' = [d \in Devices |-> [algorithm |-> pool, epoch |-> epoch]]
      /\ current' = [d \in Devices |-> current[d] + 1] /\ accepted' = epoch
      /\ pc' = pc
      /\ UNCHANGED <<net, todo, wanted, switches, early, pool, resolver, cur, last, batch>>
  BY DEF Notify, netVars, memoryVars
<1>2. Settled /\ Settled' /\ Keeps /\ Keeps' /\ \A e, b : Fits(e, b)' <=> Fits(e, b)
  BY <1>1 DEF Settled, Keeps, Fits
<1>3. ResolversFollow'
  BY <1>1, <1>2 DEF JobInv, ResolversFollow
<1>4. JobsFollow'
  <2>1. \A d \in Devices : next'[d].algorithm = pool /\ next'[d].epoch = epoch
    BY <1>1
  <2>2. \A d \in Devices : Fits(d, pool)
    BY <1>2 DEF JobInv, ResolversFollow, Fits
  <2>3. \A d \in Devices : Fits(d, next[d].algorithm)'
    BY <1>1, <2>1, <2>2 DEF Fits
  <2> QED
    BY <1>1, <2>1, <2>3 DEF JobsFollow
<1>5. \A d \in Devices : Taken(d)' <=> Taken(d)
  BY <1>1, <1>2 DEF Taken
<1>6. \A d \in Devices : current'[d] # last'[d]
  <2> SUFFICES ASSUME NEW d \in Devices PROVE current[d] + 1 # last[d]
    BY <1>1
  <2>1. current[d] \in 0..MaxJobs /\ last[d] \in 0..current[d]
    BY DEF ThreadInv, TypeOK
  <2> QED
    BY <2>1, BoundsAssumption
<1>7. WorkFollows'
  BY <1>1, <1>2, <1>5, <1>6, Stay DEF JobInv, WorkFollows
<1> QED
  BY <1>3, <1>4, <1>7 DEF JobInv

LEMMA NextJobs == ThreadInv /\ JobInv /\ [Next]_vars => JobInv'
<1> SUFFICES ASSUME ThreadInv, JobInv, [Next]_vars PROVE JobInv'
  OBVIOUS
<1>1. CASE UNCHANGED vars
  <2>1. UNCHANGED <<net, todo, wanted, switches, early, pool, accepted, resolver, next, cur,
                    current, last, batch, pc>>
    BY <1>1 DEF vars, netVars, poolVars, jobVars, memoryVars
  <2> QED
    BY <2>1, JobsStay
<1>2. CASE SetExtraNonce \/ SetTarget
  <2>1. UNCHANGED <<net, todo, wanted, switches, early, pool, accepted, resolver, next, cur,
                    current, last, batch, pc>>
    BY <1>2 DEF SetExtraNonce, SetTarget, netVars, jobVars, memoryVars
  <2> QED
    BY <2>1, JobsStay
<1> QED
  BY <1>1, <1>2, WorkerJobs, SetAlgoJobs, KillJobs, AwaitJobs, SetAlgorithmJobs, RunJobs,
     NewPoolJobs, NotifyJobs
     DEF Next, Network, Switch, Over

LEMMA InitJobs == Init => JobInv
<1> SUFFICES ASSUME Init PROVE JobInv
  OBVIOUS
<1>1. /\ net = "idle" /\ switches = 0 /\ pool = None /\ accepted = None
      /\ \A d \in Devices : /\ resolver[d] = NoResolver /\ next[d] = CleanJob /\ batch[d] = None
                            /\ cur[d] = CleanJob
      /\ \A d \in Devices, k \in Switches : pc[d][k] = "none"
  BY DEF Init
<1>2. Settled /\ Keeps
  BY <1>1 DEF Settled, Keeps
<1>3. \A d \in Devices : resolver[d].switch = 0 /\ resolver[d].algorithm = None
  <2>1. NoResolver.switch = 0 /\ NoResolver.algorithm = None
    BY DEF NoResolver
  <2> QED
    BY <1>1, <2>1
<1>4. ResolversFollow
  BY <1>1, <1>2, <1>3 DEF ResolversFollow
<1>5. JobsFollow
  BY <1>1, <1>2 DEF JobsFollow, Fits, CleanJob
<1>6. WorkFollows
  BY <1>1, <1>2 DEF WorkFollows, InLoop, Working, Fits
<1> QED
  BY <1>4, <1>5, <1>6 DEF JobInv

-----------------------------------------------------------------------------
(***************************************************************************)
(* The memory of the resolvers.                                            *)
(***************************************************************************)

\* What the memory part says of thread k of device d.
MemoryOf(d, k) ==
  /\ ~Gone(d, k) /\ next[d].epoch # None =>
       built[d] \/ memory[d] \/ pc[d][k] = "updateMemory" \/ Lost(d, k)
  /\ InLoop(d, k) /\ cur[d].epoch # None =>
       \/ built[d] \/ pc[d][k] = "updateMemory" \/ Lost(d, k)
       \/ pc[d][k] \in {"test", "updateJob"} /\ current[d] # last[d]

LEMMA MemoryOfAll == MemoryInv <=> \A d \in Devices \ early, k \in Switches : MemoryOf(d, k)
BY DEF MemoryInv, MemoryOf

\* The network thread may change the flags and jobs that are looked at only so that the
\* memory is no less on its way.
LEMMA NetworkMemory ==
  ASSUME ThreadInv, JobInv, MemoryInv, Network
  PROVE  MemoryInv'
<1> USE DEF netVars, poolVars, jobVars, memoryVars
<1>1. TypeOK
  BY DEF ThreadInv
<1>2. CASE (\E a \in Algorithms : SetAlgo(a)) \/ (\E d \in Devices : Await(d)) \/ NewPool
           \/ SetExtraNonce \/ SetTarget
  <2>1. UNCHANGED <<early, alive, next, cur, current, last, memory, built, pc>>
    BY <1>2 DEF SetAlgo, Await, NewPool, SetExtraNonce, SetTarget
  <2> QED
    BY <2>1 DEF MemoryInv, Lost, Gone, InLoop, Working
<1>3. ASSUME NEW d \in Devices, Kill(d)
      PROVE  MemoryInv'
  <2>1. /\ UNCHANGED <<next, cur, current, last, memory, built>> /\ pc' = pc
        /\ early \subseteq early'
        /\ \A e \in Devices : ~alive[e] => ~alive'[e]
    BY <1>1, <1>3 DEF Kill, TypeOK
  <2>2. \A e \in Devices, k \in Switches : Lost(e, k) => Lost(e, k)'
    BY <2>1 DEF Lost
  <2> QED
    BY <2>1, <2>2, Stay DEF MemoryInv
<1>4. ASSUME NEW d \in Devices, SetAlgorithm(d)
      PROVE  MemoryInv'
  <2>1. net = "resolver" /\ pc' = pc /\ early' = early
    BY <1>4 DEF SetAlgorithm
  <2>2. \A e \in Devices \ early, k \in Switches : Gone(e, k)' /\ ~InLoop(e, k)'
    BY <2>1, NobodyLives DEF Gone, InLoop, Working
  <2> QED
    BY <2>1, <2>2 DEF MemoryInv
<1>5. ASSUME NEW d \in Devices, Run(d)
      PROVE  MemoryInv'
  <2>1. /\ net = "run" /\ d \in todo
        /\ UNCHANGED <<early, alive, cur, current, last, memory, built>>
        /\ next' = [next EXCEPT ![d] = CleanJob]
        /\ pc' = [pc EXCEPT ![d][switches] = "initialize"]
    BY <1>5 DEF Run, First
  <2>2. /\ next'[d] = CleanJob
        /\ \A e \in Devices \ {d} : next'[e] = next[e]
        /\ \A e \in Devices \ {d}, k \in Switches : pc'[e][k] = pc[e][k]
        /\ \A k \in Switches : pc'[d][k] = pc[d][k] \/ pc'[d][k] = "initialize"
    BY <1>1, <2>1 DEF TypeOK
  <2>3. ASSUME NEW k \in Switches, d \notin early PROVE MemoryOf(d, k)'
    <3>1. Gone(d, k)
      BY <2>1, <2>3, NobodyLives
    <3>2. ~InLoop(d, k)'
      BY <2>2, <3>1 DEF Gone, InLoop, Working
    <3>3. next'[d].epoch = None
      BY <2>2 DEF CleanJob
    <3> QED
      BY <3>2, <3>3 DEF MemoryOf
  <2>4. ASSUME NEW e \in Devices \ early, e # d, NEW k \in Switches PROVE MemoryOf(e, k)'
    <3>1. MemoryOf(e, k)
      BY MemoryOfAll
    <3>2. pc'[e][k] = pc[e][k] /\ next'[e] = next[e]
      BY <2>2, <2>4
    <3> QED
      BY <2>1, <3>1, <3>2 DEF MemoryOf, Lost, Gone, InLoop, Working
  <2>5. \A e \in Devices \ early, k \in Switches : MemoryOf(e, k)'
    BY <2>3, <2>4
  <2> QED
    BY <2>1, <2>5 DEF MemoryInv, MemoryOf
<1>6. ASSUME NEW epoch \in Epochs \cup {1, None}, Notify(epoch)
      PROVE  MemoryInv'
  <2>1. /\ net = "idle" /\ UNCHANGED <<early, alive, cur, last, built>> /\ pc' = pc
        /\ next' = [d \in Devices |-> [algorithm |-> pool, epoch |-> epoch]]
        /\ current' = [d \in Devices |-> current[d] + 1]
        /\ memory' = [d \in Devices |-> memory[d] \/ epoch # accepted]
    BY <1>6 DEF Notify
  <2>2. ASSUME NEW d \in Devices
        PROVE  /\ next'[d].epoch = epoch /\ next[d].epoch = accepted
               /\ current'[d] # last'[d]
               /\ memory[d] => memory'[d]
               /\ memory'[d] \/ epoch = accepted
    <3>1. next'[d].epoch = epoch
      BY <2>1
    <3>2. next[d].epoch = accepted
      BY <2>1 DEF JobInv, JobsFollow, Settled
    <3>3. current[d] \in 0..MaxJobs /\ last[d] \in 0..current[d]
      BY <1>1 DEF TypeOK
    <3>4. current'[d] # last'[d]
      BY <2>1, <3>3, BoundsAssumption
    <3>5. /\ memory[d] => memory'[d]
          /\ memory'[d] \/ epoch = accepted
      BY <2>1
    <3> QED
      BY <3>1, <3>2, <3>4, <3>5
  <2>3. ASSUME NEW d \in Devices \ early, NEW k \in Switches PROVE MemoryOf(d, k)'
    <3>1. MemoryOf(d, k)
      BY MemoryOfAll
    <3>2. /\ InLoop(d, k)' <=> InLoop(d, k)
          /\ Gone(d, k)' <=> Gone(d, k)
          /\ Lost(d, k)' <=> Lost(d, k)
      BY <2>1, Stay DEF Lost
    <3> QED
      BY <2>1, <2>2, <3>1, <3>2 DEF MemoryOf
  <2>4. \A d \in Devices \ early, k \in Switches : MemoryOf(d, k)'
    BY <2>3
  <2> QED
    BY <2>1, <2>4 DEF MemoryInv, MemoryOf
<1> QED
  BY <1>2, <1>3, <1>4, <1>5, <1>6 DEF Network, Switch

\* A step of a thread: what holds of the thread itself is enough, its device has no other
\* that is there.
LEMMA MemoryStep ==
  ASSUME ThreadInv, MemoryInv, NEW d \in Devices, NEW k \in Switches,
         ~Gone(d, k), UNCHANGED <<early, next, current>>,
         \A e \in Devices \ {d} : /\ cur'[e] = cur[e] /\ last'[e] = last[e] /\ built'[e] = built[e]
                                  /\ memory'[e] = memory[e] /\ alive'[e] = alive[e],
         \A e \in Devices, j \in Switches : <<e, j>> # <<d, k>> => pc'[e][j] = pc[e][j],
         d \notin early => MemoryOf(d, k)'
  PROVE  MemoryInv'
<1>1. ASSUME NEW e \in Devices \ early, NEW j \in Switches PROVE MemoryOf(e, j)'
  <2>1. MemoryOf(e, j)
    BY MemoryOfAll
  <2>2. CASE e = d /\ j = k
    BY <2>2
  <2>3. CASE e = d /\ j # k
    <3>1. Gone(d, j) /\ pc'[d][j] = pc[d][j]
      BY <2>3, OneIsNotGone
    <3>2. Gone(d, j)' /\ ~InLoop(d, j)'
      BY <3>1 DEF Gone, InLoop, Working
    <3> QED
      BY <2>3, <3>2 DEF MemoryOf
  <2>4. CASE e # d
    <3>1. /\ pc'[e][j] = pc[e][j] /\ cur'[e] = cur[e] /\ last'[e] = last[e] /\ built'[e] = built[e]
          /\ memory'[e] = memory[e] /\ alive'[e] = alive[e]
      BY <2>4
    <3> QED
      BY <2>1, <3>1 DEF MemoryOf, Lost, Gone, InLoop, Working
  <2> QED
    BY <2>2, <2>3, <2>4
<1>2. \A e \in Devices \ early, j \in Switches : MemoryOf(e, j)'
  BY <1>1
<1> QED
  BY <1>2 DEF MemoryInv, MemoryOf

LEMMA WorkerMemory ==
  ASSUME ThreadInv, MemoryInv, NEW d \in Devices, NEW k \in Switches, Worker(d, k)
  PROVE  MemoryInv'
<1> USE DEF netVars, poolVars, jobVars, memoryVars
<1>1. TypeOK
  BY DEF ThreadInv
<1>2. ASSUME NEW from, NEW to, Goto(d, k, from, to)
      PROVE  /\ pc[d][k] = from /\ pc'[d][k] = to
             /\ \A e \in Devices, j \in Switches : <<e, j>> # <<d, k>> => pc'[e][j] = pc[e][j]
  BY <1>1, <1>2 DEF Goto, TypeOK
<1>3. d \notin early => MemoryOf(d, k)
  BY MemoryOfAll
<1>4. CASE StartDisabled(d, k) \/ StartFails(d, k) \/ Start(d, k)
  <2>1. PICK to \in {"done", "waitJob"} : Goto(d, k, "initialize", to)
    BY <1>4 DEF StartDisabled, StartFails, Start
  <2>2. /\ pc[d][k] = "initialize" /\ pc'[d][k] \in {"done", "waitJob"}
        /\ \A e \in Devices, j \in Switches : <<e, j>> # <<d, k>> => pc'[e][j] = pc[e][j]
    BY <1>2, <2>1
  <2>3. /\ UNCHANGED <<early, next, cur, current, last, memory, built>>
        /\ \A e \in Devices \ {d} : alive'[e] = alive[e]
    BY <1>1, <1>4 DEF StartDisabled, StartFails, Start, TypeOK
  <2>4. ~Gone(d, k) /\ (d \notin early => MemoryOf(d, k)')
    BY <1>3, <2>2, <2>3 DEF MemoryOf, Lost, Gone, InLoop, Working
  <2> QED
    BY <2>2, <2>3, <2>4, MemoryStep
<1>5. CASE WaitJob(d, k)
  <2>1. /\ pc[d][k] = "waitJob" /\ pc'[d][k] = "test" /\ current[d] # last[d]
        /\ \A e \in Devices, j \in Switches : <<e, j>> # <<d, k>> => pc'[e][j] = pc[e][j]
    BY <1>2, <1>5 DEF WaitJob
  <2>2. UNCHANGED <<early, next, cur, current, last, memory, built, alive>>
    BY <1>5 DEF WaitJob
  <2>3. ~Gone(d, k) /\ (d \notin early => MemoryOf(d, k)')
    BY <1>3, <2>1, <2>2 DEF MemoryOf, Lost, Gone
  <2> QED
    BY <2>1, <2>2, <2>3, MemoryStep
<1>6. CASE Enter(d, k) \/ Leave(d, k)
  <2>1. PICK to \in {"updateJob", "done"} : Goto(d, k, "test", to) /\ (to = "updateJob" => alive[d])
    BY <1>6 DEF Enter, Leave
  <2>2. /\ pc[d][k] = "test" /\ pc'[d][k] = to
        /\ \A e \in Devices, j \in Switches : <<e, j>> # <<d, k>> => pc'[e][j] = pc[e][j]
    BY <1>2, <2>1
  <2>3. UNCHANGED <<early, next, cur, current, last, memory, built, alive>>
    BY <1>6 DEF Enter, Leave
  <2>4. ~Gone(d, k) /\ (d \notin early => MemoryOf(d, k)')
    BY <1>3, <2>1, <2>2, <2>3 DEF MemoryOf, Lost, Gone, InLoop, Working
  <2> QED
    BY <2>2, <2>3, <2>4, MemoryStep
<1>7. CASE TakeJob(d, k)
  <2>1. /\ UNCHANGED <<early, next, current, built, alive>>
        /\ cur' = [cur EXCEPT ![d] = next[d]] /\ last' = [last EXCEPT ![d] = current[d]]
        /\ memory' = [memory EXCEPT ![d] = FALSE]
        /\ Goto(d, k, "updateJob", IF memory[d] THEN "updateMemory" ELSE "updateConstants")
    BY <1>7 DEF TakeJob
  <2>2. /\ pc[d][k] = "updateJob"
        /\ pc'[d][k] = IF memory[d] THEN "updateMemory" ELSE "updateConstants"
        /\ \A e \in Devices, j \in Switches : <<e, j>> # <<d, k>> => pc'[e][j] = pc[e][j]
    BY <1>2, <2>1
  <2>3. /\ cur'[d] = next[d]
        /\ \A e \in Devices \ {d} : cur'[e] = cur[e] /\ last'[e] = last[e] /\ memory'[e] = memory[e]
    BY <1>1, <2>1 DEF TypeOK
  <2>4. ~Gone(d, k) /\ (d \notin early => MemoryOf(d, k)')
    BY <1>3, <2>1, <2>2, <2>3 DEF MemoryOf, Lost, Gone, InLoop, Working
  <2> QED
    BY <2>1, <2>2, <2>3, <2>4, MemoryStep
<1>8. CASE KeepJob(d, k)
  <2>1. /\ pc[d][k] = "updateJob" /\ pc'[d][k] = "execute" /\ current[d] = last[d]
        /\ \A e \in Devices, j \in Switches : <<e, j>> # <<d, k>> => pc'[e][j] = pc[e][j]
    BY <1>2, <1>8 DEF KeepJob
  <2>2. UNCHANGED <<early, next, cur, current, last, memory, built, alive>>
    BY <1>8 DEF KeepJob
  <2>3. ~Gone(d, k) /\ (d \notin early => MemoryOf(d, k)')
    BY <1>3, <2>1, <2>2 DEF MemoryOf, Lost, Gone, InLoop, Working
  <2> QED
    BY <2>1, <2>2, <2>3, MemoryStep
<1>9. CASE UpdateMemory(d, k)
  <2>1. PICK memoryOk \in BOOLEAN, ok \in BOOLEAN :
          /\ ok => memoryOk
          /\ Goto(d, k, "updateMemory", "test")
          /\ built' = [built EXCEPT ![d] = @ \/ memoryOk]
          /\ alive' = [alive EXCEPT ![d] = @ /\ ok]
          /\ UNCHANGED <<early, next, cur, current, last, memory>>
    BY <1>9 DEF UpdateMemory
  <2>2. /\ pc[d][k] = "updateMemory" /\ pc'[d][k] = "test"
        /\ \A e \in Devices, j \in Switches : <<e, j>> # <<d, k>> => pc'[e][j] = pc[e][j]
    BY <1>2, <2>1
  <2>3. /\ built'[d] \/ ~alive'[d]
        /\ \A e \in Devices \ {d} : built'[e] = built[e] /\ alive'[e] = alive[e]
    BY <1>1, <2>1 DEF TypeOK
  <2>4. ~Gone(d, k) /\ MemoryOf(d, k)'
    BY <2>2, <2>3 DEF MemoryOf, Lost, Gone
  <2> QED
    BY <2>1, <2>2, <2>3, <2>4, MemoryStep
<1>10. CASE UpdateConstants(d, k) \/ Execute(d, k) \/ Submit(d, k)
  <2>1. PICK from \in {"updateConstants", "execute", "submit"}, to \in {"submit", "test"} :
          Goto(d, k, from, to)
    BY <1>10 DEF UpdateConstants, Execute, Submit
  <2>2. /\ pc[d][k] \in {"updateConstants", "execute", "submit"} /\ pc'[d][k] \in {"submit", "test"}
        /\ \A e \in Devices, j \in Switches : <<e, j>> # <<d, k>> => pc'[e][j] = pc[e][j]
    BY <1>2, <2>1
  <2>3. /\ UNCHANGED <<early, next, cur, current, last, memory, built>>
        /\ \A e \in Devices \ {d} : alive'[e] = alive[e]
    BY <1>1, <1>10 DEF UpdateConstants, Execute, Submit, TypeOK
  <2>4. ~Gone(d, k) /\ (d \notin early => MemoryOf(d, k)')
    BY <1>3, <2>2, <2>3 DEF MemoryOf, Lost, Gone, InLoop, Working
  <2> QED
    BY <2>2, <2>3, <2>4, MemoryStep
<1> QED
  BY <1>4, <1>5, <1>6, <1>7, <1>8, <1>9, <1>10 DEF Worker

LEMMA NextMemory == ThreadInv /\ JobInv /\ MemoryInv /\ [Next]_vars => MemoryInv'
<1> SUFFICES ASSUME ThreadInv, JobInv, MemoryInv, [Next]_vars PROVE MemoryInv'
  OBVIOUS
<1>1. CASE UNCHANGED vars
  <2>1. UNCHANGED <<early, alive, next, cur, current, last, memory, built, pc>>
    BY <1>1 DEF vars, netVars, jobVars, memoryVars
  <2> QED
    BY <2>1 DEF MemoryInv, Lost, Gone, InLoop, Working
<1> QED
  BY <1>1, NetworkMemory, WorkerMemory DEF Next, Over

LEMMA InitMemory == Init => MemoryInv
BY DEF Init, MemoryInv, Gone, InLoop, Working

-----------------------------------------------------------------------------
(***************************************************************************)
(* The theorems.                                                           *)
(***************************************************************************)

\* Inductive: a device that no switch killed before it was at work has one thread that lives,
\* and it calls the resolver the device has; jobs, batches and memory follow the resolver.
THEOREM SwitchesInductive == Spec => [](ThreadInv /\ JobInv /\ MemoryInv)
<1>1. Init => ThreadInv /\ JobInv /\ MemoryInv
  BY InitThreads, InitJobs, InitMemory
<1>2. ThreadInv /\ JobInv /\ MemoryInv /\ [Next]_vars => (ThreadInv /\ JobInv /\ MemoryInv)'
  BY NextThreads, NextJobs, NextMemory
<1> QED
  BY <1>1, <1>2, PTL DEF Spec

\* The variables of the session and of the devices stay in their types.
THEOREM TypeCorrect == Spec => []TypeOK
<1>1. ThreadInv => TypeOK
  BY DEF ThreadInv
<1> QED
  BY <1>1, SwitchesInductive, PTL

\* Device::setAlgorithm deletes no resolver a thread is calling, except of a device that a
\* switch killed before it was at work.
THEOREM NoDeletedResolverIsCalled == Spec => []ResolverOutlivesCalls
<1>1. ThreadInv => ResolverOutlivesCalls
  BY DEF ThreadInv
<1> QED
  BY <1>1, SwitchesInductive, PTL

\* A device has one thread that works, as ARCHITECTURE.md has it, with the same exception.
THEOREM OneThreadWorks == Spec => []OneThread
<1>1. ThreadInv => OneThread
  BY OneIsNotGone DEF OneThread, Working, Gone
<1> QED
  BY <1>1, SwitchesInductive, PTL

\* What a device executes is of its resolver's algorithm, of one that has no resolver, or the
\* clean job.
THEOREM ResolversGetTheirJobs == Spec => []RightResolver
<1>1. JobInv => RightResolver
  BY DEF JobInv, WorkFollows, RightResolver, Taken, Fits, CleanJob, InLoop, Working
<1> QED
  BY <1>1, SwitchesInductive, PTL

\* Shares are submitted to the stratum of the algorithm they were found for, or to that of an
\* algorithm that has no resolver.
THEOREM SharesGoToTheirPool == Spec => []SubmitsToItsPool
<1>1. JobInv => SubmitsToItsPool
  BY DEF JobInv, ResolversFollow, WorkFollows, SubmitsToItsPool
<1> QED
  BY <1>1, SwitchesInductive, PTL

\* A resolver that executes a job with an epoch has built its memory.
THEOREM MemoryComesFirst == Spec => []MemoryIsBuilt
<1>1. MemoryInv => MemoryIsBuilt
  BY DEF MemoryInv, MemoryIsBuilt, Lost, InLoop, Working
<1> QED
  BY <1>1, SwitchesInductive, PTL
=============================================================================
