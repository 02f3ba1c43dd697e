---------------------------- MODULE DeviceProofs ----------------------------
(***************************************************************************)
(* The devices: which jobs they are given (DeviceSync, for every set of    *)
(* devices, epochs and headers and every number of jobs), and how they     *)
(* come by their pool (StartUp, for every number of GPUs and of uuids, and *)
(* whatever the command line: of a configuration the proof uses only what  *)
(* Loads makes of it).                                                     *)
(*                                                                         *)
(* DeviceSync: each field of nextjobInfo is written before the counter     *)
(* that announces it is raised, and the worker reads a counter (snap)      *)
(* before it copies the field.  So if the counter still has the value of   *)
(* the snapshot, nothing was written since and the copy is current; if it  *)
(* has not, it is above the snapshot, hence above what update() stores.    *)
(*                                                                         *)
(* StartUp: the devices are attached in their order, each with at most one *)
(* new stratum, so while a device is not attached the next uuid is at most *)
(* its id.  With at most MAX_STRATUMS devices a uuid therefore names       *)
(* one stratum, and a job reaches the devices of its own stratum only.     *)
(***************************************************************************)
EXTENDS DeviceSync, StartUp, FiniteSetTheorems, TLAPS

\* A dispatch raises at least one of the two counters, and leaves no device behind.
DispatchRaises ==
  /\ netPc # "idle" => flags.memory \/ flags.constants
  /\ netPc = "idle" => todo = {}
  /\ netPc \notin {"idle", "device"} => netDev \notin todo

\* The memory counter of d is pending, or its epoch is written and unannounced.
MemoryPending(d) ==
  \/ netDev = d /\ flags.memory
     /\ netPc \in {"header", "nonce", "offset", "constant", "memory"}
  \/ current[d].memory # last[d].memory

ConstantPending(d) ==
  \/ netDev = d /\ flags.constants /\ netPc \in {"header", "nonce", "offset", "constant"}
  \/ current[d].constant # last[d].constant

\* nextjobInfo holds the accepted job, as far as the dispatch has come.
NextIsJob(d) ==
  /\ (d \notin todo \/ ~flags.memory) => next[d].epoch = jobInfo.epoch
  /\ ((d \notin todo /\ ~(netDev = d /\ netPc = "header")) \/ ~flags.constants)
       => next[d].header = jobInfo.header
  /\ (netDev = d /\ netPc \in {"constant", "memory", "job"}) => next[d].slice = d
  /\ (current[d].job > 0 /\ ~(netDev = d /\ netPc = "offset")) => next[d].slice = d

\* The pcs at which the snapshot of a counter is taken and not yet consumed.
MemoryTaken == {"copyEpoch", "copyHeader", "copyNonce", "updateMemory"}
ConstantTaken == MemoryTaken \cup {"getMemory", "updateConstants"}

\* Counters never run backwards: last is behind snap, snap behind current.
CountersOrdered(d) ==
  /\ last[d].job <= current[d].job /\ snap[d].job <= current[d].job
  /\ last[d].constant <= current[d].constant /\ snap[d].constant <= current[d].constant
  /\ last[d].memory <= current[d].memory /\ snap[d].memory <= current[d].memory
  /\ pc[d] \in ConstantTaken => last[d].constant <= snap[d].constant
  /\ pc[d] \in MemoryTaken => last[d].memory <= snap[d].memory

\* A worker in its loop was given a job; only one at the loop's head may be dead.
WorkerHasJob(d) ==
  /\ pc[d] \notin {"initialize", "loop", "cleanUp", "done"} => alive[d]
  /\ pc[d] \notin {"initialize", "waitJob", "done"} => current[d].job > 0

\* A device that has not been killed.
Usable(d) == alive[d] \/ pc[d] = "initialize"

\* With no memory counter pending the worker has the epoch of nextjobInfo.
EpochCurrent(d) ==
  /\ Usable(d) /\ ~MemoryPending(d)
       => cur[d].epoch = next[d].epoch /\ resolver[d].epoch = next[d].epoch
  /\ (/\ pc[d] \in {"copyHeader", "copyNonce", "updateMemory"}
      /\ snap[d].memory = current[d].memory
      /\ ~(netDev = d /\ flags.memory
             /\ netPc \in {"header", "nonce", "offset", "constant", "memory"}))
       => cur[d].epoch = next[d].epoch

\* With no constant counter pending it has the header.
HeaderCurrent(d) ==
  /\ Usable(d) /\ ~ConstantPending(d)
       => cur[d].header = next[d].header /\ resolver[d].header = next[d].header
  /\ (/\ pc[d] \in {"copyNonce", "updateMemory", "updateConstants"}
      /\ snap[d].constant = current[d].constant
      /\ ~(netDev = d /\ flags.constants
             /\ netPc \in {"header", "nonce", "offset", "constant"}))
       => cur[d].header = next[d].header

\* What the two counters will be once this pass through updateJob is over.
ConstantAfter(d) ==
  IF need[d].constant /\ pc[d] \in {"updateMemory", "updateConstants"}
  THEN snap[d].constant ELSE last[d].constant
MemoryAfter(d) ==
  IF need[d].memory /\ pc[d] = "updateMemory" THEN snap[d].memory ELSE last[d].memory

\* With neither counter pending it has the slice.
SliceCurrent(d) ==
  /\ (/\ Usable(d) /\ ~Unannounced(d)
      /\ current[d].constant = last[d].constant /\ current[d].memory = last[d].memory)
       => cur[d].slice = next[d].slice
  /\ (/\ pc[d] \in {"updateMemory", "updateConstants"} /\ ~Unannounced(d)
      /\ ConstantAfter(d) = current[d].constant /\ MemoryAfter(d) = current[d].memory)
       => cur[d].slice = next[d].slice

\* With the job counter consumed it has the whole of nextjobInfo.
JobCurrent(d) ==
  /\ current[d].job = last[d].job /\ ~Dispatching(d)
       => /\ cur[d].epoch = next[d].epoch /\ cur[d].header = next[d].header
          /\ cur[d].slice = next[d].slice
  /\ (snap[d].job = current[d].job /\ ~Dispatching(d))
       => /\ pc[d] \in {"copyHeader", "copyNonce"} => cur[d].epoch = next[d].epoch
          /\ pc[d] = "copyNonce" => cur[d].header = next[d].header

DeviceOK(d) ==
  /\ NextIsJob(d) /\ CountersOrdered(d) /\ WorkerHasJob(d)
  /\ EpochCurrent(d) /\ HeaderCurrent(d) /\ SliceCurrent(d) /\ JobCurrent(d)

\* Inductive.
IInv ==
  /\ TypeOK
  /\ DispatchRaises
  /\ \A d \in Devices : DeviceOK(d)

-----------------------------------------------------------------------------
(***************************************************************************)
(* What an assignment to one field of one device's record changes.         *)
(***************************************************************************)

Needs == [constant : BOOLEAN, memory : BOOLEAN]
BuiltFor == [epoch : Epochs \cup {NoEpoch}, header : Headers \cup {NoHeader}]

LEMMA SetEpoch ==
  ASSUME NEW f \in [Devices -> Infos], NEW g, NEW d \in Devices,
         NEW v \in Epochs \cup {NoEpoch}, g = [f EXCEPT ![d].epoch = v]
  PROVE  /\ g \in [Devices -> Infos]
         /\ g[d].epoch = v
         /\ g[d].header = f[d].header
         /\ g[d].slice = f[d].slice
         /\ \A x \in Devices : x # d => g[x] = f[x]
  BY DEF Infos

LEMMA SetHeader ==
  ASSUME NEW f \in [Devices -> Infos], NEW g, NEW d \in Devices,
         NEW v \in Headers \cup {NoHeader}, g = [f EXCEPT ![d].header = v]
  PROVE  /\ g \in [Devices -> Infos]
         /\ g[d].header = v
         /\ g[d].epoch = f[d].epoch
         /\ g[d].slice = f[d].slice
         /\ \A x \in Devices : x # d => g[x] = f[x]
  BY DEF Infos

LEMMA SetSlice ==
  ASSUME NEW f \in [Devices -> Infos], NEW g, NEW d \in Devices,
         NEW v \in Devices \cup {0}, g = [f EXCEPT ![d].slice = v]
  PROVE  /\ g \in [Devices -> Infos]
         /\ g[d].slice = v
         /\ g[d].epoch = f[d].epoch
         /\ g[d].header = f[d].header
         /\ \A x \in Devices : x # d => g[x] = f[x]
  BY DEF Infos

LEMMA SetJob ==
  ASSUME NEW f \in [Devices -> Counters], NEW g, NEW d \in Devices,
         NEW v \in Nat, g = [f EXCEPT ![d].job = v]
  PROVE  /\ g \in [Devices -> Counters]
         /\ g[d].job = v
         /\ g[d].constant = f[d].constant
         /\ g[d].memory = f[d].memory
         /\ \A x \in Devices : x # d => g[x] = f[x]
  BY DEF Counters

LEMMA SetConstant ==
  ASSUME NEW f \in [Devices -> Counters], NEW g, NEW d \in Devices,
         NEW v \in Nat, g = [f EXCEPT ![d].constant = v]
  PROVE  /\ g \in [Devices -> Counters]
         /\ g[d].constant = v
         /\ g[d].job = f[d].job
         /\ g[d].memory = f[d].memory
         /\ \A x \in Devices : x # d => g[x] = f[x]
  BY DEF Counters

LEMMA SetMemory ==
  ASSUME NEW f \in [Devices -> Counters], NEW g, NEW d \in Devices,
         NEW v \in Nat, g = [f EXCEPT ![d].memory = v]
  PROVE  /\ g \in [Devices -> Counters]
         /\ g[d].memory = v
         /\ g[d].job = f[d].job
         /\ g[d].constant = f[d].constant
         /\ \A x \in Devices : x # d => g[x] = f[x]
  BY DEF Counters

LEMMA SetNeedConstant ==
  ASSUME NEW f \in [Devices -> Needs], NEW g, NEW d \in Devices,
         NEW v \in BOOLEAN, g = [f EXCEPT ![d].constant = v]
  PROVE  /\ g \in [Devices -> Needs]
         /\ g[d].constant = v
         /\ g[d].memory = f[d].memory
         /\ \A x \in Devices : x # d => g[x] = f[x]
  BY DEF Needs

LEMMA SetNeedMemory ==
  ASSUME NEW f \in [Devices -> Needs], NEW g, NEW d \in Devices,
         NEW v \in BOOLEAN, g = [f EXCEPT ![d].memory = v]
  PROVE  /\ g \in [Devices -> Needs]
         /\ g[d].memory = v
         /\ g[d].constant = f[d].constant
         /\ \A x \in Devices : x # d => g[x] = f[x]
  BY DEF Needs

LEMMA SetBuiltEpoch ==
  ASSUME NEW f \in [Devices -> BuiltFor], NEW g, NEW d \in Devices,
         NEW v \in Epochs \cup {NoEpoch}, g = [f EXCEPT ![d].epoch = v]
  PROVE  /\ g \in [Devices -> BuiltFor]
         /\ g[d].epoch = v
         /\ g[d].header = f[d].header
         /\ \A x \in Devices : x # d => g[x] = f[x]
  BY DEF BuiltFor

LEMMA SetBuiltHeader ==
  ASSUME NEW f \in [Devices -> BuiltFor], NEW g, NEW d \in Devices,
         NEW v \in Headers \cup {NoHeader}, g = [f EXCEPT ![d].header = v]
  PROVE  /\ g \in [Devices -> BuiltFor]
         /\ g[d].header = v
         /\ g[d].epoch = f[d].epoch
         /\ \A x \in Devices : x # d => g[x] = f[x]
  BY DEF BuiltFor

-----------------------------------------------------------------------------
(***************************************************************************)
(* The network thread's steps.                                             *)
(***************************************************************************)

LEMMA AcceptJobStep ==
  ASSUME IInv, NEW j \in Jobs, AcceptJob(j)
  PROVE  IInv'
  <1>1. /\ netPc = "idle" /\ netPc' = "device"
        /\ ~(jobInfo.epoch = j.epoch /\ jobInfo.header = j.header)
        /\ flags'.memory = (jobInfo.epoch # j.epoch)
        /\ flags'.constants = (jobInfo.header # j.header)
        /\ jobInfo' = j /\ todo' = Devices
        /\ UNCHANGED <<netDev, next, current, devVars>>
    BY DEF AcceptJob, IsSameEpoch, IsSameHeader
  <1>2. TypeOK'
    <2>1. flags' \in [memory : BOOLEAN, constants : BOOLEAN]
      BY DEF AcceptJob, IsSameEpoch, IsSameHeader
    <2>2. accepted' \in 0..MaxJobs
      BY MaxJobsAssumption DEF AcceptJob, IInv, TypeOK
    <2>3. QED
      BY <1>1, <2>1, <2>2 DEF IInv, TypeOK, NetPcs, devVars
  <1>3. DispatchRaises'
    BY <1>1 DEF DispatchRaises
  <1>4. ASSUME NEW e \in Devices PROVE DeviceOK(e)'
    <2> USE <1>1 DEF IInv, TypeOK, DeviceOK, Infos, Counters, devVars, DispatchRaises
    <2>1. NextIsJob(e)'
      BY DEF NextIsJob
    <2>2. EpochCurrent(e)'
      BY DEF EpochCurrent, MemoryPending, Usable, NextIsJob
    <2>3. HeaderCurrent(e)'
      BY DEF HeaderCurrent, ConstantPending, Usable, NextIsJob
    <2>4. /\ CountersOrdered(e)' /\ WorkerHasJob(e)' /\ SliceCurrent(e)'
          /\ JobCurrent(e)'
      BY DEF CountersOrdered, WorkerHasJob, SliceCurrent, Usable, Unannounced,
             ConstantAfter, MemoryAfter, JobCurrent, Dispatching, NextIsJob
    <2>5. QED
      BY <2>1, <2>2, <2>3, <2>4
  <1>5. QED
    BY <1>2, <1>3, <1>4 DEF IInv

LEMMA UpdateEpochStep ==
  ASSUME IInv, NEW d \in Devices, UpdateEpoch(d)
  PROVE  IInv'
  <1>1. /\ netPc = "device" /\ netPc' = "header"
        /\ d \in todo /\ todo' = todo \ {d}
        /\ netDev' = d
        /\ UNCHANGED <<jobInfo, accepted, flags, current, devVars>>
    BY DEF UpdateEpoch
  <1>2. /\ next' \in [Devices -> Infos]
        /\ next'[d].epoch = jobInfo.epoch
        /\ next'[d].header = next[d].header /\ next'[d].slice = next[d].slice
        /\ \A x \in Devices : x # d => next'[x] = next[x]
    <2>1. /\ jobInfo.epoch \in Epochs \cup {NoEpoch}
          /\ next \in [Devices -> Infos]
      BY DEF IInv, TypeOK, Jobs, EmptyJob
    <2>2. next' = [next EXCEPT ![d].epoch = jobInfo.epoch]
      BY DEF UpdateEpoch
    <2>3. QED
      BY <2>1, <2>2, SetEpoch
  <1>3. TypeOK'
    BY <1>1, <1>2 DEF IInv, TypeOK, NetPcs, devVars
  <1>4. DispatchRaises'
    BY <1>1 DEF IInv, TypeOK, DispatchRaises
  <1>5. ASSUME NEW e \in Devices PROVE DeviceOK(e)'
    <2> USE <1>1, <1>2 DEF IInv, TypeOK, DeviceOK, Infos, Counters, devVars, DispatchRaises
    <2>1. NextIsJob(e)'
      BY DEF NextIsJob
    <2>2. EpochCurrent(e)'
      BY DEF EpochCurrent, MemoryPending, Usable, NextIsJob
    <2>3. /\ CountersOrdered(e)' /\ WorkerHasJob(e)' /\ HeaderCurrent(e)'
          /\ SliceCurrent(e)' /\ JobCurrent(e)'
      BY DEF CountersOrdered, WorkerHasJob, HeaderCurrent, ConstantPending, Usable,
             NextIsJob, SliceCurrent, Unannounced, ConstantAfter, MemoryAfter,
             JobCurrent, Dispatching
    <2>4. QED
      BY <2>1, <2>2, <2>3
  <1>6. QED
    BY <1>3, <1>4, <1>5 DEF IInv

LEMMA UpdateHeaderStep ==
  ASSUME IInv, UpdateHeader
  PROVE  IInv'
  <1>1. /\ netPc = "header" /\ netPc' = "nonce"
        /\ UNCHANGED <<jobInfo, accepted, netDev, todo, flags, current, devVars>>
    BY DEF UpdateHeader
  <1>2. /\ next' \in [Devices -> Infos]
        /\ next'[netDev].header = jobInfo.header
        /\ next'[netDev].epoch = next[netDev].epoch
        /\ next'[netDev].slice = next[netDev].slice
        /\ \A x \in Devices : x # netDev => next'[x] = next[x]
    <2>1. /\ netDev \in Devices /\ jobInfo.header \in Headers \cup {NoHeader}
          /\ next \in [Devices -> Infos]
      BY DEF IInv, TypeOK, Jobs, EmptyJob
    <2>2. next' = [next EXCEPT ![netDev].header = jobInfo.header]
      BY DEF UpdateHeader
    <2>3. QED
      BY <2>1, <2>2, SetHeader
  <1>3. TypeOK'
    BY <1>1, <1>2 DEF IInv, TypeOK, NetPcs, devVars
  <1>4. DispatchRaises'
    BY <1>1 DEF IInv, TypeOK, DispatchRaises
  <1>5. ASSUME NEW e \in Devices PROVE DeviceOK(e)'
    <2> USE <1>1, <1>2 DEF IInv, TypeOK, DeviceOK, Infos, Counters, devVars, DispatchRaises
    <2>1. NextIsJob(e)'
      BY DEF NextIsJob
    <2>2. HeaderCurrent(e)'
      BY DEF HeaderCurrent, ConstantPending, Usable, NextIsJob
    <2>3. /\ CountersOrdered(e)' /\ WorkerHasJob(e)' /\ EpochCurrent(e)'
          /\ SliceCurrent(e)' /\ JobCurrent(e)'
      BY DEF CountersOrdered, WorkerHasJob, EpochCurrent, MemoryPending, Usable,
             NextIsJob, SliceCurrent, Unannounced, ConstantAfter, MemoryAfter,
             JobCurrent, Dispatching
    <2>4. QED
      BY <2>1, <2>2, <2>3
  <1>6. QED
    BY <1>3, <1>4, <1>5 DEF IInv

LEMMA UpdateNonceStep ==
  ASSUME IInv, UpdateNonce
  PROVE  IInv'
  <1>1. /\ netPc = "nonce" /\ netPc' = "offset"
        /\ UNCHANGED <<jobInfo, accepted, netDev, todo, flags, current, devVars>>
    BY DEF UpdateNonce
  <1>2. /\ next' \in [Devices -> Infos]
        /\ next'[netDev].epoch = next[netDev].epoch
        /\ next'[netDev].header = next[netDev].header
        /\ \A x \in Devices : x # netDev => next'[x] = next[x]
    <2>1. /\ netDev \in Devices /\ 0 \in Devices \cup {0}
          /\ next \in [Devices -> Infos]
      BY DEF IInv, TypeOK
    <2>2. next' = [next EXCEPT ![netDev].slice = 0]
      BY DEF UpdateNonce
    <2>3. QED
      BY <2>1, <2>2, SetSlice
  <1>3. TypeOK'
    BY <1>1, <1>2 DEF IInv, TypeOK, NetPcs, devVars
  <1>4. DispatchRaises'
    BY <1>1 DEF IInv, TypeOK, DispatchRaises
  <1>5. ASSUME NEW e \in Devices PROVE DeviceOK(e)'
    <2> USE <1>1, <1>2 DEF IInv, TypeOK, DeviceOK, Infos, Counters, devVars, DispatchRaises
    <2>1. NextIsJob(e)'
      BY DEF NextIsJob
    <2>2. SliceCurrent(e)'
      BY DEF SliceCurrent, Usable, Unannounced, ConstantAfter, MemoryAfter
    <2>3. JobCurrent(e)'
      BY DEF JobCurrent, Dispatching, NextIsJob
    <2>4. /\ CountersOrdered(e)' /\ WorkerHasJob(e)' /\ EpochCurrent(e)'
          /\ HeaderCurrent(e)'
      BY SMTT(20) DEF CountersOrdered, WorkerHasJob, EpochCurrent, MemoryPending, Usable,
             NextIsJob, HeaderCurrent, ConstantPending
    <2>5. QED
      BY <2>1, <2>2, <2>3, <2>4
  <1>6. QED
    BY <1>3, <1>4, <1>5 DEF IInv

LEMMA UpdateOffsetStep ==
  ASSUME IInv, UpdateOffset
  PROVE  IInv'
  <1>1. /\ netPc = "offset" /\ netPc' = "constant"
        /\ UNCHANGED <<jobInfo, accepted, netDev, todo, flags, current, devVars>>
    BY DEF UpdateOffset
  <1>2. /\ next' \in [Devices -> Infos]
        /\ next'[netDev].slice = netDev
        /\ next'[netDev].epoch = next[netDev].epoch
        /\ next'[netDev].header = next[netDev].header
        /\ \A x \in Devices : x # netDev => next'[x] = next[x]
    <2>1. /\ netDev \in Devices /\ netDev \in Devices \cup {0}
          /\ next \in [Devices -> Infos]
      BY DEF IInv, TypeOK
    <2>2. next' = [next EXCEPT ![netDev].slice = netDev]
      BY DEF UpdateOffset
    <2>3. QED
      BY <2>1, <2>2, SetSlice
  <1>3. TypeOK'
    BY <1>1, <1>2 DEF IInv, TypeOK, NetPcs, devVars
  <1>4. DispatchRaises'
    BY <1>1 DEF IInv, TypeOK, DispatchRaises
  <1>5. ASSUME NEW e \in Devices PROVE DeviceOK(e)'
    <2> USE <1>1, <1>2 DEF IInv, TypeOK, DeviceOK, Infos, Counters, devVars, DispatchRaises
    <2>1. NextIsJob(e)'
      BY DEF NextIsJob
    <2>2. SliceCurrent(e)'
      BY DEF SliceCurrent, Usable, Unannounced, ConstantAfter, MemoryAfter
    <2>3. JobCurrent(e)'
      BY DEF JobCurrent, Dispatching, NextIsJob
    <2>4. /\ CountersOrdered(e)' /\ WorkerHasJob(e)' /\ EpochCurrent(e)'
          /\ HeaderCurrent(e)'
      BY SMTT(20) DEF CountersOrdered, WorkerHasJob, EpochCurrent, MemoryPending, Usable,
             NextIsJob, HeaderCurrent, ConstantPending
    <2>5. QED
      BY <2>1, <2>2, <2>3, <2>4
  <1>6. QED
    BY <1>3, <1>4, <1>5 DEF IInv

LEMMA AddConstantStep ==
  ASSUME IInv, AddConstant
  PROVE  IInv'
  <1>1. /\ netPc = "constant" /\ netPc' = "memory"
        /\ UNCHANGED <<jobInfo, accepted, netDev, todo, flags, next, devVars>>
    BY DEF AddConstant
  <1>2. /\ current' \in [Devices -> Counters]
        /\ flags.constants => current'[netDev].constant = current[netDev].constant + 1
        /\ ~flags.constants => current'[netDev].constant = current[netDev].constant
        /\ current'[netDev].job = current[netDev].job
        /\ current'[netDev].memory = current[netDev].memory
        /\ \A x \in Devices : x # netDev => current'[x] = current[x]
    <2>1. /\ netDev \in Devices /\ current[netDev].constant + 1 \in Nat
          /\ current \in [Devices -> Counters]
      BY DEF IInv, TypeOK, Counters
    <2>2. CASE flags.constants
      <3>1. current' = [current EXCEPT ![netDev].constant = @ + 1]
        BY <2>2 DEF AddConstant
      <3>2. QED
        BY <2>1, <2>2, <3>1, SetConstant
    <2>3. CASE ~flags.constants
      <3>1. current' = current
        BY <2>3 DEF AddConstant
      <3>2. QED
        BY <2>1, <2>3, <3>1
    <2>4. QED
      BY <2>2, <2>3
  <1>3. TypeOK'
    BY <1>1, <1>2 DEF IInv, TypeOK, NetPcs, devVars
  <1>4. DispatchRaises'
    BY <1>1 DEF IInv, TypeOK, DispatchRaises
  <1>5. ASSUME NEW e \in Devices PROVE DeviceOK(e)'
    <2>n. /\ current[e] \in Counters /\ last[e] \in Counters /\ snap[e] \in Counters
          /\ current'[e] \in Counters
      BY <1>2 DEF IInv, TypeOK
    <2>c. /\ (netDev = e /\ flags.constants) => current'[e].constant = current[e].constant + 1
          /\ ~(netDev = e /\ flags.constants) => current'[e].constant = current[e].constant
          /\ current'[e].job = current[e].job
          /\ current'[e].memory = current[e].memory
      BY <1>2
    <2> USE <1>1, <2>n, <2>c DEF IInv, DeviceOK, Counters, devVars, DispatchRaises
    <2>1. CountersOrdered(e)'
      BY DEF CountersOrdered
    <2>2. HeaderCurrent(e)'
      BY DEF HeaderCurrent, ConstantPending, Usable, NextIsJob, CountersOrdered
    <2>3. SliceCurrent(e)'
      BY DEF SliceCurrent, Usable, Unannounced, ConstantAfter, MemoryAfter, CountersOrdered
    <2>4. /\ NextIsJob(e)' /\ WorkerHasJob(e)' /\ EpochCurrent(e)'
          /\ JobCurrent(e)'
      BY DEF NextIsJob, WorkerHasJob, EpochCurrent, MemoryPending, Usable, JobCurrent,
             Dispatching
    <2>5. QED
      BY <2>1, <2>2, <2>3, <2>4
  <1>6. QED
    BY <1>3, <1>4, <1>5 DEF IInv

LEMMA AddMemoryStep ==
  ASSUME IInv, AddMemory
  PROVE  IInv'
  <1>1. /\ netPc = "memory" /\ netPc' = "job"
        /\ UNCHANGED <<jobInfo, accepted, netDev, todo, flags, next, devVars>>
    BY DEF AddMemory
  <1>2. /\ current' \in [Devices -> Counters]
        /\ flags.memory => current'[netDev].memory = current[netDev].memory + 1
        /\ ~flags.memory => current'[netDev].memory = current[netDev].memory
        /\ current'[netDev].job = current[netDev].job
        /\ current'[netDev].constant = current[netDev].constant
        /\ \A x \in Devices : x # netDev => current'[x] = current[x]
    <2>1. /\ netDev \in Devices /\ current[netDev].memory + 1 \in Nat
          /\ current \in [Devices -> Counters]
      BY DEF IInv, TypeOK, Counters
    <2>2. CASE flags.memory
      <3>1. current' = [current EXCEPT ![netDev].memory = @ + 1]
        BY <2>2 DEF AddMemory
      <3>2. QED
        BY <2>1, <2>2, <3>1, SetMemory
    <2>3. CASE ~flags.memory
      <3>1. current' = current
        BY <2>3 DEF AddMemory
      <3>2. QED
        BY <2>1, <2>3, <3>1
    <2>4. QED
      BY <2>2, <2>3
  <1>3. TypeOK'
    BY <1>1, <1>2 DEF IInv, TypeOK, NetPcs, devVars
  <1>4. DispatchRaises'
    BY <1>1 DEF IInv, TypeOK, DispatchRaises
  <1>5. ASSUME NEW e \in Devices PROVE DeviceOK(e)'
    <2>n. /\ current[e] \in Counters /\ last[e] \in Counters /\ snap[e] \in Counters
          /\ current'[e] \in Counters
      BY <1>2 DEF IInv, TypeOK
    <2>c. /\ (netDev = e /\ flags.memory) => current'[e].memory = current[e].memory + 1
          /\ ~(netDev = e /\ flags.memory) => current'[e].memory = current[e].memory
          /\ current'[e].job = current[e].job
          /\ current'[e].constant = current[e].constant
      BY <1>2
    <2> USE <1>1, <2>n, <2>c DEF IInv, DeviceOK, Counters, devVars, DispatchRaises
    <2>1. CountersOrdered(e)'
      BY DEF CountersOrdered
    <2>2. EpochCurrent(e)'
      BY DEF EpochCurrent, MemoryPending, Usable, NextIsJob, CountersOrdered
    <2>3. SliceCurrent(e)'
      BY DEF SliceCurrent, Usable, Unannounced, ConstantAfter, MemoryAfter, CountersOrdered
    <2>4. /\ NextIsJob(e)' /\ WorkerHasJob(e)' /\ HeaderCurrent(e)'
          /\ JobCurrent(e)'
      BY DEF NextIsJob, WorkerHasJob, HeaderCurrent, ConstantPending, Usable,
             JobCurrent, Dispatching
    <2>5. QED
      BY <2>1, <2>2, <2>3, <2>4
  <1>6. QED
    BY <1>3, <1>4, <1>5 DEF IInv

LEMMA AddJobStep ==
  ASSUME IInv, AddJob
  PROVE  IInv'
  <1>1. /\ netPc = "job" /\ netPc' = IF todo = {} THEN "idle" ELSE "device"
        /\ UNCHANGED <<jobInfo, accepted, netDev, todo, flags, next, devVars>>
    BY DEF AddJob
  <1>2. /\ current' \in [Devices -> Counters]
        /\ current'[netDev].job = current[netDev].job + 1
        /\ current'[netDev].constant = current[netDev].constant
        /\ current'[netDev].memory = current[netDev].memory
        /\ \A x \in Devices : x # netDev => current'[x] = current[x]
    <2>1. /\ netDev \in Devices /\ current[netDev].job + 1 \in Nat
          /\ current \in [Devices -> Counters]
      BY DEF IInv, TypeOK, Counters
    <2>2. current' = [current EXCEPT ![netDev].job = @ + 1]
      BY DEF AddJob
    <2>3. QED
      BY <2>1, <2>2, SetJob
  <1>3. TypeOK'
    BY <1>1, <1>2 DEF IInv, TypeOK, NetPcs, devVars
  <1>4. DispatchRaises'
    BY <1>1 DEF IInv, TypeOK, DispatchRaises
  <1>5. ASSUME NEW e \in Devices PROVE DeviceOK(e)'
    <2>n. /\ current[e] \in Counters /\ last[e] \in Counters /\ snap[e] \in Counters
          /\ current'[e] \in Counters
      BY <1>2 DEF IInv, TypeOK
    <2>c. /\ (netDev = e) => current'[e].job = current[e].job + 1
          /\ ~(netDev = e) => current'[e].job = current[e].job
          /\ current'[e].constant = current[e].constant
          /\ current'[e].memory = current[e].memory
      BY <1>2
    <2> USE <1>1, <2>n, <2>c DEF IInv, DeviceOK, Counters, devVars, DispatchRaises
    <2>1. NextIsJob(e)'
      BY DEF NextIsJob
    <2>2. CountersOrdered(e)'
      BY DEF CountersOrdered
    <2>3. WorkerHasJob(e)'
      BY DEF WorkerHasJob
    <2>4. JobCurrent(e)'
      BY DEF JobCurrent, Dispatching, NextIsJob, CountersOrdered
    <2>5. EpochCurrent(e)' /\ HeaderCurrent(e)' /\ SliceCurrent(e)'
      BY DEF EpochCurrent, MemoryPending, Usable, NextIsJob, HeaderCurrent,
             ConstantPending, SliceCurrent, Unannounced, ConstantAfter, MemoryAfter
    <2>6. QED
      BY <2>1, <2>2, <2>3, <2>4, <2>5
  <1>6. QED
    BY <1>3, <1>4, <1>5 DEF IInv

-----------------------------------------------------------------------------
(***************************************************************************)
(* The worker's steps.                                                     *)
(***************************************************************************)

LEMMA Squeeze ==
  ASSUME NEW a \in Nat, NEW b \in Nat, NEW c \in Nat, a <= b, b <= c
  PROVE  a = c => b = c
  OBVIOUS

\* The steps that only move the worker or kill its device.
LEMMA ControlStep ==
  ASSUME IInv, NEW d \in Devices,
         \/ Start(d) \/ StartFails(d) \/ WaitJob(d) \/ LeaveLoop(d) \/ CleanUp(d)
         \/ NeedJob(d) \/ Execute(d) \/ ExecuteFails(d)
  PROVE  IInv'
  <1>1. /\ UNCHANGED <<netVars, next, current, last, need, snap, cur, resolver>>
        /\ pc' \in [Devices -> WorkerPcs] /\ alive' \in [Devices -> BOOLEAN]
        /\ \A x \in Devices : x # d => pc'[x] = pc[x] /\ alive'[x] = alive[x]
        /\ pc'[d] \in {"waitJob", "loop", "needConstant", "execute", "cleanUp", "done"}
    BY DEF Start, StartFails, WaitJob, LeaveLoop, CleanUp, NeedJob, Execute,
           ExecuteFails, Goto, IInv, TypeOK, WorkerPcs
  <1>2. /\ Usable(d)' => Usable(d)
        /\ pc'[d] \in {"waitJob", "needConstant", "execute"} => alive'[d]
    BY DEF Start, StartFails, WaitJob, LeaveLoop, CleanUp, NeedJob, Execute,
           ExecuteFails, Goto, IInv, TypeOK, Usable, DeviceOK, WorkerHasJob
  <1>3. pc'[d] \in {"loop", "needConstant", "execute", "cleanUp"} => current[d].job > 0
    <2>1. /\ current[d].job \in Nat /\ last[d].job \in Nat
          /\ last[d].job <= current[d].job
      BY DEF IInv, TypeOK, Counters, DeviceOK, CountersOrdered
    <2>2. CASE WaitJob(d)
      BY <2>1, <2>2 DEF WaitJob
    <2>3. CASE ~WaitJob(d)
      BY <2>3 DEF Start, StartFails, LeaveLoop, CleanUp, NeedJob, Execute,
                  ExecuteFails, Goto, IInv, TypeOK, DeviceOK, WorkerHasJob
    <2>4. QED
      BY <2>2, <2>3
  <1>4. TypeOK'
    BY <1>1 DEF IInv, TypeOK, netVars
  <1>5. DispatchRaises'
    BY <1>1 DEF IInv, DispatchRaises, netVars
  <1>6. ASSUME NEW e \in Devices PROVE DeviceOK(e)'
    <2> USE <1>1, <1>2, <1>3 DEF IInv, DeviceOK, netVars
    <2>1. WorkerHasJob(e)'
      BY DEF WorkerHasJob
    <2>2. EpochCurrent(e)'
      BY DEF EpochCurrent, MemoryPending, Usable, NextIsJob
    <2>3. HeaderCurrent(e)'
      BY DEF HeaderCurrent, ConstantPending, Usable, NextIsJob
    <2>4. /\ NextIsJob(e)' /\ CountersOrdered(e)' /\ SliceCurrent(e)'
          /\ JobCurrent(e)'
      BY DEF NextIsJob, CountersOrdered, MemoryTaken, ConstantTaken, SliceCurrent,
             Usable, Unannounced, ConstantAfter, MemoryAfter, JobCurrent, Dispatching
    <2>5. QED
      BY <2>1, <2>2, <2>3, <2>4
  <1>7. QED
    BY <1>4, <1>5, <1>6 DEF IInv

LEMMA NeedConstantStep ==
  ASSUME IInv, NEW d \in Devices, NeedConstant(d)
  PROVE  IInv'
  <1>1. /\ pc[d] = "needConstant"
        /\ pc' \in [Devices -> WorkerPcs]
        /\ pc'[d] = "needMemory"
        /\ \A x \in Devices : x # d => pc'[x] = pc[x]
        /\ UNCHANGED <<netVars, next, current, alive, last, snap, cur, resolver>>
    BY DEF NeedConstant, Goto, IInv, TypeOK, WorkerPcs
  <1>2. /\ need' \in [Devices -> Needs]
        /\ need'[d].memory = need[d].memory
        /\ \A x \in Devices : x # d => need'[x] = need[x]
    <2>1. need \in [Devices -> Needs]
      BY DEF IInv, TypeOK, Needs
    <2>2. PICK v \in BOOLEAN : need' = [need EXCEPT ![d].constant = v]
      BY DEF NeedConstant
    <2>3. QED
      BY <2>1, <2>2, SetNeedConstant
  <1>3. TypeOK'
    BY <1>1, <1>2 DEF IInv, TypeOK, netVars, Needs
  <1>4. DispatchRaises'
    BY <1>1 DEF IInv, DispatchRaises, netVars
  <1>5. ASSUME NEW e \in Devices PROVE DeviceOK(e)'
    <2>n. /\ current[e] \in Counters /\ last[e] \in Counters /\ snap[e] \in Counters
      BY DEF IInv, TypeOK
    <2> USE <1>1, <1>2, <2>n DEF IInv, DeviceOK, Infos, Counters, netVars
    <2>1. WorkerHasJob(e)'
      BY DEF WorkerHasJob
    <2>2. /\ NextIsJob(e)' /\ CountersOrdered(e)' /\ EpochCurrent(e)'
          /\ HeaderCurrent(e)' /\ SliceCurrent(e)' /\ JobCurrent(e)'
      BY DEF NextIsJob, CountersOrdered, MemoryTaken, ConstantTaken, EpochCurrent,
             MemoryPending, Usable, HeaderCurrent, ConstantPending, SliceCurrent,
             Unannounced, ConstantAfter, MemoryAfter, JobCurrent, Dispatching
    <2>3. QED
      BY <2>1, <2>2
  <1>6. QED
    BY <1>3, <1>4, <1>5 DEF IInv

LEMMA NeedMemoryStep ==
  ASSUME IInv, NEW d \in Devices, NeedMemory(d)
  PROVE  IInv'
  <1>1. /\ pc[d] = "needMemory"
        /\ pc' \in [Devices -> WorkerPcs]
        /\ pc'[d] \in {"getJob", "execute"}
        /\ \A x \in Devices : x # d => pc'[x] = pc[x]
        /\ UNCHANGED <<netVars, next, current, alive, last, snap, cur, resolver>>
    BY DEF NeedMemory, Goto, IInv, TypeOK, WorkerPcs
  <1>2. /\ need' \in [Devices -> Needs]
        /\ need'[d].constant = need[d].constant
        /\ \A x \in Devices : x # d => need'[x] = need[x]
    <2>1. need \in [Devices -> Needs]
      BY DEF IInv, TypeOK, Needs
    <2>2. PICK v \in BOOLEAN : need' = [need EXCEPT ![d].memory = v]
      BY DEF NeedMemory
    <2>3. QED
      BY <2>1, <2>2, SetNeedMemory
  <1>3. TypeOK'
    BY <1>1, <1>2 DEF IInv, TypeOK, netVars, Needs
  <1>4. DispatchRaises'
    BY <1>1 DEF IInv, DispatchRaises, netVars
  <1>5. ASSUME NEW e \in Devices PROVE DeviceOK(e)'
    <2>n. /\ current[e] \in Counters /\ last[e] \in Counters /\ snap[e] \in Counters
      BY DEF IInv, TypeOK
    <2> USE <1>1, <1>2, <2>n DEF IInv, DeviceOK, Infos, Counters, netVars
    <2>1. WorkerHasJob(e)'
      BY DEF WorkerHasJob
    <2>2. /\ NextIsJob(e)' /\ CountersOrdered(e)' /\ EpochCurrent(e)'
          /\ HeaderCurrent(e)' /\ SliceCurrent(e)' /\ JobCurrent(e)'
      BY DEF NextIsJob, CountersOrdered, MemoryTaken, ConstantTaken, EpochCurrent,
             MemoryPending, Usable, HeaderCurrent, ConstantPending, SliceCurrent,
             Unannounced, ConstantAfter, MemoryAfter, JobCurrent, Dispatching
    <2>3. QED
      BY <2>1, <2>2
  <1>6. QED
    BY <1>3, <1>4, <1>5 DEF IInv

LEMMA GetJobStep ==
  ASSUME IInv, NEW d \in Devices, GetJob(d)
  PROVE  IInv'
  <1>1. /\ pc[d] = "getJob"
        /\ pc' \in [Devices -> WorkerPcs]
        /\ pc'[d] = "getConstant"
        /\ \A x \in Devices : x # d => pc'[x] = pc[x]
        /\ UNCHANGED <<netVars, next, current, alive, last, need, cur, resolver>>
    BY DEF GetJob, Goto, IInv, TypeOK, WorkerPcs
  <1>2. /\ snap' \in [Devices -> Counters]
        /\ snap'[d].job = current[d].job
        /\ snap'[d].constant = snap[d].constant
        /\ snap'[d].memory = snap[d].memory
        /\ \A x \in Devices : x # d => snap'[x] = snap[x]
    <2>1. snap \in [Devices -> Counters] /\ current[d].job \in Nat
      BY DEF IInv, TypeOK, Infos, Counters, Needs, BuiltFor
    <2>2. snap' = [snap EXCEPT ![d].job = current[d].job]
      BY DEF GetJob
    <2>3. QED
      BY <2>1, <2>2, SetJob
  <1>3. TypeOK'
    BY <1>1, <1>2 DEF IInv, TypeOK, netVars
  <1>4. DispatchRaises'
    BY <1>1 DEF IInv, DispatchRaises, netVars
  <1>5. ASSUME NEW e \in Devices PROVE DeviceOK(e)'
    <2>n. /\ current[e] \in Counters /\ last[e] \in Counters /\ snap[e] \in Counters
      BY DEF IInv, TypeOK
    <2> USE <1>1, <1>2, <2>n DEF IInv, DeviceOK, Infos, Counters, netVars
    <2>1. CountersOrdered(e)'
      BY DEF CountersOrdered, MemoryTaken, ConstantTaken
    <2>2. JobCurrent(e)'
      BY DEF JobCurrent, Dispatching, NextIsJob
    <2>3. /\ NextIsJob(e)' /\ WorkerHasJob(e)' /\ EpochCurrent(e)'
          /\ HeaderCurrent(e)' /\ SliceCurrent(e)'
      BY DEF NextIsJob, WorkerHasJob, EpochCurrent, MemoryPending, Usable,
             HeaderCurrent, ConstantPending, SliceCurrent, Unannounced, ConstantAfter,
             MemoryAfter
    <2>4. QED
      BY <2>1, <2>2, <2>3
  <1>6. QED
    BY <1>3, <1>4, <1>5 DEF IInv

LEMMA GetConstantStep ==
  ASSUME IInv, NEW d \in Devices, GetConstant(d)
  PROVE  IInv'
  <1>1. /\ pc[d] = "getConstant"
        /\ pc' \in [Devices -> WorkerPcs]
        /\ pc'[d] = "getMemory"
        /\ \A x \in Devices : x # d => pc'[x] = pc[x]
        /\ UNCHANGED <<netVars, next, current, alive, last, need, cur, resolver>>
    BY DEF GetConstant, Goto, IInv, TypeOK, WorkerPcs
  <1>2. /\ snap' \in [Devices -> Counters]
        /\ snap'[d].constant = current[d].constant
        /\ snap'[d].job = snap[d].job
        /\ snap'[d].memory = snap[d].memory
        /\ \A x \in Devices : x # d => snap'[x] = snap[x]
    <2>1. snap \in [Devices -> Counters] /\ current[d].constant \in Nat
      BY DEF IInv, TypeOK, Infos, Counters, Needs, BuiltFor
    <2>2. snap' = [snap EXCEPT ![d].constant = current[d].constant]
      BY DEF GetConstant
    <2>3. QED
      BY <2>1, <2>2, SetConstant
  <1>3. TypeOK'
    BY <1>1, <1>2 DEF IInv, TypeOK, netVars
  <1>4. DispatchRaises'
    BY <1>1 DEF IInv, DispatchRaises, netVars
  <1>5. ASSUME NEW e \in Devices PROVE DeviceOK(e)'
    <2>n. /\ current[e] \in Counters /\ last[e] \in Counters /\ snap[e] \in Counters
      BY DEF IInv, TypeOK
    <2> USE <1>1, <1>2, <2>n DEF IInv, DeviceOK, Infos, Counters, netVars
    <2>1. CountersOrdered(e)'
      BY DEF CountersOrdered, MemoryTaken, ConstantTaken
    <2>2. HeaderCurrent(e)'
      BY DEF HeaderCurrent, ConstantPending, Usable, NextIsJob
    <2>3. /\ NextIsJob(e)' /\ WorkerHasJob(e)' /\ EpochCurrent(e)'
          /\ SliceCurrent(e)' /\ JobCurrent(e)'
      BY DEF NextIsJob, WorkerHasJob, EpochCurrent, MemoryPending, Usable,
             SliceCurrent, Unannounced, ConstantAfter, MemoryAfter, JobCurrent,
             Dispatching
    <2>4. QED
      BY <2>1, <2>2, <2>3
  <1>6. QED
    BY <1>3, <1>4, <1>5 DEF IInv

LEMMA GetMemoryStep ==
  ASSUME IInv, NEW d \in Devices, GetMemory(d)
  PROVE  IInv'
  <1>1. /\ pc[d] = "getMemory"
        /\ pc' \in [Devices -> WorkerPcs]
        /\ pc'[d] = "copyEpoch"
        /\ \A x \in Devices : x # d => pc'[x] = pc[x]
        /\ UNCHANGED <<netVars, next, current, alive, last, need, cur, resolver>>
    BY DEF GetMemory, Goto, IInv, TypeOK, WorkerPcs
  <1>2. /\ snap' \in [Devices -> Counters]
        /\ snap'[d].memory = current[d].memory
        /\ snap'[d].job = snap[d].job
        /\ snap'[d].constant = snap[d].constant
        /\ \A x \in Devices : x # d => snap'[x] = snap[x]
    <2>1. snap \in [Devices -> Counters] /\ current[d].memory \in Nat
      BY DEF IInv, TypeOK, Infos, Counters, Needs, BuiltFor
    <2>2. snap' = [snap EXCEPT ![d].memory = current[d].memory]
      BY DEF GetMemory
    <2>3. QED
      BY <2>1, <2>2, SetMemory
  <1>3. TypeOK'
    BY <1>1, <1>2 DEF IInv, TypeOK, netVars
  <1>4. DispatchRaises'
    BY <1>1 DEF IInv, DispatchRaises, netVars
  <1>5. ASSUME NEW e \in Devices PROVE DeviceOK(e)'
    <2>n. /\ current[e] \in Counters /\ last[e] \in Counters /\ snap[e] \in Counters
      BY DEF IInv, TypeOK
    <2> USE <1>1, <1>2, <2>n DEF IInv, DeviceOK, Infos, Counters, netVars
    <2>1. CountersOrdered(e)'
      BY DEF CountersOrdered, MemoryTaken, ConstantTaken
    <2>2. EpochCurrent(e)'
      BY DEF EpochCurrent, MemoryPending, Usable, NextIsJob
    <2>3. /\ NextIsJob(e)' /\ WorkerHasJob(e)' /\ HeaderCurrent(e)'
          /\ SliceCurrent(e)' /\ JobCurrent(e)'
      BY DEF NextIsJob, WorkerHasJob, HeaderCurrent, ConstantPending, Usable,
             SliceCurrent, Unannounced, ConstantAfter, MemoryAfter, JobCurrent,
             Dispatching
    <2>4. QED
      BY <2>1, <2>2, <2>3
  <1>6. QED
    BY <1>3, <1>4, <1>5 DEF IInv

LEMMA CopyEpochStep ==
  ASSUME IInv, NEW d \in Devices, CopyEpoch(d)
  PROVE  IInv'
  <1>1. /\ pc[d] = "copyEpoch"
        /\ pc' \in [Devices -> WorkerPcs]
        /\ pc'[d] = "copyHeader"
        /\ \A x \in Devices : x # d => pc'[x] = pc[x]
        /\ UNCHANGED <<netVars, next, current, alive, last, need, snap, resolver>>
    BY DEF CopyEpoch, Goto, IInv, TypeOK, WorkerPcs
  <1>2. /\ cur' \in [Devices -> Infos]
        /\ cur'[d].epoch = next[d].epoch
        /\ cur'[d].header = cur[d].header
        /\ cur'[d].slice = cur[d].slice
        /\ \A x \in Devices : x # d => cur'[x] = cur[x]
    <2>1. cur \in [Devices -> Infos] /\ next[d].epoch \in Epochs \cup {NoEpoch}
      BY DEF IInv, TypeOK, Infos, Counters, Needs, BuiltFor
    <2>2. cur' = [cur EXCEPT ![d].epoch = next[d].epoch]
      BY DEF CopyEpoch
    <2>3. QED
      BY <2>1, <2>2, SetEpoch
  <1>3. TypeOK'
    BY <1>1, <1>2 DEF IInv, TypeOK, netVars
  <1>4. DispatchRaises'
    BY <1>1 DEF IInv, DispatchRaises, netVars
  <1>5. ASSUME NEW e \in Devices PROVE DeviceOK(e)'
    <2>n. /\ current[e] \in Counters /\ last[e] \in Counters /\ snap[e] \in Counters
      BY DEF IInv, TypeOK
    <2> USE <1>1, <1>2, <2>n DEF IInv, DeviceOK, Infos, Counters, netVars
    <2>1. EpochCurrent(e)'
      BY DEF EpochCurrent, MemoryPending, Usable, NextIsJob
    <2>2. JobCurrent(e)'
      BY DEF JobCurrent, Dispatching, NextIsJob
    <2>3. /\ NextIsJob(e)' /\ CountersOrdered(e)' /\ WorkerHasJob(e)'
          /\ HeaderCurrent(e)' /\ SliceCurrent(e)'
      BY DEF NextIsJob, CountersOrdered, MemoryTaken, ConstantTaken, WorkerHasJob,
             HeaderCurrent, ConstantPending, Usable, SliceCurrent, Unannounced,
             ConstantAfter, MemoryAfter
    <2>4. QED
      BY <2>1, <2>2, <2>3
  <1>6. QED
    BY <1>3, <1>4, <1>5 DEF IInv

LEMMA CopyHeaderStep ==
  ASSUME IInv, NEW d \in Devices, CopyHeader(d)
  PROVE  IInv'
  <1>1. /\ pc[d] = "copyHeader"
        /\ pc' \in [Devices -> WorkerPcs]
        /\ pc'[d] = "copyNonce"
        /\ \A x \in Devices : x # d => pc'[x] = pc[x]
        /\ UNCHANGED <<netVars, next, current, alive, last, need, snap, resolver>>
    BY DEF CopyHeader, Goto, IInv, TypeOK, WorkerPcs
  <1>2. /\ cur' \in [Devices -> Infos]
        /\ cur'[d].header = next[d].header
        /\ cur'[d].epoch = cur[d].epoch
        /\ cur'[d].slice = cur[d].slice
        /\ \A x \in Devices : x # d => cur'[x] = cur[x]
    <2>1. cur \in [Devices -> Infos] /\ next[d].header \in Headers \cup {NoHeader}
      BY DEF IInv, TypeOK, Infos, Counters, Needs, BuiltFor
    <2>2. cur' = [cur EXCEPT ![d].header = next[d].header]
      BY DEF CopyHeader
    <2>3. QED
      BY <2>1, <2>2, SetHeader
  <1>3. TypeOK'
    BY <1>1, <1>2 DEF IInv, TypeOK, netVars
  <1>4. DispatchRaises'
    BY <1>1 DEF IInv, DispatchRaises, netVars
  <1>5. ASSUME NEW e \in Devices PROVE DeviceOK(e)'
    <2>n. /\ current[e] \in Counters /\ last[e] \in Counters /\ snap[e] \in Counters
      BY DEF IInv, TypeOK
    <2> USE <1>1, <1>2, <2>n DEF IInv, DeviceOK, Infos, Counters, netVars
    <2>1. HeaderCurrent(e)'
      BY DEF HeaderCurrent, ConstantPending, Usable, NextIsJob
    <2>2. JobCurrent(e)'
      BY DEF JobCurrent, Dispatching, NextIsJob
    <2>3. /\ NextIsJob(e)' /\ CountersOrdered(e)' /\ WorkerHasJob(e)'
          /\ EpochCurrent(e)' /\ SliceCurrent(e)'
      BY DEF NextIsJob, CountersOrdered, MemoryTaken, ConstantTaken, WorkerHasJob,
             EpochCurrent, MemoryPending, Usable, SliceCurrent, Unannounced,
             ConstantAfter, MemoryAfter
    <2>4. QED
      BY <2>1, <2>2, <2>3
  <1>6. QED
    BY <1>3, <1>4, <1>5 DEF IInv

LEMMA CopyNonceStep ==
  ASSUME IInv, NEW d \in Devices, CopyNonce(d)
  PROVE  IInv'
  <1>1. /\ pc[d] = "copyNonce"
        /\ pc' \in [Devices -> WorkerPcs]
        /\ pc'[d] = "updateMemory"
        /\ \A x \in Devices : x # d => pc'[x] = pc[x]
        /\ UNCHANGED <<netVars, next, current, alive, need, snap, resolver>>
    BY DEF CopyNonce, Goto, IInv, TypeOK, WorkerPcs
  <1>2. /\ cur' \in [Devices -> Infos]
        /\ cur'[d].slice = next[d].slice
        /\ cur'[d].epoch = cur[d].epoch
        /\ cur'[d].header = cur[d].header
        /\ \A x \in Devices : x # d => cur'[x] = cur[x]
    <2>1. cur \in [Devices -> Infos] /\ next[d].slice \in Devices \cup {0}
      BY DEF IInv, TypeOK, Infos, Counters, Needs, BuiltFor
    <2>2. cur' = [cur EXCEPT ![d].slice = next[d].slice]
      BY DEF CopyNonce
    <2>3. QED
      BY <2>1, <2>2, SetSlice
  <1>3. /\ last' \in [Devices -> Counters]
        /\ last'[d].job = snap[d].job
        /\ last'[d].constant = last[d].constant
        /\ last'[d].memory = last[d].memory
        /\ \A x \in Devices : x # d => last'[x] = last[x]
    <2>1. last \in [Devices -> Counters] /\ snap[d].job \in Nat
      BY DEF IInv, TypeOK, Infos, Counters, Needs, BuiltFor
    <2>2. last' = [last EXCEPT ![d].job = snap[d].job]
      BY DEF CopyNonce
    <2>3. QED
      BY <2>1, <2>2, SetJob
  <1>4. TypeOK'
    BY <1>1, <1>2, <1>3 DEF IInv, TypeOK, netVars
  <1>5. DispatchRaises'
    BY <1>1 DEF IInv, DispatchRaises, netVars
  <1>6. ASSUME NEW e \in Devices PROVE DeviceOK(e)'
    <2>n. /\ current[e] \in Counters /\ last[e] \in Counters /\ snap[e] \in Counters
      BY DEF IInv, TypeOK
    <2> USE <1>1, <1>2, <1>3, <2>n DEF IInv, DeviceOK, Infos, Counters, netVars
    <2>1. CountersOrdered(e)'
      BY DEF CountersOrdered, MemoryTaken, ConstantTaken
    <2>2. SliceCurrent(e)'
      BY DEF SliceCurrent, Usable, Unannounced, ConstantAfter, MemoryAfter
    <2>3. JobCurrent(e)'
      BY DEF JobCurrent, Dispatching, NextIsJob
    <2>4. /\ NextIsJob(e)' /\ WorkerHasJob(e)' /\ EpochCurrent(e)'
          /\ HeaderCurrent(e)'
      BY DEF NextIsJob, WorkerHasJob, EpochCurrent, MemoryPending, Usable,
             HeaderCurrent, ConstantPending
    <2>5. QED
      BY <2>1, <2>2, <2>3, <2>4
  <1>7. QED
    BY <1>4, <1>5, <1>6 DEF IInv

LEMMA UpdateMemoryStep ==
  ASSUME IInv, NEW d \in Devices, UpdateMemory(d)
  PROVE  IInv'
  <1>1. /\ pc[d] = "updateMemory"
        /\ pc' \in [Devices -> WorkerPcs]
        /\ pc'[d] = "updateConstants"
        /\ \A x \in Devices : x # d => pc'[x] = pc[x]
        /\ UNCHANGED <<netVars, next, current, alive, need, snap, cur>>
    BY DEF UpdateMemory, Goto, IInv, TypeOK, WorkerPcs
  <1>2. /\ last' \in [Devices -> Counters]
        /\ need[d].memory => last'[d].memory = snap[d].memory
        /\ ~need[d].memory => last'[d].memory = last[d].memory
        /\ last'[d].job = last[d].job
        /\ last'[d].constant = last[d].constant
        /\ \A x \in Devices : x # d => last'[x] = last[x]
    <2>1. last \in [Devices -> Counters] /\ snap[d].memory \in Nat
      BY DEF IInv, TypeOK, Infos, Counters, Needs, BuiltFor
    <2>2. CASE need[d].memory
      <3>1. last' = [last EXCEPT ![d].memory = snap[d].memory]
        BY <2>2 DEF UpdateMemory
      <3>2. QED
        BY <2>1, <2>2, <3>1, SetMemory
    <2>3. CASE ~need[d].memory
      <3>1. last' = last
        BY <2>3 DEF UpdateMemory
      <3>2. QED
        BY <2>1, <2>3, <3>1
    <2>4. QED
      BY <2>2, <2>3
  <1>3. /\ resolver' \in [Devices -> BuiltFor]
        /\ need[d].memory => resolver'[d].epoch = cur[d].epoch
        /\ ~need[d].memory => resolver'[d].epoch = resolver[d].epoch
        /\ resolver'[d].header = resolver[d].header
        /\ \A x \in Devices : x # d => resolver'[x] = resolver[x]
    <2>1. resolver \in [Devices -> BuiltFor] /\ cur[d].epoch \in Epochs \cup {NoEpoch}
      BY DEF IInv, TypeOK, Infos, Counters, Needs, BuiltFor
    <2>2. CASE need[d].memory
      <3>1. resolver' = [resolver EXCEPT ![d].epoch = cur[d].epoch]
        BY <2>2 DEF UpdateMemory
      <3>2. QED
        BY <2>1, <2>2, <3>1, SetBuiltEpoch
    <2>3. CASE ~need[d].memory
      <3>1. resolver' = resolver
        BY <2>3 DEF UpdateMemory
      <3>2. QED
        BY <2>1, <2>3, <3>1
    <2>4. QED
      BY <2>2, <2>3
  <1>4. TypeOK'
    BY <1>1, <1>2, <1>3 DEF IInv, TypeOK, netVars, BuiltFor
  <1>5. DispatchRaises'
    BY <1>1 DEF IInv, DispatchRaises, netVars
  <1>6. ASSUME NEW e \in Devices PROVE DeviceOK(e)'
    <2>n. /\ current[e] \in Counters /\ last[e] \in Counters /\ snap[e] \in Counters
      BY DEF IInv, TypeOK
    <2> USE <1>1, <1>2, <1>3, <2>n DEF IInv, DeviceOK, Infos, Counters, netVars
    <2>1. CountersOrdered(e)'
      BY DEF CountersOrdered, MemoryTaken, ConstantTaken
    <2>2. EpochCurrent(e)'
      BY DEF EpochCurrent, MemoryPending, Usable, NextIsJob
    <2>3. SliceCurrent(e)'
      <3>1. CASE e # d
        BY <3>1 DEF SliceCurrent, Usable, Unannounced, ConstantAfter, MemoryAfter
      <3>2. CASE e = d /\ need[d].memory
        <4>1. MemoryAfter(d) = snap[d].memory /\ last'[d].memory = snap[d].memory
          BY <3>2 DEF MemoryAfter
        <4>2. MemoryAfter(d)' = snap[d].memory /\ ConstantAfter(d)' = ConstantAfter(d)
          BY <3>2, <4>1 DEF MemoryAfter, ConstantAfter
        <4>3. last[d].constant = current[d].constant
                => ConstantAfter(d) = current[d].constant
          <5>1. /\ last[d].constant <= snap[d].constant
                /\ snap[d].constant <= current[d].constant
            BY <3>2 DEF CountersOrdered, MemoryTaken, ConstantTaken
          <5>2. last[d].constant = current[d].constant
                  => snap[d].constant = current[d].constant
            <6>1. /\ last[d].constant \in Nat /\ snap[d].constant \in Nat
                  /\ current[d].constant \in Nat
              BY <3>2
            <6>2. QED
              BY <5>1, <6>1, Squeeze
          <5>3. ConstantAfter(d) \in {snap[d].constant, last[d].constant}
            BY Zenon DEF ConstantAfter
          <5>4. QED
            BY <5>2, <5>3
        <4>4. Unannounced(d)' = Unannounced(d)
          BY DEF Unannounced
        <4>5. QED
          BY <3>2, <4>1, <4>2, <4>3, <4>4 DEF SliceCurrent, Usable
      <3>3. CASE e = d /\ ~need[d].memory
        BY <3>3 DEF SliceCurrent, Usable, Unannounced, ConstantAfter, MemoryAfter,
                    CountersOrdered, MemoryTaken, ConstantTaken
      <3>4. QED
        BY <3>1, <3>2, <3>3
    <2>4. /\ NextIsJob(e)' /\ WorkerHasJob(e)' /\ HeaderCurrent(e)'
          /\ JobCurrent(e)'
      BY DEF NextIsJob, WorkerHasJob, HeaderCurrent, ConstantPending, Usable,
             JobCurrent, Dispatching
    <2>5. QED
      BY <2>1, <2>2, <2>3, <2>4
  <1>7. QED
    BY <1>4, <1>5, <1>6 DEF IInv

LEMMA UpdateConstantsStep ==
  ASSUME IInv, NEW d \in Devices, UpdateConstants(d)
  PROVE  IInv'
  <1>1. /\ pc[d] = "updateConstants"
        /\ pc' \in [Devices -> WorkerPcs]
        /\ pc'[d] = "loop"
        /\ \A x \in Devices : x # d => pc'[x] = pc[x]
        /\ UNCHANGED <<netVars, next, current, alive, need, snap, cur>>
    BY DEF UpdateConstants, Goto, IInv, TypeOK, WorkerPcs
  <1>2. /\ last' \in [Devices -> Counters]
        /\ need[d].constant => last'[d].constant = snap[d].constant
        /\ ~need[d].constant => last'[d].constant = last[d].constant
        /\ last'[d].job = last[d].job
        /\ last'[d].memory = last[d].memory
        /\ \A x \in Devices : x # d => last'[x] = last[x]
    <2>1. last \in [Devices -> Counters] /\ snap[d].constant \in Nat
      BY DEF IInv, TypeOK, Infos, Counters, Needs, BuiltFor
    <2>2. CASE need[d].constant
      <3>1. last' = [last EXCEPT ![d].constant = snap[d].constant]
        BY <2>2 DEF UpdateConstants
      <3>2. QED
        BY <2>1, <2>2, <3>1, SetConstant
    <2>3. CASE ~need[d].constant
      <3>1. last' = last
        BY <2>3 DEF UpdateConstants
      <3>2. QED
        BY <2>1, <2>3, <3>1
    <2>4. QED
      BY <2>2, <2>3
  <1>3. /\ resolver' \in [Devices -> BuiltFor]
        /\ need[d].constant => resolver'[d].header = cur[d].header
        /\ ~need[d].constant => resolver'[d].header = resolver[d].header
        /\ resolver'[d].epoch = resolver[d].epoch
        /\ \A x \in Devices : x # d => resolver'[x] = resolver[x]
    <2>1. resolver \in [Devices -> BuiltFor] /\ cur[d].header \in Headers \cup {NoHeader}
      BY DEF IInv, TypeOK, Infos, Counters, Needs, BuiltFor
    <2>2. CASE need[d].constant
      <3>1. resolver' = [resolver EXCEPT ![d].header = cur[d].header]
        BY <2>2 DEF UpdateConstants
      <3>2. QED
        BY <2>1, <2>2, <3>1, SetBuiltHeader
    <2>3. CASE ~need[d].constant
      <3>1. resolver' = resolver
        BY <2>3 DEF UpdateConstants
      <3>2. QED
        BY <2>1, <2>3, <3>1
    <2>4. QED
      BY <2>2, <2>3
  <1>4. TypeOK'
    BY <1>1, <1>2, <1>3 DEF IInv, TypeOK, netVars, BuiltFor
  <1>5. DispatchRaises'
    BY <1>1 DEF IInv, DispatchRaises, netVars
  <1>6. ASSUME NEW e \in Devices PROVE DeviceOK(e)'
    <2>n. /\ current[e] \in Counters /\ last[e] \in Counters /\ snap[e] \in Counters
      BY DEF IInv, TypeOK
    <2> USE <1>1, <1>2, <1>3, <2>n DEF IInv, DeviceOK, Infos, Counters, netVars
    <2>1. CountersOrdered(e)'
      BY DEF CountersOrdered, MemoryTaken, ConstantTaken
    <2>2. HeaderCurrent(e)'
      BY DEF HeaderCurrent, ConstantPending, Usable, NextIsJob, CountersOrdered
    <2>3. SliceCurrent(e)'
      BY DEF SliceCurrent, Usable, Unannounced, ConstantAfter, MemoryAfter, CountersOrdered
    <2>4. /\ NextIsJob(e)' /\ WorkerHasJob(e)' /\ EpochCurrent(e)'
          /\ JobCurrent(e)'
      BY DEF NextIsJob, WorkerHasJob, EpochCurrent, MemoryPending, Usable, JobCurrent,
             Dispatching
    <2>5. QED
      BY <2>1, <2>2, <2>3, <2>4
  <1>7. QED
    BY <1>4, <1>5, <1>6 DEF IInv

LEMMA UpdateConstantsFailsStep ==
  ASSUME IInv, NEW d \in Devices, UpdateConstantsFails(d)
  PROVE  IInv'
  <1>1. /\ pc[d] = "updateConstants" /\ need[d].constant
        /\ pc' \in [Devices -> WorkerPcs]
        /\ pc'[d] = "loop"
        /\ \A x \in Devices : x # d => pc'[x] = pc[x]
        /\ alive' \in [Devices -> BOOLEAN] /\ ~alive'[d]
        /\ \A x \in Devices : x # d => alive'[x] = alive[x]
        /\ UNCHANGED <<netVars, next, current, need, snap, cur, resolver>>
    BY DEF UpdateConstantsFails, Goto, IInv, TypeOK, WorkerPcs
  <1>2. /\ last' \in [Devices -> Counters]
        /\ last'[d].constant = snap[d].constant
        /\ last'[d].job = last[d].job
        /\ last'[d].memory = last[d].memory
        /\ \A x \in Devices : x # d => last'[x] = last[x]
    <2>1. last \in [Devices -> Counters] /\ snap[d].constant \in Nat
      BY DEF IInv, TypeOK, Infos, Counters, Needs, BuiltFor
    <2>2. last' = [last EXCEPT ![d].constant = snap[d].constant]
      BY DEF UpdateConstantsFails
    <2>3. QED
      BY <2>1, <2>2, SetConstant
  <1>3. TypeOK'
    BY <1>1, <1>2 DEF IInv, TypeOK, netVars
  <1>4. DispatchRaises'
    BY <1>1 DEF IInv, DispatchRaises, netVars
  <1>5. ASSUME NEW e \in Devices PROVE DeviceOK(e)'
    <2>n. /\ current[e] \in Counters /\ last[e] \in Counters /\ snap[e] \in Counters
      BY DEF IInv, TypeOK
    <2> USE <1>1, <1>2, <2>n DEF IInv, DeviceOK, Infos, Counters, netVars
    <2>1. CountersOrdered(e)'
      BY DEF CountersOrdered, MemoryTaken, ConstantTaken
    <2>2. HeaderCurrent(e)'
      BY DEF HeaderCurrent, ConstantPending, Usable, NextIsJob
    <2>3. SliceCurrent(e)'
      BY DEF SliceCurrent, Usable, Unannounced, ConstantAfter, MemoryAfter
    <2>4. /\ NextIsJob(e)' /\ WorkerHasJob(e)' /\ EpochCurrent(e)'
          /\ JobCurrent(e)'
      BY DEF NextIsJob, WorkerHasJob, EpochCurrent, MemoryPending, Usable, JobCurrent,
             Dispatching
    <2>5. QED
      BY <2>1, <2>2, <2>3, <2>4
  <1>6. QED
    BY <1>3, <1>4, <1>5 DEF IInv

LEMMA UpdateMemoryFailsStep ==
  ASSUME IInv, NEW d \in Devices, UpdateMemoryFails(d)
  PROVE  IInv'
  <1>1. /\ pc[d] = "updateMemory" /\ need[d].memory
        /\ pc' \in [Devices -> WorkerPcs]
        /\ pc'[d] = "loop"
        /\ \A x \in Devices : x # d => pc'[x] = pc[x]
        /\ alive' \in [Devices -> BOOLEAN] /\ ~alive'[d]
        /\ \A x \in Devices : x # d => alive'[x] = alive[x]
        /\ UNCHANGED <<netVars, next, current, need, snap, cur>>
    BY DEF UpdateMemoryFails, Goto, IInv, TypeOK, WorkerPcs
  <1>2. /\ last' \in [Devices -> Counters]
        /\ last'[d].memory = snap[d].memory
        /\ last'[d].job = last[d].job
        /\ last'[d].constant = last[d].constant
        /\ \A x \in Devices : x # d => last'[x] = last[x]
    <2>1. last \in [Devices -> Counters] /\ snap[d].memory \in Nat
      BY DEF IInv, TypeOK, Infos, Counters, Needs, BuiltFor
    <2>2. last' = [last EXCEPT ![d].memory = snap[d].memory]
      BY DEF UpdateMemoryFails
    <2>3. QED
      BY <2>1, <2>2, SetMemory
  <1>3. /\ resolver' \in [Devices -> BuiltFor]
        /\ resolver'[d].header = resolver[d].header
        /\ \A x \in Devices : x # d => resolver'[x] = resolver[x]
    <2>1. resolver \in [Devices -> BuiltFor]
      BY DEF IInv, TypeOK, BuiltFor
    <2>2. PICK v \in {resolver[d].epoch, NoEpoch} :
                  resolver' = [resolver EXCEPT ![d].epoch = v]
      BY DEF UpdateMemoryFails
    <2>3. v \in Epochs \cup {NoEpoch}
      BY <2>1 DEF BuiltFor
    <2>4. QED
      BY <2>1, <2>2, <2>3, SetBuiltEpoch
  <1>4. TypeOK'
    BY <1>1, <1>2, <1>3 DEF IInv, TypeOK, netVars, BuiltFor
  <1>5. DispatchRaises'
    BY <1>1 DEF IInv, DispatchRaises, netVars
  <1>6. ASSUME NEW e \in Devices PROVE DeviceOK(e)'
    <2>n. /\ current[e] \in Counters /\ last[e] \in Counters /\ snap[e] \in Counters
      BY DEF IInv, TypeOK
    <2> USE <1>1, <1>2, <1>3, <2>n DEF IInv, DeviceOK, Infos, Counters, netVars
    <2>1. CountersOrdered(e)'
      BY DEF CountersOrdered, MemoryTaken, ConstantTaken
    <2>2. EpochCurrent(e)'
      BY DEF EpochCurrent, MemoryPending, Usable, NextIsJob
    <2>3. SliceCurrent(e)'
      BY DEF SliceCurrent, Usable, Unannounced, ConstantAfter, MemoryAfter
    <2>4. /\ NextIsJob(e)' /\ WorkerHasJob(e)' /\ HeaderCurrent(e)'
          /\ JobCurrent(e)'
      BY DEF NextIsJob, WorkerHasJob, HeaderCurrent, ConstantPending, Usable,
             JobCurrent, Dispatching
    <2>5. QED
      BY <2>1, <2>2, <2>3, <2>4
  <1>7. QED
    BY <1>4, <1>5, <1>6 DEF IInv

-----------------------------------------------------------------------------
(***************************************************************************)
(* The theorems.                                                           *)
(***************************************************************************)

LEMMA InitIInv == Init => IInv
  <1> SUFFICES ASSUME Init PROVE IInv
    OBVIOUS
  <1>1. TypeOK
    <2>1. EmptyInfo \in Infos /\ Zero \in Counters
      BY DEF EmptyInfo, Infos, Zero, Counters
    <2>2. /\ next \in [Devices -> Infos] /\ cur \in [Devices -> Infos]
          /\ current \in [Devices -> Counters] /\ last \in [Devices -> Counters]
          /\ snap \in [Devices -> Counters]
      BY <2>1 DEF Init
    <2>3. QED
      BY <2>2, MaxJobsAssumption DEF Init, TypeOK, NetPcs, WorkerPcs
  <1>2. DispatchRaises
    BY DEF Init, DispatchRaises
  <1>3. ASSUME NEW d \in Devices PROVE DeviceOK(d)
    <2>1. /\ next[d] = EmptyInfo /\ cur[d] = EmptyInfo
          /\ resolver[d].epoch = NoEpoch /\ resolver[d].header = NoHeader
          /\ current[d] = Zero /\ last[d] = Zero /\ snap[d] = Zero
          /\ pc[d] = "initialize" /\ netPc = "idle" /\ todo = {}
          /\ jobInfo = EmptyJob
      BY DEF Init
    <2> USE <2>1 DEF EmptyInfo, EmptyJob, Zero
    <2>2. NextIsJob(d) /\ CountersOrdered(d) /\ WorkerHasJob(d)
      BY DEF NextIsJob, CountersOrdered, WorkerHasJob, MemoryTaken, ConstantTaken
    <2>3. EpochCurrent(d) /\ HeaderCurrent(d)
      BY DEF EpochCurrent, HeaderCurrent
    <2>4. SliceCurrent(d) /\ JobCurrent(d)
      BY DEF SliceCurrent, JobCurrent
    <2>5. QED
      BY <2>2, <2>3, <2>4 DEF DeviceOK
  <1>4. QED
    BY <1>1, <1>2, <1>3 DEF IInv

LEMMA StutterIInv ==
  ASSUME IInv, UNCHANGED vars
  PROVE  IInv'
  BY DEF IInv, TypeOK, DispatchRaises, DeviceOK, NextIsJob, CountersOrdered,
         WorkerHasJob, EpochCurrent, HeaderCurrent, SliceCurrent, JobCurrent,
         MemoryPending, ConstantPending, Usable, Unannounced, Dispatching,
         ConstantAfter, MemoryAfter, vars, netVars, devVars

LEMMA NextIInv ==
  ASSUME IInv, [Next]_vars
  PROVE  IInv'
  <1>1. ASSUME NEW j \in Jobs, SkipJob(j) PROVE IInv'
    BY <1>1, StutterIInv DEF SkipJob
  <1>2. ASSUME NEW j \in Jobs, AcceptJob(j) PROVE IInv'
    BY <1>2, AcceptJobStep
  <1>3. CASE Update
    BY <1>3, UpdateEpochStep, UpdateHeaderStep, UpdateNonceStep, UpdateOffsetStep,
       AddConstantStep, AddMemoryStep, AddJobStep DEF Update
  <1>4. ASSUME NEW d \in Devices, Worker(d) PROVE IInv'
    BY <1>4, ControlStep, NeedConstantStep, NeedMemoryStep,
       GetJobStep, GetConstantStep, GetMemoryStep,
       CopyEpochStep, CopyHeaderStep, CopyNonceStep,
       UpdateMemoryStep, UpdateMemoryFailsStep,
       UpdateConstantsStep, UpdateConstantsFailsStep DEF Worker
  <1>5. CASE UNCHANGED vars
    BY <1>5, StutterIInv
  <1>6. QED
    BY <1>1, <1>2, <1>3, <1>4, <1>5 DEF Next, Network

LEMMA Inductive == Spec => []IInv
  BY InitIInv, NextIInv, PTL DEF Spec

\* Device::update and Device::updateJob keep every variable in its type.
THEOREM TypeCorrect == Spec => []TypeOK
  BY Inductive, PTL DEF IInv

\* A worker of Device::loopDoWork that would skip updateJob holds the job
\* DeviceManager::onUpdateJob accepted last, whole and in its own slice.
THEOREM JobNeverLost == Spec => []NoJobLost
  <1>1. IInv => NoJobLost
    <2> SUFFICES ASSUME IInv, NEW d \in Devices, Computing(d), ~Dispatching(d),
                        NothingToUpdate(d)
                 PROVE  cur[d] = Sliced(jobInfo, d)
      BY DEF NoJobLost
    <2>1. /\ d \notin todo /\ ~Unannounced(d) /\ Usable(d)
          /\ ~(netDev = d /\ netPc \in {"header", "offset"})
      BY DEF Dispatching, Unannounced, Usable, Computing
    <2>2. /\ next[d].epoch = jobInfo.epoch /\ next[d].header = jobInfo.header
          /\ next[d].slice = d
      <3>1. current[d].job > 0
        BY DEF IInv, DeviceOK, WorkerHasJob, Computing
      <3>2. QED
        BY <2>1, <3>1 DEF IInv, DeviceOK, NextIsJob
    <2>3. /\ cur[d].epoch = next[d].epoch /\ cur[d].header = next[d].header
          /\ cur[d].slice = next[d].slice
      <3>1. CASE current[d].job = last[d].job
        BY <3>1 DEF IInv, DeviceOK, JobCurrent
      <3>2. CASE /\ current[d].constant = last[d].constant
                 /\ current[d].memory = last[d].memory
        <4>1. ~MemoryPending(d) /\ ~ConstantPending(d)
          BY <3>2 DEF MemoryPending, ConstantPending, Dispatching
        <4>2. QED
          BY <2>1, <3>2, <4>1 DEF IInv, DeviceOK, EpochCurrent, HeaderCurrent,
                                  SliceCurrent
      <3>3. QED
        BY <3>1, <3>2 DEF NothingToUpdate
    <2>4. cur[d] \in Infos
      BY DEF IInv, TypeOK
    <2>5. QED
      BY <2>2, <2>3, <2>4 DEF Infos, Sliced
  <1>2. QED
    BY <1>1, Inductive, PTL

\* A device hashes with the DAG of another epoch only until it sees the counter.
THEOREM StaleDagIsTransient == Spec => []StaleDagIsPending
  <1>1. IInv => StaleDagIsPending
    <2> SUFFICES ASSUME IInv, NEW d \in Devices, Computing(d),
                        resolver[d].epoch # cur[d].epoch
                 PROVE  MemoryPending(d)
      BY DEF StaleDagIsPending, MemoryPending
    <2>1. Usable(d)
      BY DEF Usable, Computing
    <2>2. QED
      BY <2>1 DEF IInv, DeviceOK, EpochCurrent
  <1>2. QED
    BY <1>1, Inductive, PTL

\* The same for the header in the resolver's constants.
THEOREM StaleHeaderIsTransient == Spec => []StaleHeaderIsPending
  <1>1. IInv => StaleHeaderIsPending
    <2> SUFFICES ASSUME IInv, NEW d \in Devices, Computing(d),
                        resolver[d].header # cur[d].header
                 PROVE  ConstantPending(d)
      BY DEF StaleHeaderIsPending, ConstantPending
    <2>1. Usable(d)
      BY DEF Usable, Computing
    <2>2. QED
      BY <2>1 DEF IInv, DeviceOK, HeaderCurrent
  <1>2. QED
    BY <1>1, Inductive, PTL

\* A torn copy of nextjobInfo cannot outlive the dispatch that tore it.
THEOREM ForeignSliceIsTransient == Spec => []ForeignSliceIsPending
  <1>1. IInv => ForeignSliceIsPending
    <2> SUFFICES ASSUME IInv, NEW d \in Devices, Computing(d), ~Unannounced(d),
                        current[d].constant = last[d].constant,
                        current[d].memory = last[d].memory
                 PROVE  cur[d].slice = d
      BY DEF ForeignSliceIsPending
    <2>1. cur[d].slice = next[d].slice
      BY DEF IInv, DeviceOK, SliceCurrent, Usable, Computing
    <2>2. current[d].job > 0 /\ ~(netDev = d /\ netPc = "offset")
      BY SMTT(20) DEF IInv, DeviceOK, WorkerHasJob, Computing, Unannounced
    <2>3. QED
      BY <2>1, <2>2 DEF IInv, DeviceOK, NextIsJob
  <1>2. QED
    BY <1>1, Inductive, PTL

-----------------------------------------------------------------------------
(***************************************************************************)
(* StartUp.  The getters: an option registered with another type than it   *)
(* is read as cannot be given, so no vendor has a pool of its own.         *)
(***************************************************************************)
LEMMA OverDomain == ASSUME NEW f, NEW g PROVE DOMAIN (f ++ g) = DOMAIN f \cup DOMAIN g
  BY DEF ++
LEMMA OverLeft ==
  ASSUME NEW f, NEW g, NEW x \in DOMAIN f
  PROVE  x \in DOMAIN (f ++ g) /\ (f ++ g)[x] = f[x]
  <1>1. x \in DOMAIN (f ++ g)
    BY OverDomain
  <1>2. (f ++ g)[x] = f[x]
    BY DEF ++
  <1>3. QED
    BY <1>1, <1>2
LEMMA OverRight ==
  ASSUME NEW f, NEW g, NEW x \in DOMAIN g, x \notin DOMAIN f
  PROVE  x \in DOMAIN (f ++ g) /\ (f ++ g)[x] = g[x]
  <1>1. x \in DOMAIN (f ++ g)
    BY OverDomain
  <1>2. (f ++ g)[x] = g[x]
    BY DEF ++
  <1>3. QED
    BY <1>1, <1>2
LEMMA OverLacks ==
  ASSUME NEW f, NEW g, NEW x, x \notin DOMAIN f, x \notin DOMAIN g
  PROVE  x \notin DOMAIN (f ++ g)
  BY OverDomain
LEMMA AsDomain == ASSUME NEW type, NEW S PROVE DOMAIN As(type, S) = S /\ \A o \in S : As(type, S)[o] = type
  BY DEF As
LEMMA OptionalDomain ==
  ASSUME NEW type, NEW S
  PROVE  DOMAIN Optional(type, S) = S /\ \A o \in S : Optional(type, S)[o] = Reader(type, None)
  BY DEF Optional

\* The hosts of the pools of the vendors are registered as flags and read as texts.
VendorHosts == {"amd_host", "nvidia_host"}

LEMMA RegisteredAsFlag ==
  ASSUME NEW o \in VendorHosts
  PROVE  o \in DOMAIN Registered /\ Registered[o] = "flag"
  <1>1. o \notin DOMAIN RegisteredGeneral
    BY OverLacks, AsDomain DEF RegisteredGeneral, VendorHosts
  <1>2. o \notin DOMAIN RegisteredPool
    <2>1. o \notin Range(RavenOption)
      BY DEF Range, RavenOption, VendorHosts
    <2>2. QED
      BY <2>1, OverLacks, AsDomain DEF RegisteredPool, VendorHosts
  <1>3. o \in DOMAIN RegisteredDevices /\ RegisteredDevices[o] = "flag"
    <2>1. o \in {"nvidia", "amd", "cpu", "amd_host", "nvidia_host"}
      BY DEF VendorHosts
    <2>2. QED
      BY <2>1, OverLeft, AsDomain DEF RegisteredDevices
  <1>4. o \in DOMAIN (RegisteredGeneral ++ RegisteredPool ++ RegisteredDevices)
        /\ (RegisteredGeneral ++ RegisteredPool ++ RegisteredDevices)[o] = "flag"
    <2>1. o \notin DOMAIN (RegisteredGeneral ++ RegisteredPool)
      BY <1>1, <1>2, OverLacks
    <2>2. QED
      BY <2>1, <1>3, OverRight
  <1>5. QED
    BY <1>4, OverLeft DEF Registered

LEMMA ReadAsText ==
  ASSUME NEW o \in VendorHosts
  PROVE  o \in DOMAIN Readers /\ Readers[o] = Reader("text", None)
  <1> DEFINE general == LogReaders ++ EnvironmentReaders ++ CommonReaders ++ PoolReaders ++ PoolCustomReaders
  <1>1. o \notin DOMAIN general
    <2>1. o \notin Range(RavenOption)
      BY DEF Range, RavenOption, VendorHosts
    <2>2. o \notin DOMAIN LogReaders /\ o \notin DOMAIN EnvironmentReaders /\ o \notin DOMAIN CommonReaders
      BY OverLacks, OptionalDomain DEF LogReaders, EnvironmentReaders, CommonReaders, VendorHosts
    <2>3. o \notin DOMAIN PoolReaders /\ o \notin DOMAIN PoolCustomReaders
      BY <2>1, OverLacks, OptionalDomain DEF PoolReaders, PoolCustomReaders, VendorHosts
    <2>4. QED
      BY <2>2, <2>3, OverLacks
  <1>2. /\ o = "amd_host" => o \in DOMAIN AmdReaders /\ AmdReaders[o] = Reader("text", None)
        /\ o = "nvidia_host" => o \notin DOMAIN AmdReaders
    <2>1. "amd_host" \in DOMAIN AmdReaders /\ AmdReaders["amd_host"] = Reader("text", None)
      BY OverLeft, OptionalDomain DEF AmdReaders
    <2>2. "nvidia_host" \notin DOMAIN AmdReaders
      BY OverLacks, OptionalDomain DEF AmdReaders
    <2>3. QED
      BY <2>1, <2>2
  <1>3. o = "nvidia_host" => o \in DOMAIN NvidiaReaders /\ NvidiaReaders[o] = Reader("text", None)
    <2>1. "nvidia_host" \in DOMAIN NvidiaReaders /\ NvidiaReaders["nvidia_host"] = Reader("text", None)
      BY OverLeft, OptionalDomain DEF NvidiaReaders
    <2>2. QED
      BY <2>1
  <1> HIDE DEF general
  <1>4. o \in DOMAIN (general ++ AmdReaders ++ NvidiaReaders)
        /\ (general ++ AmdReaders ++ NvidiaReaders)[o] = Reader("text", None)
    <2>1. CASE o = "amd_host"
      <3>1. o \in DOMAIN (general ++ AmdReaders) /\ (general ++ AmdReaders)[o] = Reader("text", None)
        BY <1>1, <1>2, <2>1, OverRight
      <3>2. QED
        BY <3>1, OverLeft
    <2>2. CASE o = "nvidia_host"
      <3>1. o \notin DOMAIN (general ++ AmdReaders)
        BY <1>1, <1>2, <2>2, OverLacks
      <3>2. QED
        BY <3>1, <1>3, <2>2, OverRight
    <2>3. QED
      BY <2>1, <2>2 DEF VendorHosts
  <1>5. Readers = general ++ AmdReaders ++ NvidiaReaders ++ DeviceSettingReaders ++ DeviceCustomReaders
                    ++ SmartMiningReaders ++ KernelReaders
    BY DEF Readers, general
  <1>6. QED
    BY <1>4, <1>5, OverLeft

\* A getter that is called fails when its option is given.
LEMMA NoVendorHost ==
  ASSUME NEW o \in VendorHosts, NEW line, o \in Read(line), ~Throws(line, Read(line))
  PROVE  Get(line, o) = None
  <1>1. ~Has(line, o)
    BY RegisteredAsFlag, ReadAsText DEF Throws, Reader
  <1>2. Readers[o].as # "flag" /\ Readers[o].as # "number" /\ Readers[o].otherwise = None
    BY ReadAsText DEF Reader
  <1>3. QED
    BY <1>1, <1>2, Zenon DEF Get

LEMMA VendorReaders ==
  /\ "amd_host" \notin DOMAIN NvidiaReaders /\ "nvidia_host" \notin DOMAIN AmdReaders
  BY OverLacks, OptionalDomain DEF AmdReaders, NvidiaReaders

LEMMA NoVendorPool ==
  ASSUME NEW line, ~Throws(line, Read(line))
  PROVE  LoadAmd(line) = NoPool /\ LoadNvidia(line) = NoPool
  <1>1. LoadAmd(line) = NoPool
    <2>1. CASE "amd" \notin Built \/ ~Get(line, "amd")
      BY <2>1, Zenon DEF LoadAmd, VendorPool
    <2>2. CASE ~("amd" \notin Built \/ ~Get(line, "amd"))
      <3>1. "amd_host" \in Read(line)
        BY <2>2, ReadAsText, VendorReaders DEF Read, VendorHosts
      <3>2. Get(line, "amd_host") = None
        BY <3>1, NoVendorHost DEF VendorHosts
      <3>3. QED
        BY <3>2, Zenon DEF LoadAmd, VendorPool
    <2>3. QED
      BY <2>1, <2>2
  <1>2. LoadNvidia(line) = NoPool
    <2>1. CASE "nvidia" \notin Built \/ ~Get(line, "nvidia")
      BY <2>1, Zenon DEF LoadNvidia, VendorPool
    <2>2. CASE ~("nvidia" \notin Built \/ ~Get(line, "nvidia"))
      <3>1. "nvidia_host" \in Read(line)
        BY <2>2, ReadAsText, VendorReaders DEF Read, VendorHosts
      <3>2. Get(line, "nvidia_host") = None
        BY <3>1, NoVendorHost DEF VendorHosts
      <3>3. QED
        BY <3>2, Zenon DEF LoadNvidia, VendorPool
    <2>3. QED
      BY <2>1, <2>2
  <1>3. QED
    BY <1>1, <1>2

-----------------------------------------------------------------------------
\* There are as many uuids as devices, and no device has the id that stands for the
\* common pool: MAX_STRATUMS is 100 and DEVICE_MAX_ID a million.
EnoughUuids == 2 * MaxGpus + 1 <= MaxStratums /\ MaxStratums <= CommonId

LEMMA CommonIdType == CommonId \in Nat
  BY SMT DEF CommonId

\* What is left of Loads and IsValidConfig.
Accepted ==
  /\ config.amdSetting = NoPool
  /\ config.nvidiaSetting = NoPool
  /\ config.profile = "STANDARD" => Complete(config.mining, DOMAIN config.mining)

Kinds == {"amd", "nvidia", "cpu"}
Names == Algorithms \cup {"unknown"}
Resolvers ==
  {None} \cup [algorithm : Names, blocks : {config.occupancy.blocks}, threads : {config.occupancy.threads}]
Keys == Nat \cup {None}
AnyDevice ==
  [kind : Kinds, algorithm : Names, resolver : Resolvers, stratum : Keys, alive : BOOLEAN,
   thread : {"none", "started", "waiting", "working", "stopped"}, next : Keys, current : Keys]

Typed ==
  /\ devices \in Seq(AnyDevice)
  /\ DOMAIN stratums \subseteq Nat
  /\ \A id \in DOMAIN stratums : stratums[id].uuid \in Nat
  /\ stratumCount \in Nat
  /\ connected \subseteq DOMAIN stratums

\* The devices fit: each has an id below that of the common pool.
Counted ==
  /\ Cardinality(Found("amd")) <= MaxGpus
  /\ Cardinality(Found("nvidia")) <= MaxGpus
  /\ Cardinality(Found("cpu")) <= 1
  /\ Len(devices) = Cardinality(Found("amd")) + Cardinality(Found("nvidia")) + Cardinality(Found("cpu"))

\* Devices are attached in their order, and one that is not does nothing.
InOrder == \A i \in DOMAIN devices : Attached(i) => \A j \in 1..(i - 1) : Attached(j)
Fresh == \A i \in DOMAIN devices :
  ~Attached(i) => /\ devices[i].thread = "none"
                  /\ devices[i].next = None
                  /\ devices[i].current = None
                  /\ devices[i].resolver = None

\* The key and the algorithm of the stratum of a device.
KeyOf(i) == IF Id(i) \in DOMAIN config.deviceSettings THEN Id(i) ELSE CommonId
NameOf(i) ==
  ToEnum(IF Id(i) \in DOMAIN config.deviceSettings THEN config.deviceSettings[Id(i)].algo ELSE config.mining.algo)

StrataNamed ==
  /\ \A id \in DOMAIN stratums : id = CommonId \/ \E i \in Strata : id = Id(i) /\ devices[i].stratum = id
  /\ \A id \in DOMAIN stratums : Account(stratums[id]) = AccountOf(id)
  /\ CommonId \in DOMAIN stratums => stratums[CommonId].algorithm = ToEnum(config.mining.algo)
  /\ \A i \in Strata :
       /\ config.profile = "STANDARD"
       /\ devices[i].stratum = KeyOf(i)
       /\ KeyOf(i) \in DOMAIN stratums
       /\ stratums[KeyOf(i)].algorithm = NameOf(i)
       /\ devices[i].resolver # None => devices[i].resolver.algorithm = Gpu(NameOf(i))

\* A uuid stands for one stratum; the counter starts again after the last device only.
UuidsDistinct ==
  /\ \A id, other \in DOMAIN stratums : stratums[id].uuid = stratums[other].uuid => id = other
  /\ \A i \in DOMAIN devices :
       ~Attached(i) => stratumCount <= Id(i) /\ \A id \in DOMAIN stratums : stratums[id].uuid < stratumCount

\* What a device has been given, and what it works on.
JobsOfItsStratum == \A i \in DOMAIN devices : LET device == devices[i] IN
  /\ device.next \in {None, device.stratum}
  /\ device.current \in {None, device.next}
  /\ device.next # None => device.next \in connected
  /\ device.thread = "none" => device.current = None
  /\ device.thread = "working" => device.current # None
  /\ device.thread \in {"waiting", "working"} => IsEnable(i) /\ device.resolver # None

\* What the place of main says.
StageKnown ==
  /\ stage \in {"load", "bind"} => devices = <<>>
  /\ stage \in {"load", "bind", "amd", "nvidia", "cpu"} =>
       /\ DOMAIN stratums = {} /\ stratumCount = 0
       /\ \A i \in DOMAIN devices : ~Attached(i)
  /\ stage \notin {"load", "exited"} \/ devices # <<>> => Accepted
  /\ stage \in {"run", "connect"} => \A i \in DOMAIN devices : Attached(i)

StartInv ==
  /\ Typed /\ Counted /\ InOrder /\ Fresh /\ StrataNamed /\ UuidsDistinct /\ JobsOfItsStratum /\ StageKnown

LEMMA LoadedIsAccepted ==
  ASSUME NEW line, NEW c \in Loads(line)
  PROVE  /\ c.amdSetting = NoPool
         /\ c.nvidiaSetting = NoPool
         /\ c.profile = "STANDARD" /\ IsValidConfig(c) => Complete(c.mining, DOMAIN c.mining)
  <1>1. ~Throws(line, Read(line))
    BY Zenon DEF Loads
  <1>2. PICK environment : c = Configuration(line, environment)
    BY Zenon DEF Loads
  <1>3. c.amdSetting = LoadAmd(line) /\ c.nvidiaSetting = LoadNvidia(line)
    BY <1>2 DEF Configuration
  <1>4. c.mining = LoadRaven(line, LoadPool(line))
    BY <1>2 DEF Configuration
  <1>5. DOMAIN c.mining = {"host", "port", "algo", "workerName", "password", "wallet"}
    <2>1. DOMAIN LoadPool(line) = {"host", "port", "algo", "workerName", "password", "wallet"}
      BY DEF LoadPool
    <2>2. DOMAIN LoadRaven(line, LoadPool(line)) = DOMAIN LoadPool(line)
      BY DEF LoadRaven
    <2>3. QED
      BY <1>4, <2>1, <2>2
  <1>6. c.profile = "STANDARD" /\ IsValidConfig(c) => Complete(c.mining, DOMAIN c.mining)
    BY <1>5 DEF IsValidConfig
  <1>7. QED
    BY <1>1, <1>3, <1>6, NoVendorPool

LEMMA StratumFields ==
  ASSUME NEW algorithm, algorithm # "unknown", NEW type, NEW id, NEW uuid,
         NEW s, s = NewStratum(algorithm, type) ++ AccountOf(id) ++ [uuid |-> uuid]
  PROVE  s.algorithm = algorithm /\ Account(s) = AccountOf(id) /\ s.uuid = uuid
  <1> DEFINE dialect == NewStratum(algorithm, type)
             account == AccountOf(id)
             Fields == {"host", "port", "workerName", "wallet", "password"}
  <1>1. DOMAIN dialect = {"algorithm", "protocol"} /\ dialect.algorithm = algorithm
    BY DEF NewStratum
  <1>2. DOMAIN account = Fields /\ account = Account(account)
    BY DEF AccountOf, Account
  <1> HIDE DEF dialect, account
  <1>3. (dialect ++ account).algorithm = algorithm /\ "algorithm" \in DOMAIN (dialect ++ account)
    BY <1>1, OverLeft
  <1>4. \A f \in Fields : f \in DOMAIN (dialect ++ account) /\ (dialect ++ account)[f] = account[f]
    BY <1>1, <1>2, OverRight
  <1>5. "uuid" \notin DOMAIN (dialect ++ account)
    BY <1>1, <1>2, OverLacks
  <1>6. s = dialect ++ account ++ [uuid |-> uuid]
    BY DEF dialect, account
  <1>7. s.algorithm = algorithm
    BY <1>3, <1>6, OverLeft
  <1>8. \A f \in Fields : s[f] = account[f]
    BY <1>4, <1>6, OverLeft
  <1>9. s.uuid = uuid
    BY <1>5, <1>6, OverRight
  <1>10. Account(s) = Account(account)
    BY <1>8 DEF Account
  <1>11. QED
    BY <1>2, <1>7, <1>9, <1>10 DEF account

-----------------------------------------------------------------------------
\* The part of the invariant that does not look at main.
Settled ==
  Typed /\ Counted /\ InOrder /\ Fresh /\ StrataNamed /\ UuidsDistinct /\ JobsOfItsStratum

LEMMA SettledFrame ==
  ASSUME Settled, UNCHANGED <<config, devices, stratums, stratumCount, connected>>
  PROVE  Settled'
  <1>1. Typed' /\ Counted'
    BY DEF Settled, Typed, AnyDevice, Resolvers, Counted, Found
  <1>2. InOrder' /\ Fresh'
    BY DEF Settled, InOrder, Fresh, Attached
  <1>3. StrataNamed'
    BY DEF Settled, StrataNamed, Strata, Attached, KeyOf, NameOf, AccountOf
  <1>4. UuidsDistinct' /\ JobsOfItsStratum'
    BY DEF Settled, UuidsDistinct, JobsOfItsStratum, Attached, IsEnable
  <1>5. QED
    BY <1>1, <1>2, <1>3, <1>4 DEF Settled

\* Without a device nothing is settled yet.
LEMMA SettledEmpty ==
  (devices = <<>> /\ DOMAIN stratums = {} /\ stratumCount = 0 /\ connected = {}) => Settled
  <1> HAVE devices = <<>> /\ DOMAIN stratums = {} /\ stratumCount = 0 /\ connected = {}
  <1>1. DOMAIN devices = {} /\ DOMAIN stratums = {} /\ Len(devices) = 0
    OBVIOUS
  <1>2. Typed
    BY <1>1 DEF Typed
  <1>3. Counted
    <2>1. Found("amd") = {} /\ Found("nvidia") = {} /\ Found("cpu") = {}
      BY <1>1 DEF Found
    <2>2. /\ Cardinality(Found("amd")) = 0 /\ Cardinality(Found("nvidia")) = 0
          /\ Cardinality(Found("cpu")) = 0
      BY <2>1, FS_EmptySet
    <2>3. QED
      BY <1>1, <2>2, BoundsAssumption DEF Counted
  <1>4. InOrder /\ Fresh /\ StrataNamed /\ UuidsDistinct /\ JobsOfItsStratum
    BY <1>1 DEF InOrder, Fresh, StrataNamed, Strata, UuidsDistinct, JobsOfItsStratum
  <1>5. QED
    BY <1>2, <1>3, <1>4 DEF Settled

\* A step of the thread of a device, or a job.
LEMMA DeviceStep ==
  ASSUME StartInv, UNCHANGED <<config, stage, stratums, stratumCount, connected>>,
         devices' \in Seq(AnyDevice), DOMAIN devices' = DOMAIN devices,
         \A i \in DOMAIN devices : /\ devices'[i].kind = devices[i].kind
                                   /\ devices'[i].stratum = devices[i].stratum
                                   /\ devices'[i].resolver = devices[i].resolver,
         Fresh', JobsOfItsStratum'
  PROVE  StartInv'
  <1>1. Len(devices') = Len(devices)
    BY DEF StartInv, Typed
  <1>2. Typed'
    BY DEF StartInv, Typed, AnyDevice, Resolvers
  <1>3. Counted'
    <2>1. \A kind : Found(kind)' = Found(kind)
      BY DEF Found
    <2>2. QED
      BY <1>1, <2>1 DEF StartInv, Counted
  <1>4. \A i \in DOMAIN devices : Attached(i)' = Attached(i)
    BY DEF Attached
  <1>5. Strata' = Strata /\ DOMAIN devices \subseteq Nat
    BY <1>4 DEF Strata, StartInv, Typed
  <1>6. InOrder'
    BY <1>4 DEF StartInv, InOrder, Typed
  <1>7. StrataNamed'
    BY <1>5 DEF StartInv, StrataNamed, Strata, KeyOf, NameOf, AccountOf
  <1>8. UuidsDistinct'
    BY <1>4 DEF StartInv, UuidsDistinct
  <1>9. StageKnown'
    BY <1>1, <1>4 DEF StartInv, StageKnown, Accepted, Typed
  <1>10. QED
    BY <1>2, <1>3, <1>6, <1>7, <1>8, <1>9 DEF StartInv

-----------------------------------------------------------------------------
(***************************************************************************)
(* One lemma for each step.                                                *)
(***************************************************************************)
LEMMA StartBase == ASSUME StartInit PROVE StartInv
  <1>1. Settled
    <2>1. devices = <<>> /\ DOMAIN stratums = {} /\ stratumCount = 0 /\ connected = {}
      BY DEF StartInit
    <2>2. QED
      BY <2>1, SettledEmpty
  <1>2. StageKnown
    BY DEF StartInit, StageKnown
  <1>3. QED
    BY <1>1, <1>2 DEF Settled, StartInv

\* What main does without the devices and the strata.
LEMMA StageStep ==
  ASSUME StartInv, UNCHANGED <<config, devices, stratums, stratumCount, connected>>, StageKnown'
  PROVE  StartInv'
  BY SettledFrame DEF Settled, StartInv

LEMMA LoadStep == ASSUME StartInv, Load PROVE StartInv'
  <1>1. devices = <<>> /\ DOMAIN stratums = {} /\ stratumCount = 0 /\ connected = {}
    BY DEF StartInv, StageKnown, Typed, Load
  <1>2. UNCHANGED <<devices, stratums, stratumCount, connected>>
    BY DEF Load, deviceVars
  <1>3. Settled'
    <2>1. devices' = <<>> /\ DOMAIN stratums' = {} /\ stratumCount' = 0 /\ connected' = {}
      BY <1>1, <1>2
    <2>2. DOMAIN devices' = {} /\ Len(devices') = 0
      BY <2>1
    <2>3. Typed'
      BY <2>1, <2>2 DEF Typed
    <2>4. Counted'
      <3>1. Found("amd")' = {} /\ Found("nvidia")' = {} /\ Found("cpu")' = {}
        BY <2>2 DEF Found
      <3>2. /\ Cardinality(Found("amd")') = 0 /\ Cardinality(Found("nvidia")') = 0
            /\ Cardinality(Found("cpu")') = 0
        BY <3>1, FS_EmptySet
      <3>3. QED
        BY <2>2, <3>2, BoundsAssumption DEF Counted
    <2>5. InOrder' /\ Fresh' /\ StrataNamed' /\ UuidsDistinct' /\ JobsOfItsStratum'
      BY <2>1, <2>2 DEF InOrder, Fresh, StrataNamed, Strata, UuidsDistinct, JobsOfItsStratum
    <2>6. QED
      BY <2>3, <2>4, <2>5 DEF Settled
  <1>4. StageKnown'
    <2>1. CASE stage' = "exited"
      BY <1>1, <1>2, <2>1 DEF StageKnown
    <2>2. CASE stage' # "exited"
      <3>1. config' \in Loads(given) /\ IsValidConfig(config') /\ stage' = "bind"
        BY <2>2 DEF Load, Exit
      <3>2. Accepted'
        BY <3>1, LoadedIsAccepted DEF Accepted
      <3>3. QED
        BY <1>1, <1>2, <3>1, <3>2 DEF StageKnown
    <2>3. QED
      BY <2>1, <2>2
  <1>5. QED
    BY <1>3, <1>4 DEF Settled, StartInv

\* One device more, of a kind of which there are fewer than its limit.
LEMMA DetectStep ==
  ASSUME StartInv, NEW kind \in Kinds, NEW limit \in Nat, Detect(kind, limit), StageKnown',
         limit = IF kind = "cpu" THEN 1 ELSE MaxGpus,
         stage \in {"amd", "nvidia", "cpu"},
         UNCHANGED <<config, stratums, stratumCount, connected>>
  PROVE  StartInv'
  <1> DEFINE n == Len(devices) + 1
             new == NewDevice(kind)
  <1>1. devices \in Seq(AnyDevice) /\ n \in Nat \ {0} /\ DOMAIN devices = 1..(n - 1)
    BY DEF StartInv, Typed
  <1>2. new \in AnyDevice
    BY DEF NewDevice, AnyDevice, Names, Resolvers, Keys
  <1>3. devices' = Append(devices, new)
    BY DEF Detect
  <1>4. /\ devices' \in Seq(AnyDevice) /\ Len(devices') = n /\ DOMAIN devices' = 1..n
        /\ devices'[n] = new /\ \A i \in 1..(n - 1) : devices'[i] = devices[i]
    <2> HIDE DEF new
    <2>1. QED
      BY <1>1, <1>2, <1>3
  <1>5. Typed'
    BY <1>4 DEF StartInv, Typed, AnyDevice, Resolvers
  <1>6. Counted'
    <2>1. \A k \in Kinds : IsFiniteSet(Found(k)) /\ Cardinality(Found(k)) \in Nat
      <3>1. IsFiniteSet(1..(n - 1))
        BY <1>1, FS_Interval
      <3>2. \A k \in Kinds : Found(k) \subseteq 1..(n - 1)
        BY <1>1 DEF Found
      <3>3. QED
        BY <3>1, <3>2, FS_Subset, FS_CardinalityType
    <2>2. \A k \in Kinds : k # kind => Found(k)' = Found(k)
      BY <1>1, <1>4 DEF Found, NewDevice
    <2>3. Found(kind)' = Found(kind) \cup {n} /\ n \notin Found(kind)
      BY <1>1, <1>4 DEF Found, NewDevice
    <2>4. Cardinality(Found(kind)') = Cardinality(Found(kind)) + 1
      BY <2>1, <2>3, FS_AddElement
    <2>5. Cardinality(Found(kind)) < limit
      BY DEF Detect
    <2>6. Len(devices') = Len(devices) + 1
      BY <1>1, <1>4
    <2>7. QED
      BY <2>1, <2>2, <2>4, <2>5, <2>6, BoundsAssumption DEF StartInv, Counted, Kinds
  <1>7. \A i \in 1..n : ~Attached(i)'
    BY <1>1, <1>4 DEF StartInv, StageKnown, Attached, NewDevice
  <1>8. Strata' = {}
    BY <1>4, <1>7 DEF Strata
  <1>9. DOMAIN stratums = {} /\ stratumCount = 0 /\ connected = {}
    BY DEF StartInv, StageKnown, Typed
  <1>10. InOrder'
    BY <1>4, <1>7 DEF InOrder
  <1>11. Fresh'
    BY <1>1, <1>4 DEF StartInv, Fresh, StageKnown, Attached, NewDevice
  <1>12. StrataNamed'
    BY <1>8, <1>9 DEF StrataNamed
  <1>13. UuidsDistinct'
    BY <1>1, <1>4, <1>9 DEF UuidsDistinct, Id
  <1>14. JobsOfItsStratum'
    BY <1>1, <1>4, <1>9 DEF StartInv, JobsOfItsStratum, NewDevice, IsEnable
  <1>15. QED
    BY <1>5, <1>6, <1>10, <1>11, <1>12, <1>13, <1>14 DEF StartInv

\* The hypothesis leaves room for the ids and the uuids of all devices.
LEMMA Room ==
  ASSUME StartInv, EnoughUuids, NEW i \in DOMAIN devices
  PROVE  /\ i \in Nat \ {0} /\ Id(i) \in Nat /\ Id(i) + 1 = i
         /\ i <= Len(devices) /\ Len(devices) <= MaxStratums
         /\ Id(i) # CommonId
  <1>1. Len(devices) \in Nat /\ DOMAIN devices = 1..Len(devices)
    BY DEF StartInv, Typed
  <1>2. \A k \in Kinds : Cardinality(Found(k)) \in Nat
    <2>1. \A k \in Kinds : Found(k) \subseteq 1..Len(devices)
      BY <1>1 DEF Found
    <2>2. IsFiniteSet(1..Len(devices))
      BY <1>1, FS_Interval
    <2>3. QED
      BY <2>1, <2>2, FS_Subset, FS_CardinalityType
  <1>3. Len(devices) <= 2 * MaxGpus + 1
    BY <1>1, <1>2, BoundsAssumption DEF StartInv, Counted, Kinds
  <1>4. QED
    BY <1>1, <1>3, BoundsAssumption, CommonIdType DEF EnoughUuids, Id

\* With the settings the getters let through, no vendor has a pool of its own.
LEMMA CustomIsOwn ==
  ASSUME Accepted, NEW i
  PROVE  CustomDevice(i) = [id |-> KeyOf(i), algorithm |-> NameOf(i)]
  <1>1. VendorSetting(devices[i].kind) = NoPool
    <2>1. config.amdSetting = NoPool /\ config.nvidiaSetting = NoPool
      BY DEF Accepted
    <2>2. QED
      BY <2>1, Zenon DEF VendorSetting
  <1>2. ~Complete(NoPool, {"host", "port", "algo"})
    BY DEF Complete, NoPool
  <1>3. CASE Id(i) \in DOMAIN config.deviceSettings
    BY <1>3 DEF CustomDevice, KeyOf, NameOf
  <1>4. CASE Id(i) \notin DOMAIN config.deviceSettings
    BY <1>1, <1>2, <1>4 DEF CustomDevice, KeyOf, NameOf
  <1>5. QED
    BY <1>3, <1>4

LEMMA NameIsKnown == ASSUME NEW i PROVE NameOf(i) \in Names
  BY DEF NameOf, Names, ToEnum

\* The resolver of a device: the one it has, or one of the algorithm it is given.
LEMMA ResolverOf ==
  ASSUME NEW device \in AnyDevice, NEW algorithm \in Names
  PROVE  /\ Resolver(device, algorithm) \in Resolvers
         /\ Resolver(device, algorithm) # device.resolver => Resolver(device, algorithm).algorithm = Gpu(algorithm)
  <1>1. Gpu(algorithm) = None \/ Gpu(algorithm) \in Names
    BY DEF Gpu, Names, Algorithms
  <1>2. algorithm = "blake3" => Gpu(algorithm) = algorithm
    BY DEF Gpu
  <1> DEFINE created == CASE device.kind = "amd" -> ResolverAmd(algorithm)
                          [] device.kind = "nvidia" -> ResolverNvidia(algorithm)
                          [] OTHER -> ResolverCpu(algorithm)
  <1>3. created = None \/ created = Gpu(algorithm)
    BY <1>2 DEF ResolverAmd, ResolverNvidia, ResolverCpu
  <1>4. Resolver(device, algorithm) =
          IF created = None THEN device.resolver
          ELSE [algorithm |-> created, blocks |-> config.occupancy.blocks, threads |-> config.occupancy.threads]
    BY Zenon DEF Resolver
  <1> HIDE DEF created
  <1>5. CASE created = None
    BY <1>4, <1>5 DEF AnyDevice
  <1>6. CASE created # None
    BY <1>1, <1>3, <1>4, <1>6 DEF Resolvers
  <1>7. QED
    BY <1>5, <1>6

LEMMA ExitStep ==
  ASSUME StartInv, Exit, UNCHANGED <<config, devices, stratums, stratumCount, connected>>
  PROVE  StartInv'
  <1>1. StageKnown'
    BY DEF StartInv, StageKnown, Exit, Accepted
  <1>2. QED
    BY <1>1, StageStep

LEMMA DetectionSteps ==
  ASSUME StartInv, Bind \/ InitializeAmd \/ InitializeNvidia \/ InitializeCpu
  PROVE  StartInv'
  <1>1. CASE Bind
    <2>1. UNCHANGED <<config, devices, stratums, stratumCount, connected>>
      BY <1>1 DEF Bind, deviceVars
    <2>2. StageKnown'
      BY <1>1, <2>1 DEF Bind, StartInv, StageKnown, Accepted, Attached
    <2>3. QED
      BY <2>1, <2>2, StageStep
  <1>2. CASE InitializeAmd
    <2>1. UNCHANGED <<config, stratums, stratumCount, connected>> /\ stage = "amd"
      BY <1>2 DEF InitializeAmd
    <2>2. CASE Detect("amd", MaxGpus)
      <3>1. StageKnown'
        BY <2>1, <2>2 DEF Detect, StartInv, StageKnown, Typed, Accepted, Attached, NewDevice
      <3>2. QED
        BY <2>1, <2>2, <3>1, DetectStep, BoundsAssumption DEF Kinds
    <2>3. CASE NothingMore("nvidia")
      <3>1. StageKnown'
        BY <2>1, <2>3 DEF NothingMore, StartInv, StageKnown, Accepted, Attached
      <3>2. QED
        BY <2>1, <2>3, <3>1, StageStep DEF NothingMore
    <2>4. QED
      BY <1>2, <2>2, <2>3 DEF InitializeAmd
  <1>3. CASE InitializeNvidia
    <2>1. UNCHANGED <<config, stratums, stratumCount, connected>> /\ stage = "nvidia"
      BY <1>3 DEF InitializeNvidia
    <2>2. CASE Detect("nvidia", MaxGpus)
      <3>1. StageKnown'
        BY <2>1, <2>2 DEF Detect, StartInv, StageKnown, Typed, Accepted, Attached, NewDevice
      <3>2. QED
        BY <2>1, <2>2, <3>1, DetectStep, BoundsAssumption DEF Kinds
    <2>3. CASE NothingMore("cpu")
      <3>1. StageKnown'
        BY <2>1, <2>3 DEF NothingMore, StartInv, StageKnown, Accepted, Attached
      <3>2. QED
        BY <2>1, <2>3, <3>1, StageStep DEF NothingMore
    <2>4. QED
      BY <1>3, <2>2, <2>3 DEF InitializeNvidia
  <1>4. CASE InitializeCpu
    <2>1. UNCHANGED <<config, stratums, stratumCount, connected>> /\ stage = "cpu"
      BY <1>4 DEF InitializeCpu
    <2>2. CASE Detect("cpu", 1)
      <3>1. StageKnown'
        BY <2>1, <2>2 DEF Detect, StartInv, StageKnown, Typed, Accepted, Attached, NewDevice
      <3>2. QED
        BY <2>1, <2>2, <3>1, DetectStep DEF Kinds
    <2>3. CASE NothingMore("attach")
      <3>1. StageKnown'
        BY <2>1, <2>3 DEF NothingMore, StartInv, StageKnown, Accepted, Attached
      <3>2. QED
        BY <2>1, <2>3, <3>1, StageStep DEF NothingMore
    <2>4. QED
      BY <1>4, <2>2, <2>3 DEF InitializeCpu
  <1>5. QED
    BY <1>1, <1>2, <1>3, <1>4

\* The other steps of main that leave devices and strata alone.
LEMMA MainSteps ==
  ASSUME StartInv,
         \/ NoKindEnabled \/ AllAttached \/ InitializeStratumSmartMining \/ AllRun \/ AllConnected
         \/ ConnectToSmartMining \/ WaitEnds \/ LoopAccept \/ Exited
  PROVE  StartInv'
  <1>1. CASE NoKindEnabled \/ WaitEnds
    BY <1>1, ExitStep DEF NoKindEnabled, WaitEnds, deviceVars
  <1>2. CASE AllAttached \/ InitializeStratumSmartMining
    <2>1. UNCHANGED <<config, devices, stratums, stratumCount, connected>>
      BY <1>2 DEF AllAttached, InitializeStratumSmartMining, deviceVars
    <2>2. StageKnown'
      BY <1>2, <2>1
         DEF AllAttached, InitializeStratumSmartMining, StartInv, StageKnown, Accepted, Attached
    <2>3. QED
      BY <2>1, <2>2, StageStep
  <1>3. CASE AllRun \/ AllConnected
    <2>1. UNCHANGED <<config, devices, stratums, stratumCount, connected>>
      BY <1>3 DEF AllRun, AllConnected, deviceVars
    <2>2. StageKnown'
      BY <1>3, <2>1 DEF AllRun, AllConnected, StartInv, StageKnown, Accepted, Attached
    <2>3. QED
      BY <2>1, <2>2, StageStep
  <1>4. CASE ConnectToSmartMining
    <2>1. UNCHANGED <<config, devices, stratums, stratumCount, connected>>
      BY <1>4 DEF ConnectToSmartMining, deviceVars
    <2>2. StageKnown'
      BY <1>4, <2>1 DEF ConnectToSmartMining, Exit, StartInv, StageKnown, Accepted, Attached
    <2>3. QED
      BY <2>1, <2>2, StageStep
  <1>5. CASE LoopAccept \/ Exited
    <2>1. UNCHANGED <<config, stage, devices, stratums, stratumCount, connected>>
      BY <1>5 DEF LoopAccept, Exited, deviceVars, startVars
    <2>2. StageKnown'
      BY <2>1 DEF StartInv, StageKnown, Accepted, Attached
    <2>3. QED
      BY <2>1, <2>2, StageStep
  <1>6. QED
    BY <1>1, <1>2, <1>3, <1>4, <1>5

LEMMA ConnectStep == ASSUME StartInv, NEW id \in DOMAIN stratums, Connect(id) PROVE StartInv'
  <1>1. UNCHANGED <<config, devices, stratums, stratumCount>>
    BY DEF Connect
  <1>2. CASE Exit /\ UNCHANGED connected
    BY <1>1, <1>2, ExitStep
  <1>3. CASE connected' = connected \cup {id} /\ UNCHANGED <<stage, api>>
    <2>1. Typed' /\ Counted'
      BY <1>1, <1>3 DEF StartInv, Typed, AnyDevice, Resolvers, Counted, Found
    <2>2. InOrder' /\ Fresh' /\ UuidsDistinct'
      BY <1>1 DEF StartInv, InOrder, Fresh, UuidsDistinct, Attached
    <2>3. StrataNamed'
      BY <1>1 DEF StartInv, StrataNamed, Strata, Attached, KeyOf, NameOf, AccountOf
    <2>4. JobsOfItsStratum'
      BY <1>1, <1>3 DEF StartInv, JobsOfItsStratum, IsEnable
    <2>5. StageKnown'
      BY <1>1, <1>3 DEF StartInv, StageKnown, Accepted, Attached
    <2>6. QED
      BY <2>1, <2>2, <2>3, <2>4, <2>5 DEF StartInv
  <1>4. QED
    BY <1>2, <1>3 DEF Connect

\* The device that is attached, and the strata there are then.
LEMMA AttachStep ==
  ASSUME StartInv, EnoughUuids, None \notin Nat, NEW i \in DOMAIN devices, Attach(i)
  PROVE  StartInv'
  <1> DEFINE k == KeyOf(i)
             a == NameOf(i)
             custom == CustomDevice(i)
             new == [SetAlgorithm(devices[i], a) EXCEPT !.stratum = k]
  <1>1. /\ stage = "attach" /\ config.profile = "STANDARD" /\ ~Attached(i) /\ \A j \in 1..(i - 1) : Attached(j)
        /\ UNCHANGED <<config, connected>>
    BY DEF Attach
  <1>2. custom = [id |-> k, algorithm |-> a]
    <2>1. Accepted
      BY <1>1 DEF StartInv, StageKnown
    <2>2. QED
      BY <2>1, CustomIsOwn
  <1>3. custom.id = k /\ custom.algorithm = a
    BY <1>2
  <1> HIDE DEF k, a, custom
  <1>4. CASE k \notin DOMAIN stratums /\ a = "unknown"
    <2>1. Exit /\ UNCHANGED <<devices, stratums, stratumCount>>
      BY <1>3, <1>4 DEF Attach, custom
    <2>2. QED
      BY <1>1, <2>1, ExitStep
  <1>5. CASE k \in DOMAIN stratums \/ a # "unknown"
    <2>1. /\ InitializeStratum(k, a) /\ UNCHANGED <<stage, api>>
          /\ devices' = [devices EXCEPT ![i] = new]
      BY <1>3, <1>5 DEF Attach, custom
    <2>2. /\ devices \in Seq(AnyDevice) /\ devices[i] \in AnyDevice /\ i \in Nat \ {0}
          /\ DOMAIN devices = 1..Len(devices) /\ Len(devices) \in Nat
      BY DEF StartInv, Typed
    <2>3. /\ Id(i) \in Nat /\ Id(i) + 1 = i /\ Len(devices) <= MaxStratums /\ Id(i) # CommonId
          /\ \A j \in DOMAIN devices : Id(j) \in Nat /\ Id(j) + 1 = j
      BY <2>2, Room DEF Id
    <2>4. a \in Names /\ k \in Nat /\ k \in {Id(i), CommonId}
      BY <2>3, NameIsKnown, CommonIdType DEF a, k, KeyOf
    <2>5. /\ Resolver(devices[i], a) \in Resolvers
          /\ Resolver(devices[i], a) # None => Resolver(devices[i], a).algorithm = Gpu(a)
      <3>1. devices[i].resolver = None
        BY <1>1 DEF StartInv, Fresh
      <3>2. QED
        BY <2>2, <2>4, <3>1, ResolverOf
    <2>6. /\ new \in AnyDevice /\ new.kind = devices[i].kind /\ new.stratum = k
          /\ new.resolver = Resolver(devices[i], a)
          /\ new.thread = devices[i].thread /\ new.next = devices[i].next /\ new.current = devices[i].current
      BY <2>2, <2>4, <2>5 DEF SetAlgorithm, AnyDevice, Keys
    <2> HIDE DEF new
    <2>7. /\ devices' \in Seq(AnyDevice) /\ DOMAIN devices' = DOMAIN devices /\ Len(devices') = Len(devices)
          /\ devices'[i] = new /\ \A j \in DOMAIN devices : j # i => devices'[j] = devices[j]
      BY <2>1, <2>2, <2>6
    <2>8. /\ k \in DOMAIN stratums' /\ DOMAIN stratums' = DOMAIN stratums \cup {k}
          /\ \A id \in DOMAIN stratums : stratums'[id] = stratums[id]
          /\ stratums'[k].algorithm = a /\ Account(stratums'[k]) = AccountOf(k)
          /\ stratums'[k].uuid \in Nat
          /\ k \in DOMAIN stratums => stratumCount' = stratumCount
          /\ k \notin DOMAIN stratums => stratums'[k].uuid = stratumCount /\ stratumCount' = NextUuid(stratumCount)
      <3>1. CASE k \in DOMAIN stratums
        <4>1. UNCHANGED <<stratums, stratumCount>>
          BY <2>1, <3>1 DEF InitializeStratum
        <4>2. k = CommonId
          BY <1>1, <2>3, <2>4, <3>1 DEF StartInv, StrataNamed, Strata
        <4>3. a = ToEnum(config.mining.algo)
          BY <2>3, <4>2 DEF a, k, NameOf, KeyOf
        <4>4. QED
          BY <3>1, <4>1, <4>2, <4>3 DEF StartInv, StrataNamed, Typed
      <3>2. CASE k \notin DOMAIN stratums
        <4> DEFINE s == NewStratum(a, config.link.stratumType) ++ AccountOf(k) ++ [uuid |-> stratumCount]
                   added == [other \in {k} |-> s]
        <4>1. stratums' = stratums ++ added /\ stratumCount' = NextUuid(stratumCount)
          BY <2>1, <3>2, Zenon DEF InitializeStratum
        <4>2. s.algorithm = a /\ Account(s) = AccountOf(k) /\ s.uuid = stratumCount
          BY <1>5, <3>2, StratumFields
        <4> HIDE DEF s
        <4>3. DOMAIN added = {k} /\ added[k] = s
          OBVIOUS
        <4> HIDE DEF added
        <4>4. DOMAIN stratums' = DOMAIN stratums \cup {k}
          BY <4>1, <4>3, OverDomain
        <4>5. \A id \in DOMAIN stratums : stratums'[id] = stratums[id]
          BY <4>1, OverLeft
        <4>6. stratums'[k] = s
          BY <3>2, <4>1, <4>3, OverRight
        <4>7. stratumCount \in Nat
          BY DEF StartInv, Typed
        <4>8. QED
          BY <3>2, <4>1, <4>2, <4>4, <4>5, <4>6, <4>7
      <3>3. QED
        BY <3>1, <3>2
    <2>9. stratumCount' \in Nat
      BY <2>8, BoundsAssumption DEF StartInv, Typed, NextUuid
    <2>10. Typed'
      BY <1>1, <2>4, <2>7, <2>8, <2>9 DEF StartInv, Typed, AnyDevice, Resolvers
    <2>11. Counted'
      <3>1. \A kind : Found(kind)' = Found(kind)
        BY <2>6, <2>7 DEF Found
      <3>2. QED
        BY <2>7, <3>1 DEF StartInv, Counted
    <2>12. /\ Attached(i)' /\ \A j \in DOMAIN devices : j # i => Attached(j)' = Attached(j)
           /\ Strata' = Strata \cup {i}
      BY <2>4, <2>6, <2>7 DEF Attached, Strata
    <2>13. InOrder'
      BY <1>1, <2>2, <2>7, <2>12 DEF StartInv, InOrder
    <2>14. Fresh'
      BY <2>7, <2>12 DEF StartInv, Fresh
    <2>15. StrataNamed'
      <3>1. \A j : KeyOf(j)' = KeyOf(j) /\ NameOf(j)' = NameOf(j) /\ Id(j)' = Id(j)
        BY <1>1 DEF KeyOf, NameOf
      <3>2. \A id : AccountOf(id)' = AccountOf(id)
        BY <1>1 DEF AccountOf
      <3>3. \A id \in DOMAIN stratums' : id = CommonId \/ \E j \in Strata' : id = Id(j) /\ devices'[j].stratum = id
        <4> TAKE id \in DOMAIN stratums'
        <4>1. CASE id = k
          BY <2>4, <2>6, <2>7, <2>12, <4>1
        <4>2. CASE id \in DOMAIN stratums /\ id # CommonId
          <5>1. PICK j \in Strata : id = Id(j) /\ devices[j].stratum = id
            BY <4>2 DEF StartInv, StrataNamed
          <5>2. j # i /\ j \in DOMAIN devices
            BY <1>1, <5>1 DEF Strata
          <5>3. QED
            BY <2>7, <2>12, <5>1, <5>2
        <4>3. QED
          BY <2>8, <4>1, <4>2
      <3>4. \A id \in DOMAIN stratums' : Account(stratums'[id]) = AccountOf(id)
        BY <2>8 DEF StartInv, StrataNamed
      <3>5. CommonId \in DOMAIN stratums' => stratums'[CommonId].algorithm = ToEnum(config.mining.algo)
        <4>1. k = CommonId => a = ToEnum(config.mining.algo)
          BY <2>3 DEF a, k, NameOf, KeyOf
        <4>2. QED
          BY <2>8, <4>1 DEF StartInv, StrataNamed
      <3>6. ASSUME NEW j \in Strata'
            PROVE  /\ devices'[j].stratum = KeyOf(j) /\ KeyOf(j) \in DOMAIN stratums'
                   /\ stratums'[KeyOf(j)].algorithm = NameOf(j)
                   /\ devices'[j].resolver # None => devices'[j].resolver.algorithm = Gpu(NameOf(j))
        <4>1. CASE j = i
          BY <2>5, <2>6, <2>7, <2>8, <4>1 DEF a, k
        <4>2. CASE j # i
          BY <2>7, <2>8, <2>12, <4>2 DEF StartInv, StrataNamed, Strata
        <4>3. QED
          BY <4>1, <4>2
      <3>7. QED
        BY <1>1, <3>1, <3>2, <3>3, <3>4, <3>5, <3>6 DEF StrataNamed
    <2>16. UuidsDistinct'
      <3>1. stratumCount \in Nat /\ stratumCount <= Id(i)
            /\ \A id \in DOMAIN stratums : stratums[id].uuid < stratumCount /\ stratums[id].uuid \in Nat
        BY <1>1 DEF StartInv, UuidsDistinct, Typed
      <3>2. \A id, other \in DOMAIN stratums' : stratums'[id].uuid = stratums'[other].uuid => id = other
        BY <2>8, <3>1 DEF StartInv, UuidsDistinct
      <3>3. ASSUME NEW j \in DOMAIN devices, ~Attached(j)'
            PROVE  stratumCount' <= Id(j) /\ \A id \in DOMAIN stratums' : stratums'[id].uuid < stratumCount'
        <4>1. j # i /\ ~Attached(j)
          BY <2>12, <3>3
        <4>2. j > i
          BY <1>1, <2>2, <4>1
        <4>3. CASE k \in DOMAIN stratums
          BY <2>8, <4>1, <4>3 DEF StartInv, UuidsDistinct
        <4>4. CASE k \notin DOMAIN stratums
          <5>1. stratumCount + 1 <= Id(j) /\ stratumCount + 1 < MaxStratums
            BY <2>2, <2>3, <3>1, <4>2, BoundsAssumption
          <5>2. stratumCount' = stratumCount + 1
            BY <2>8, <3>1, <4>4, <5>1, BoundsAssumption DEF NextUuid
          <5>3. QED
            BY <2>8, <3>1, <4>4, <5>1, <5>2
        <4>5. QED
          BY <4>3, <4>4
      <3>4. QED
        BY <2>7, <3>2, <3>3 DEF UuidsDistinct, Id
    <2>17. JobsOfItsStratum'
      <3>1. devices[i].next = None /\ devices[i].current = None /\ devices[i].thread = "none"
        BY <1>1 DEF StartInv, Fresh
      <3>2. ASSUME NEW j \in DOMAIN devices
            PROVE  LET device == devices'[j] IN
                   /\ device.next \in {None, device.stratum}
                   /\ device.current \in {None, device.next}
                   /\ device.next # None => device.next \in connected
                   /\ device.thread = "none" => device.current = None
                   /\ device.thread = "working" => device.current # None
                   /\ device.thread \in {"waiting", "working"} => IsEnable(j) /\ device.resolver # None
        <4>1. CASE j = i
          BY <2>6, <2>7, <3>1, <4>1
        <4>2. CASE j # i
          BY <2>7, <4>2 DEF StartInv, JobsOfItsStratum
        <4>3. QED
          BY <4>1, <4>2
      <3>3. QED
        BY <1>1, <2>7, <3>2 DEF JobsOfItsStratum, IsEnable
    <2>18. StageKnown'
      BY <1>1, <2>1, <2>2, <2>7 DEF StartInv, StageKnown, Accepted
    <2>19. QED
      BY <2>10, <2>11, <2>13, <2>14, <2>15, <2>16, <2>17, <2>18 DEF StartInv
  <1>6. QED
    BY <1>4, <1>5

LEMMA RunStep == ASSUME StartInv, NEW i \in DOMAIN devices, Run(i) PROVE StartInv'
  <1>1. /\ UNCHANGED <<config, stage, stratums, stratumCount, connected>> /\ Attached(i)
        /\ devices' = [devices EXCEPT ![i].next = None, ![i].thread = "started"]
        /\ devices[i].thread = "none"
    BY DEF Run, StartInv, StageKnown
  <1> DEFINE new == [devices[i] EXCEPT !.next = None, !.thread = "started"]
  <1>2. devices \in Seq(AnyDevice) /\ devices[i] \in AnyDevice
    BY DEF StartInv, Typed
  <1>3. /\ new \in AnyDevice /\ new.kind = devices[i].kind /\ new.stratum = devices[i].stratum
        /\ new.resolver = devices[i].resolver /\ new.current = devices[i].current
        /\ new.next = None /\ new.thread = "started"
    BY <1>2 DEF AnyDevice, Keys
  <1>4. devices' = [devices EXCEPT ![i] = new]
    BY <1>1, <1>2
  <1> HIDE DEF new
  <1>5. /\ devices' \in Seq(AnyDevice) /\ DOMAIN devices' = DOMAIN devices
        /\ devices'[i] = new /\ \A j \in DOMAIN devices : j # i => devices'[j] = devices[j]
    BY <1>2, <1>3, <1>4
  <1>6. Fresh'
    BY <1>1, <1>3, <1>5 DEF StartInv, Fresh, Attached
  <1>7. devices[i].current = None
    BY <1>1 DEF StartInv, JobsOfItsStratum
  <1>8. JobsOfItsStratum'
    BY <1>1, <1>3, <1>5, <1>7 DEF StartInv, JobsOfItsStratum, IsEnable
  <1>9. QED
    BY <1>1, <1>3, <1>5, <1>6, <1>8, DeviceStep

LEMMA LoopDoWorkStep == ASSUME StartInv, NEW i \in DOMAIN devices, LoopDoWork(i) PROVE StartInv'
  <1> DEFINE works == IsEnable(i) /\ Initialized(devices[i]) /\ devices[i].resolver # None
             after == IF works THEN "waiting" ELSE "stopped"
             new == [devices[i] EXCEPT !.alive = works, !.thread = after]
  <1>1. /\ UNCHANGED <<config, stage, stratums, stratumCount, connected>>
        /\ devices[i].thread = "started"
        /\ devices' = [devices EXCEPT ![i].alive = works, ![i].thread = after]
    BY DEF LoopDoWork
  <1>2. devices \in Seq(AnyDevice) /\ devices[i] \in AnyDevice
    BY DEF StartInv, Typed
  <1>3. works \in BOOLEAN /\ after \in {"waiting", "stopped"}
        /\ (after = "waiting" => IsEnable(i) /\ devices[i].resolver # None)
    OBVIOUS
  <1> HIDE DEF works, after
  <1>4. /\ new \in AnyDevice /\ new.kind = devices[i].kind /\ new.stratum = devices[i].stratum
        /\ new.resolver = devices[i].resolver /\ new.current = devices[i].current
        /\ new.next = devices[i].next /\ new.thread = after
    BY <1>2, <1>3 DEF AnyDevice, Keys
  <1>5. devices' = [devices EXCEPT ![i] = new]
    BY <1>1, <1>2
  <1> HIDE DEF new
  <1>6. /\ devices' \in Seq(AnyDevice) /\ DOMAIN devices' = DOMAIN devices
        /\ devices'[i] = new /\ \A j \in DOMAIN devices : j # i => devices'[j] = devices[j]
    BY <1>2, <1>4, <1>5
  <1>7. Fresh'
    BY <1>1, <1>4, <1>6 DEF StartInv, Fresh, Attached
  <1>8. JobsOfItsStratum'
    BY <1>1, <1>3, <1>4, <1>6 DEF StartInv, JobsOfItsStratum, IsEnable
  <1>9. QED
    BY <1>1, <1>4, <1>6, <1>7, <1>8, DeviceStep

\* A job goes to one stratum's devices only: the uuid names it.
LEMMA ReceiveJobStep ==
  ASSUME StartInv, None \notin Nat, NEW id \in DOMAIN stratums, ReceiveJob(id)
  PROVE  StartInv'
  <1>1. /\ UNCHANGED <<config, stage, stratums, stratumCount, connected>> /\ id \in connected
        /\ devices' = [i \in DOMAIN devices |->
             IF Attached(i) /\ stratums[devices[i].stratum].uuid = stratums[id].uuid
             THEN [devices[i] EXCEPT !.next = id] ELSE devices[i]]
    BY DEF ReceiveJob
  <1>2. /\ devices \in Seq(AnyDevice) /\ id \in Nat /\ Len(devices) \in Nat /\ DOMAIN devices = 1..Len(devices)
        /\ \A i \in DOMAIN devices : devices[i] \in AnyDevice
    BY DEF StartInv, Typed
  <1>3. \A i \in DOMAIN devices :
          \/ devices'[i] = [devices[i] EXCEPT !.next = id] /\ devices[i].stratum = id
          \/ devices'[i] = devices[i]
    <2> TAKE i \in DOMAIN devices
    <2>1. Attached(i) /\ stratums[devices[i].stratum].uuid = stratums[id].uuid => devices[i].stratum = id
      BY DEF StartInv, StrataNamed, UuidsDistinct, Strata
    <2>2. QED
      BY <1>1, <2>1
  <1>4. ASSUME NEW i \in DOMAIN devices
        PROVE  /\ devices'[i] \in AnyDevice
               /\ devices'[i].kind = devices[i].kind /\ devices'[i].stratum = devices[i].stratum
               /\ devices'[i].resolver = devices[i].resolver /\ devices'[i].current = devices[i].current
               /\ devices'[i].thread = devices[i].thread
               /\ \/ devices'[i].next = devices[i].next
                  \/ devices'[i].next = devices[i].stratum /\ devices[i].stratum = id
    <2>1. CASE devices'[i] = [devices[i] EXCEPT !.next = id] /\ devices[i].stratum = id
      BY <1>2, <2>1 DEF AnyDevice, Keys
    <2>2. CASE devices'[i] = devices[i]
      BY <1>2, <2>2
    <2>3. QED
      BY <1>3, <2>1, <2>2
  <1>5. devices' \in Seq(AnyDevice) /\ DOMAIN devices' = DOMAIN devices
    BY <1>1, <1>2, <1>4
  <1>6. Fresh'
    BY <1>2, <1>4, <1>5 DEF StartInv, Fresh, Attached
  <1>7. JobsOfItsStratum'
    <2>1. ASSUME NEW i \in DOMAIN devices
          PROVE  LET device == devices'[i] IN
                 /\ device.next \in {None, device.stratum}
                 /\ device.current \in {None, device.next}
                 /\ device.next # None => device.next \in connected
                 /\ device.thread = "none" => device.current = None
                 /\ device.thread = "working" => device.current # None
                 /\ device.thread \in {"waiting", "working"} => IsEnable(i) /\ device.resolver # None
      <3>1. /\ devices[i].next \in {None, devices[i].stratum}
            /\ devices[i].current \in {None, devices[i].next}
            /\ devices[i].next # None => devices[i].next \in connected
            /\ devices[i].thread = "none" => devices[i].current = None
            /\ devices[i].thread = "working" => devices[i].current # None
            /\ devices[i].thread \in {"waiting", "working"} => IsEnable(i) /\ devices[i].resolver # None
        BY DEF StartInv, JobsOfItsStratum
      <3>2. CASE devices'[i].next = devices[i].next
        BY <1>1, <1>4, <3>1, <3>2
      <3>3. CASE devices'[i].next = devices[i].stratum /\ devices[i].stratum = id
        BY <1>1, <1>4, <3>1, <3>3
      <3>4. QED
        BY <1>4, <3>2, <3>3
    <2>2. QED
      BY <1>1, <1>5, <2>1 DEF JobsOfItsStratum, IsEnable
  <1>8. QED
    BY <1>1, <1>4, <1>5, <1>6, <1>7, DeviceStep

LEMMA TakeJobStep == ASSUME StartInv, NEW i \in DOMAIN devices, TakeJob(i) PROVE StartInv'
  <1> DEFINE new == [devices[i] EXCEPT !.current = devices[i].next, !.thread = "working"]
  <1>1. /\ UNCHANGED <<config, stage, stratums, stratumCount, connected>>
        /\ devices[i].thread \in {"waiting", "working"} /\ devices[i].next # devices[i].current
        /\ devices' = [devices EXCEPT ![i].current = devices[i].next, ![i].thread = "working"]
    BY DEF TakeJob
  <1>2. devices \in Seq(AnyDevice) /\ devices[i] \in AnyDevice
    BY DEF StartInv, Typed
  <1>3. /\ new \in AnyDevice /\ new.kind = devices[i].kind /\ new.stratum = devices[i].stratum
        /\ new.resolver = devices[i].resolver /\ new.current = devices[i].next
        /\ new.next = devices[i].next /\ new.thread = "working"
    BY <1>2 DEF AnyDevice, Keys
  <1>4. devices' = [devices EXCEPT ![i] = new]
    BY <1>1, <1>2
  <1> HIDE DEF new
  <1>5. /\ devices' \in Seq(AnyDevice) /\ DOMAIN devices' = DOMAIN devices
        /\ devices'[i] = new /\ \A j \in DOMAIN devices : j # i => devices'[j] = devices[j]
    BY <1>2, <1>3, <1>4
  <1>6. Fresh'
    BY <1>1, <1>3, <1>5 DEF StartInv, Fresh, Attached
  <1>7. JobsOfItsStratum'
    BY <1>1, <1>3, <1>5 DEF StartInv, JobsOfItsStratum, IsEnable
  <1>8. QED
    BY <1>1, <1>3, <1>5, <1>6, <1>7, DeviceStep

-----------------------------------------------------------------------------
\* Every state main and the threads reach satisfies the invariant.
THEOREM StartInductive ==
  ASSUME EnoughUuids, None \notin Nat
  PROVE  StartSpec => []StartInv
  <1>1. StartInit => StartInv
    BY StartBase
  <1>2. StartInv /\ [StartNext]_startVars => StartInv'
    <2> SUFFICES ASSUME StartInv, [StartNext]_startVars PROVE StartInv'
      OBVIOUS
    <2>1. CASE Load
      BY <2>1, LoadStep
    <2>2. CASE Bind \/ InitializeAmd \/ InitializeNvidia \/ InitializeCpu
      BY <2>2, DetectionSteps
    <2>3. CASE \/ NoKindEnabled \/ AllAttached \/ InitializeStratumSmartMining \/ AllRun \/ AllConnected
               \/ ConnectToSmartMining \/ WaitEnds \/ LoopAccept \/ Exited
      BY <2>3, MainSteps
    <2>4. CASE \E i \in DOMAIN devices : Attach(i) \/ Run(i)
      BY <2>4, AttachStep, RunStep
    <2>5. CASE \E id \in DOMAIN stratums : Connect(id)
      BY <2>5, ConnectStep
    <2>6. CASE \E i \in DOMAIN devices : LoopDoWork(i) \/ TakeJob(i)
      BY <2>6, LoopDoWorkStep, TakeJobStep
    <2>7. CASE \E id \in DOMAIN stratums : ReceiveJob(id)
      BY <2>7, ReceiveJobStep
    <2>8. CASE UNCHANGED startVars
      <3>1. UNCHANGED <<config, stage, devices, stratums, stratumCount, connected>>
        BY <2>8 DEF startVars
      <3>2. StageKnown'
        BY <3>1 DEF StartInv, StageKnown, Accepted, Attached
      <3>3. QED
        BY <3>1, <3>2, StageStep
    <2>9. QED
      BY <2>1, <2>2, <2>3, <2>4, <2>5, <2>6, <2>7, <2>8 DEF StartNext, Main
  <1>3. QED
    BY <1>1, <1>2, PTL DEF StartSpec

\* A device is attached to the pool its settings name as a whole, or to the common pool,
\* for which nothing is missing (DeviceManager::initialize and initializeStratum).
THEOREM EveryDeviceSpeaksForItsPool ==
  ASSUME EnoughUuids, None \notin Nat
  PROVE  StartSpec => []SpeaksForItsPool
  <1>1. StartInv => SpeaksForItsPool
    <2> SUFFICES ASSUME StartInv, NEW i \in Strata
                 PROVE  LET stratum == stratums[devices[i].stratum]
                            vendor == VendorSetting(devices[i].kind)
                            pool == CASE Id(i) \in DOMAIN config.deviceSettings -> config.deviceSettings[Id(i)]
                                      [] vendor # NoPool -> [config.mining EXCEPT !.host = vendor.host,
                                                                                  !.port = vendor.port,
                                                                                  !.algo = vendor.algo]
                                      [] OTHER -> config.mining
                        IN /\ Account(stratum) = Account(pool)
                           /\ stratum.algorithm = ToEnum(pool.algo)
                           /\ pool = config.mining => Complete(pool, DOMAIN pool)
      BY Zenon DEF SpeaksForItsPool
    <2> DEFINE own == IF Id(i) \in DOMAIN config.deviceSettings THEN config.deviceSettings[Id(i)] ELSE config.mining
    <2>1. i \in DOMAIN devices /\ Id(i) # CommonId
      BY Room DEF Strata
    <2>2. Accepted
      BY <2>1 DEF StartInv, StageKnown, Typed
    <2>3. VendorSetting(devices[i].kind) = NoPool
      <3>1. config.amdSetting = NoPool /\ config.nvidiaSetting = NoPool
        BY <2>2 DEF Accepted
      <3>2. QED
        BY <3>1, Zenon DEF VendorSetting
    <2>4. Account(stratums[devices[i].stratum]) = Account(own)
      <3>1. Account(stratums[devices[i].stratum]) = AccountOf(KeyOf(i))
        BY DEF StartInv, StrataNamed
      <3>2. AccountOf(KeyOf(i)) = Account(own)
        BY <2>1, Zenon DEF AccountOf, KeyOf
      <3>3. QED
        BY <3>1, <3>2
    <2>5. stratums[devices[i].stratum].algorithm = ToEnum(own.algo)
      <3>1. stratums[devices[i].stratum].algorithm = NameOf(i)
        BY DEF StartInv, StrataNamed
      <3>2. NameOf(i) = ToEnum(own.algo)
        BY Zenon DEF NameOf
      <3>3. QED
        BY <3>1, <3>2
    <2>6. own = config.mining => Complete(own, DOMAIN own)
      BY <2>2 DEF StartInv, StrataNamed, Accepted
    <2>7. own = CASE Id(i) \in DOMAIN config.deviceSettings -> config.deviceSettings[Id(i)]
                  [] NoPool # NoPool -> [config.mining EXCEPT !.host = NoPool.host, !.port = NoPool.port,
                                                              !.algo = NoPool.algo]
                  [] OTHER -> config.mining
      BY Zenon
    <2> HIDE DEF own
    <2>8. QED
      BY <2>3, <2>4, <2>5, <2>6, <2>7, Zenon
  <1>2. QED
    BY <1>1, StartInductive, PTL

\* A device works on jobs of its stratum only, with a resolver of its algorithm and the
\* occupancy asked for, unless it is disabled (onUpdateJob, updateDevice, loopDoWork).
THEOREM EveryDeviceMinesItsPool ==
  ASSUME EnoughUuids, None \notin Nat
  PROVE  StartSpec => []MinesItsPool
  <1>1. StartInv => MinesItsPool
    <2> SUFFICES ASSUME StartInv, NEW i \in DOMAIN devices, devices[i].thread = "working"
                 PROVE  /\ Id(i) \notin config.deviceDisable
                        /\ devices[i].current = devices[i].stratum
                        /\ devices[i].stratum \in connected
                        /\ devices[i].resolver.algorithm = Gpu(stratums[devices[i].stratum].algorithm)
                        /\ config.occupancy.threads # None
                             => devices[i].resolver.threads = config.occupancy.threads
      BY Zenon DEF MinesItsPool
    <2>1. /\ IsEnable(i) /\ devices[i].resolver # None /\ devices[i].current = devices[i].stratum
          /\ devices[i].stratum \in connected
      BY DEF StartInv, JobsOfItsStratum
    <2>2. i \in Strata
      BY DEF Strata, StartInv, Fresh
    <2>3. devices[i].resolver.algorithm = Gpu(stratums[devices[i].stratum].algorithm)
      BY <2>1, <2>2 DEF StartInv, StrataNamed
    <2>4. devices[i].resolver.threads = config.occupancy.threads
      <3>1. devices[i] \in AnyDevice
        BY DEF StartInv, Typed
      <3>2. devices[i].resolver \in Resolvers
        BY <3>1 DEF AnyDevice
      <3>3. QED
        BY <2>1, <3>2 DEF Resolvers
    <2>5. QED
      BY <2>1, <2>3, <2>4 DEF IsEnable
  <1>2. QED
    BY <1>1, StartInductive, PTL
=============================================================================
