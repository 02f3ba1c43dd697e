------------------------------ MODULE StartUp ------------------------------
(***************************************************************************)
(* From the command line to the first jobs: main, the detection of the     *)
(* devices, the stratum and the resolver each of them is given             *)
(* (DeviceManager::initialize, Device::setAlgorithm), the threads of the   *)
(* devices (DeviceManager::run, the beginning of Device::loopDoWork), the  *)
(* connections (connectToPools) and the jobs, which find their devices by  *)
(* the uuid of their stratum (onUpdateJob, updateDevice).                  *)
(*                                                                         *)
(* The command lines are those built from the lines of Bases, with one     *)
(* option more or with two of the groups of options that belong together.  *)
(* Smart mining is followed up to its connection: SmartMining goes on from *)
(* there, DeviceSync with a job of a device, TCPClient with a connection.  *)
(***************************************************************************)
EXTENDS Configuration, FiniteSets

CONSTANTS
  MaxGpus,     \* bound: GPUs found of each vendor
  MaxStratums  \* DeviceManager::MAX_STRATUMS, where the uuids start again

ASSUME BoundsAssumption == MaxGpus \in Nat /\ MaxStratums \in Nat \ {0}

VARIABLES
  given,         \* the command line
  config,        \* Config::instance(), None until it is loaded
  stage,         \* where main is
  api,           \* the thread of the API: "off", "starting", "idle", "serving"
  devices,       \* DeviceManager::devices; the id of a device is its place, from 0
  stratums,      \* DeviceManager::stratums, by device id
  stratumCount,  \* the next uuid
  smart,         \* stratumSmartMining
  connected      \* the keys of the strata that are connected

startVars == <<given, config, stage, api, devices, stratums, stratumCount, smart, connected>>

-----------------------------------------------------------------------------
(***************************************************************************)
(* The command lines tried.                                                *)
(***************************************************************************)
Standard(algo) ==
  [host |-> "host", port |-> "3333", algo |-> algo, wallet |-> "wallet", workername |-> "rig"]
Smart(coins) ==
  [workername |-> "rig",
   sm_wallet |-> [i \in DOMAIN coins |-> [separated |-> TRUE, key |-> coins[i], value |-> "coin wallet"]],
   sm_pool |-> [i \in DOMAIN coins |->
                 [separated |-> TRUE, key |-> coins[i], value |-> "coin host", port |-> "3333"]]]
Bases == {Standard("kawpow"), Standard("blake3"), Standard("no such"), Smart(<<"RVN">>), Smart(<<"RVN", "RVN">>),
          [rm_rvn_btc |-> "btc wallet", rm_rvn_ltc |-> "ltc wallet", workername |-> "rig"]}

Item(id, value) == [separated |-> TRUE, key |-> id, value |-> value]
Own(ids, algo) ==
  [device_pool |-> [i \in DOMAIN ids |-> Item(ids[i], "own host")],
   device_port |-> [i \in DOMAIN ids |-> Item(ids[i], "4444")],
   device_algo |-> [i \in DOMAIN ids |-> Item(ids[i], algo)],
   device_wallet |-> [i \in DOMAIN ids |-> Item(ids[i], "own wallet")]]
Groups ==
  {<<>>, [amd_host |-> "vendor host", amd_port |-> "4444", amd_algo |-> "ethash"],
   [nvidia_host |-> "true", nvidia_port |-> "4444", nvidia_algo |-> "ethash"],
   Own(<<"0">>, "ethash"), Own(<<"0", "1">>, "blake3"), Own(<<"1", "0">>, "sha256"),
   [device_algo |-> <<Item("0", "etchash"), [Item("1", "blake3") EXCEPT !.separated = FALSE]>>],
   [devices_disable |-> <<"0", "no id">>], [cpu |-> "false"],
   [amd |-> "false", nvidia |-> "false", cpu |-> "false"], [threads |-> "3333"]}

\* What a single option may be given as, well formed or not.
Texts(type) ==
  CASE type = "flag" -> {"true", "false", "maybe"}
    [] type = "number" -> {"0", "1", "70000", "many"}
    [] type = "list" -> {<<>>}
    [] OTHER -> {"", "text"}
Singles ==
  UNION {[{o} -> Texts(Registered[o])] : o \in DOMAIN Registered}
  \cup {[level_log |-> "debug"], [stratum |-> "v2"], [stratum |-> "proxy"], [device_disable |-> <<"0">>],
        [env_cuda_device_order |-> "PCI_BUS_ID"]}

CommandLines ==
  {<<>>} \cup {single @@ base : single \in Singles, base \in Bases}
  \cup {(one @@ two) @@ base : one \in Groups, two \in Groups, base \in Bases}

-----------------------------------------------------------------------------
StartInit ==
  /\ given \in CommandLines
  /\ config = None
  /\ stage = "load"
  /\ api = "off"
  /\ devices = <<>>
  /\ stratums = <<>>
  /\ stratumCount = 0
  /\ smart = None
  /\ connected = {}

deviceVars == <<devices, stratums, stratumCount, smart, connected>>

\* main returns, and the process with it.
Exit == stage' = "exited" /\ api' = "off"

\* Config::load: help, and a configuration that is not valid, end main.
Load ==
  /\ stage = "load"
  /\ \/ /\ Loads(given) = {}
        /\ Exit
        /\ UNCHANGED config
     \/ /\ config' \in Loads(given)
        /\ IF Has(given, "help") \/ ~IsValidConfig(config')
           THEN Exit
           ELSE stage' = "bind" /\ UNCHANGED api
  /\ UNCHANGED <<given, deviceVars>>

\* ServerAPI::setPort and bind: its thread starts, whatever becomes of it.
Bind ==
  /\ stage = "bind"
  /\ stage' = "amd"
  /\ api' = "starting"
  /\ UNCHANGED <<given, config, deviceVars>>

\* ServerAPI::loopAccept: without the port the API is given up and mining goes on; a
\* request reads the devices, and one that fails is only logged.
LoopAccept ==
  /\ \/ api = "starting" /\ api' \in {"idle", "off"}
     \/ api = "idle" /\ api' = "serving"
     \/ api = "serving" /\ api' = "idle"
  /\ UNCHANGED <<given, config, stage, deviceVars>>

-----------------------------------------------------------------------------
(***************************************************************************)
(* DeviceManager::initialize: the devices.                                 *)
(***************************************************************************)
NewDevice(kind) ==
  [kind |-> kind, algorithm |-> "unknown", resolver |-> None, stratum |-> None, alive |-> FALSE,
   thread |-> "none", next |-> None, current |-> None]

Found(kind) == {i \in DOMAIN devices : devices[i].kind = kind}
Detect(kind, limit) ==
  /\ kind \in config.enabled
  /\ Cardinality(Found(kind)) < limit
  /\ devices' = Append(devices, NewDevice(kind))
  /\ UNCHANGED stage
NothingMore(after) == stage' = after /\ UNCHANGED devices

\* The GPUs of the platforms of AMD.
InitializeAmd ==
  /\ stage = "amd"
  /\ Detect("amd", MaxGpus) \/ NothingMore("nvidia")
  /\ UNCHANGED <<given, config, api, stratums, stratumCount, smart, connected>>

\* Without the driver, and for a GPU whose properties are refused, there is no device.
InitializeNvidia ==
  /\ stage = "nvidia"
  /\ Detect("nvidia", MaxGpus) \/ NothingMore("cpu")
  /\ UNCHANGED <<given, config, api, stratums, stratumCount, smart, connected>>

\* The processor is one device.
InitializeCpu ==
  /\ stage = "cpu"
  /\ IF "cpu" \in config.enabled /\ Found("cpu") = {} THEN Detect("cpu", 1) ELSE NothingMore("attach")
  /\ UNCHANGED <<given, config, api, stratums, stratumCount, smart, connected>>

\* No kind is enabled: initialize fails.
NoKindEnabled ==
  /\ stage = "attach"
  /\ config.enabled = {}
  /\ Exit
  /\ UNCHANGED <<given, config, deviceVars>>

-----------------------------------------------------------------------------
(***************************************************************************)
(* DeviceManager::initialize: a stratum and a resolver for every device.   *)
(***************************************************************************)
Id(i) == i - 1
CommonId == 1000000  \* DEVICE_MAX_ID, above every id: the stratum of the common pool

VendorSetting(kind) == CASE kind = "amd" -> config.amdSetting
                         [] kind = "nvidia" -> config.nvidiaSetting
                         [] OTHER -> NoPool

\* customDeviceID and customAlgorithm: the settings of the device, else those of its
\* vendor, else the common pool.
CustomDevice(i) ==
  LET vendor == VendorSetting(devices[i].kind)
  IN CASE Id(i) \in DOMAIN config.deviceSettings ->
            [id |-> Id(i), algorithm |-> ToEnum(config.deviceSettings[Id(i)].algo)]
       [] Id(i) \notin DOMAIN config.deviceSettings /\ Complete(vendor, {"host", "port", "algo"}) ->
            [id |-> Id(i), algorithm |-> ToEnum(vendor.algo)]
       [] OTHER -> [id |-> CommonId, algorithm |-> ToEnum(config.mining.algo)]

\* Whom a stratum logs in to, and as whom.
Account(pool) == [host |-> pool.host, port |-> pool.port, workerName |-> pool.workerName,
                  wallet |-> pool.wallet, password |-> pool.password]

\* Mutant: the settings of a device give the address only.
AddressOnly(id) ==
  IF id \in DOMAIN config.deviceSettings
  THEN [Account(config.mining) EXCEPT !.host = config.deviceSettings[id].host,
                                      !.port = config.deviceSettings[id].port]
  ELSE Account(config.mining)

\* What initializeStratum assigns: the settings of the device, if it has any.
AccountOf(id) ==
  Account(IF id # CommonId /\ id \in DOMAIN config.deviceSettings THEN config.deviceSettings[id] ELSE config.mining)

\* Mutant: the counter is not raised.
SameUuid(uuid) == uuid

\* stratumCount++, which starts again at MAX_STRATUMS.
NextUuid(uuid) == IF uuid + 1 >= MaxStratums THEN 0 ELSE uuid + 1

\* initializeStratum and getOrCreateStratum: a stratum there is already is kept.
InitializeStratum(id, algorithm) ==
  LET stratum == NewStratum(algorithm, config.link.stratumType)
  IN IF id \in DOMAIN stratums THEN UNCHANGED <<stratums, stratumCount>>
     ELSE /\ stratums' = stratums ++ [new \in {id} |-> stratum ++ AccountOf(id) ++ [uuid |-> stratumCount]]
          /\ stratumCount' = NextUuid(stratumCount)

\* Device::setAlgorithm: without a new resolver the device keeps the one it has, and
\* without any it is killed; the occupancy given is handed to the resolver.
Resolver(device, algorithm) ==
  LET created == CASE device.kind = "amd" -> ResolverAmd(algorithm)
                   [] device.kind = "nvidia" -> ResolverNvidia(algorithm)
                   [] OTHER -> ResolverCpu(algorithm)
  IN IF created = None THEN device.resolver
     ELSE [algorithm |-> created, blocks |-> config.occupancy.blocks, threads |-> config.occupancy.threads]
SetAlgorithm(device, algorithm) ==
  [device EXCEPT !.algorithm = algorithm, !.resolver = Resolver(device, algorithm),
                 !.alive = @ /\ Resolver(device, algorithm) # None]

\* The next device of the loop: initialize fails when it cannot have a stratum.
Attached(i) == devices[i].stratum # None
Attach(i) ==
  LET custom == CustomDevice(i)
  IN /\ stage = "attach"
     /\ config.enabled # {}
     /\ config.profile = "STANDARD"
     /\ ~Attached(i) /\ \A j \in 1..(i - 1) : Attached(j)
     /\ IF custom.id \notin DOMAIN stratums /\ custom.algorithm = "unknown"
        THEN Exit /\ UNCHANGED <<devices, stratums, stratumCount>>
        ELSE /\ InitializeStratum(custom.id, custom.algorithm)
             /\ devices' = [devices EXCEPT ![i] = [SetAlgorithm(@, custom.algorithm) EXCEPT !.stratum = custom.id]]
             /\ UNCHANGED <<stage, api>>
     /\ UNCHANGED <<given, config, smart, connected>>

AllAttached ==
  /\ stage = "attach"
  /\ config.enabled # {}
  /\ config.profile = "STANDARD"
  /\ \A i \in DOMAIN devices : Attached(i)
  /\ stage' = "run"
  /\ UNCHANGED <<given, config, api, deviceVars>>

\* initializeStratumSmartMining, and setStratumSmartMining of every device; main does
\* not run the devices, the first switch of algorithm will.
InitializeStratumSmartMining ==
  /\ stage = "attach"
  /\ config.enabled # {}
  /\ config.profile = "SMART_MINING"
  /\ smart' = [host |-> config.mining.host, port |-> config.mining.port,
               workerName |-> config.mining.workerName, password |-> config.mining.password]
  /\ stage' = "connect smart"
  /\ UNCHANGED <<given, config, api, devices, stratums, stratumCount, connected>>

-----------------------------------------------------------------------------
(***************************************************************************)
(* DeviceManager::run, connectToPools and connectToSmartMining.            *)
(***************************************************************************)

\* The next device of run: cleanJob, and a thread.
Run(i) ==
  /\ stage = "run"
  /\ devices[i].thread = "none" /\ \A j \in 1..(i - 1) : devices[j].thread # "none"
  /\ devices' = [devices EXCEPT ![i].next = None, ![i].thread = "started"]
  /\ UNCHANGED <<given, config, stage, api, stratums, stratumCount, smart, connected>>

AllRun ==
  /\ stage = "run"
  /\ \A i \in DOMAIN devices : devices[i].thread # "none"
  /\ stage' = "connect"
  /\ UNCHANGED <<given, config, api, deviceVars>>

\* The strata connect in the order of their keys; the first that fails ends main.
Connect(id) ==
  /\ stage = "connect"
  /\ id \notin connected
  /\ \A other \in DOMAIN stratums : other < id => other \in connected
  /\ \/ connected' = connected \cup {id} /\ UNCHANGED <<stage, api>>
     \/ Exit /\ UNCHANGED connected
  /\ UNCHANGED <<given, config, devices, stratums, stratumCount, smart>>

AllConnected ==
  /\ stage = "connect"
  /\ connected = DOMAIN stratums
  /\ stage' = "wait"
  /\ UNCHANGED <<given, config, api, deviceVars>>

ConnectToSmartMining ==
  /\ stage = "connect smart"
  /\ stage' = "wait" \/ Exit
  /\ UNCHANGED <<given, config, deviceVars>>
  /\ stage' = "wait" => UNCHANGED api

\* wait returns when every link is given up, at once when there is none.
WaitEnds ==
  /\ stage = "wait"
  /\ Exit
  /\ UNCHANGED <<given, config, deviceVars>>

Exited == stage = "exited" /\ UNCHANGED startVars

-----------------------------------------------------------------------------
(***************************************************************************)
(* The threads of the devices and the jobs.                                *)
(***************************************************************************)

\* Config::isEnable and Device::initialize of the three kinds: an AMD device wants a
\* resolver for its queues, the others go on to find that they have none.
IsEnable(i) == Id(i) \notin config.deviceDisable
InitializeAmdDevice(device) == device.resolver # None
InitializeNvidiaDevice(device) == TRUE
InitializeCpuDevice(device) == TRUE
Initialized(device) == CASE device.kind = "amd" -> InitializeAmdDevice(device)
                         [] device.kind = "nvidia" -> InitializeNvidiaDevice(device)
                         [] OTHER -> InitializeCpuDevice(device)

\* loopDoWork up to waitJob.
LoopDoWork(i) ==
  /\ devices[i].thread = "started"
  /\ stage # "exited"
  /\ LET works == IsEnable(i) /\ Initialized(devices[i]) /\ devices[i].resolver # None
     IN devices' = [devices EXCEPT ![i].alive = works, ![i].thread = IF works THEN "waiting" ELSE "stopped"]
  /\ UNCHANGED <<given, config, stage, api, stratums, stratumCount, smart, connected>>

\* onUpdateJob and updateDevice: a job goes to the devices whose stratum has the uuid
\* of the one it came by.
ReceiveJob(id) ==
  /\ id \in connected
  /\ stage # "exited"
  /\ devices' = [i \in DOMAIN devices |->
       IF Attached(i) /\ stratums[devices[i].stratum].uuid = stratums[id].uuid
       THEN [devices[i] EXCEPT !.next = id] ELSE devices[i]]
  /\ UNCHANGED <<given, config, stage, api, stratums, stratumCount, smart, connected>>

\* waitJob ends, or updateJob takes the job of the live thread.
TakeJob(i) ==
  /\ devices[i].thread \in {"waiting", "working"}
  /\ stage # "exited"
  /\ devices[i].next # devices[i].current
  /\ devices' = [devices EXCEPT ![i].current = devices[i].next, ![i].thread = "working"]
  /\ UNCHANGED <<given, config, stage, api, stratums, stratumCount, smart, connected>>

Main ==
  \/ Load \/ Bind \/ InitializeAmd \/ InitializeNvidia \/ InitializeCpu \/ NoKindEnabled
  \/ AllAttached \/ InitializeStratumSmartMining \/ AllRun \/ AllConnected \/ ConnectToSmartMining \/ WaitEnds
  \/ \E i \in DOMAIN devices : Attach(i) \/ Run(i)
  \/ \E id \in DOMAIN stratums : Connect(id)

StartNext ==
  \/ Main \/ LoopAccept \/ Exited
  \/ \E i \in DOMAIN devices : LoopDoWork(i) \/ TakeJob(i)
  \/ \E id \in DOMAIN stratums : ReceiveJob(id)

StartSpec == StartInit /\ [][StartNext]_startVars

-----------------------------------------------------------------------------
(***************************************************************************)
(* Safety.                                                                 *)
(***************************************************************************)
Strata == {i \in DOMAIN devices : Attached(i)}

\* Every device is attached to the pool its settings name: its own, as a whole, if it
\* has any; else that of its vendor, with the account of the common pool; else the
\* common pool, for which nothing is missing.  The address and the algorithm never
\* come from different groups of options (DeviceManager::initialize takes the
\* algorithm, initializeStratum the address).
SpeaksForItsPool == \A i \in Strata :
  LET stratum == stratums[devices[i].stratum]
      vendor == VendorSetting(devices[i].kind)
      pool == CASE Id(i) \in DOMAIN config.deviceSettings -> config.deviceSettings[Id(i)]
                [] vendor # NoPool -> [config.mining EXCEPT !.host = vendor.host, !.port = vendor.port,
                                                            !.algo = vendor.algo]
                [] OTHER -> config.mining
  IN /\ Account(stratum) = Account(pool)
     /\ stratum.algorithm = ToEnum(pool.algo)
     /\ pool = config.mining => Complete(pool, DOMAIN pool)

\* A device that works is not disabled, has a resolver of the algorithm of its stratum
\* with the occupancy asked for, and its job came by that stratum, which is connected:
\* jobs are told apart by a uuid counted in initialize, and by nothing else.
MinesItsPool == \A i \in DOMAIN devices : LET device == devices[i] IN
  device.thread = "working" =>
    /\ Id(i) \notin config.deviceDisable
    /\ device.current = device.stratum
    /\ device.stratum \in connected
    /\ device.resolver.algorithm = Gpu(stratums[device.stratum].algorithm)
    /\ config.occupancy.threads # None => device.resolver.threads = config.occupancy.threads

\* What the code does not keep; no run checks it.  The API thread reads the devices
\* while initialize appends to them: nothing orders them.
ApiReadsSettledList == api = "serving" => stage \notin {"amd", "nvidia", "cpu"}

\* Options that cannot be given, with any text: --amd_host and --nvidia_host are
\* registered as flags and read as texts.
EveryOptionLoads == \A o \in DOMAIN Readers : Readers[o].as = Registered[o]

\* The pool of a device may be named in part: what is missing is not taken from the
\* common pool.
OwnPoolIsComplete == \A i \in Strata :
  stage = "connect" => Complete(stratums[devices[i].stratum], {"host", "port", "wallet", "workerName"})

\* Smart mining is accepted without --host and --port, and goes on without a device:
\* the gap between the nonces of a job is then divided by zero.
SmartMiningIsUsable == smart # None => Complete(smart, {"host", "port"}) /\ devices # <<>>
=============================================================================
