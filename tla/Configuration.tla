--------------------------- MODULE Configuration ---------------------------
(***************************************************************************)
(* The configuration a command line is loaded into (Config::loadCli) and   *)
(* the test it has to pass (Config::isValidConfig), with the algorithms,   *)
(* the strata and the resolvers it can name.                               *)
(*                                                                         *)
(* Loads is the set of configurations loadCli may end with: none when it   *)
(* fails, and more than one only where it reads an optional that is empty. *)
(***************************************************************************)
EXTENDS CommandLine

CONSTANT Built  \* the kinds of devices the build supports

ASSUME BuiltAssumption == Built \subseteq {"amd", "nvidia", "cpu"}

-----------------------------------------------------------------------------
\* algo::toEnum: the names of the algorithms stand for them.
Algorithms == {"sha256", "ethash", "etchash", "progpow", "progpow-quai", "progpowz", "kawpow", "meowpow",
               "firopow", "evrprogpow", "autolykosv2", "blake3", "kheavyhash"}
ToEnum(text) == IF text \in Algorithms THEN text ELSE "unknown"

\* The resolver setResolver creates for an algorithm, None when it creates none.
Gpu(algorithm) == CASE algorithm \in {"sha256", "unknown"} -> None
                    [] algorithm = "progpowz" -> "progpow"
                    [] OTHER -> algorithm
ResolverAmd(algorithm) == Gpu(algorithm)
ResolverNvidia(algorithm) == Gpu(algorithm)
ResolverCpu(algorithm) == IF algorithm = "blake3" THEN algorithm ELSE None

\* NewStratum: the dialect follows the algorithm, its protocol --stratum.
Protocol == [v1 |-> "EthereumStratum/1.0.0", v2 |-> "EthereumStratum/2.0.0", ethproxy |-> ""]
NewStratum(algorithm, stratumType) ==
  IF algorithm = "unknown" THEN None ELSE [algorithm |-> algorithm, protocol |-> Protocol[stratumType]]

-----------------------------------------------------------------------------
AtLeast(value, minimum) == IF value = None THEN None ELSE IF value >= minimum THEN value ELSE minimum
Port(value, otherwise) == IF value \in 1..65535 THEN value ELSE otherwise
Filled(given, o, otherwise) == IF Get(given, o) \in {None, ""} THEN otherwise ELSE Get(given, o)

NoPool == [host |-> "", port |-> 0, algo |-> "", workerName |-> "", wallet |-> "", password |-> "x"]

Levels == {"debug", "info", "warning", "error"}
LoadLog(given) ==
  [level |-> IF Get(given, "level_log") \in Levels THEN Get(given, "level_log") ELSE "info",
   file |-> Filled(given, "log_file", ""),
   interval |-> AtLeast(Get(given, "log_interval_hash"), 100),
   showNewJob |-> Get(given, "log_new_job")]

\* The variables set in the environment.  The percentage of a single allocation is
\* read, given or not, when the one of all allocations is given: an option that is
\* not given is then read as any number.
Environments(given) ==
  LET order == Get(given, "env_cuda_device_order")
      single == Get(given, "env_gpu_single_alloc_percent")
      read == IF single = None THEN Range(Numbers) ELSE {single}
      all == AtLeast(Get(given, "env_gpu_max_alloc_percent"), 10)
  IN [CUDA_MODULE_LOADING : {IF Get(given, "env_cuda_lazy") = None THEN None
                             ELSE IF Get(given, "env_cuda_lazy") THEN "LAZY" ELSE "EAGER"},
      CUDA_DEVICE_ORDER : {IF order \in {"PCI_BUS_ID", "FASTEST_FIRST"} THEN order ELSE None},
      GPU_MAX_HEAP_SIZE : {AtLeast(Get(given, "env_gpu_heap_size"), 10)},
      GPU_MAX_ALLOC_PERCENT : {all},
      GPU_SINGLE_ALLOC_PERCENT : IF all = None THEN {None} ELSE {AtLeast(n, 10) : n \in read}]

LoadPool(given) ==
  [host |-> Filled(given, "host", ""), port |-> Port(Get(given, "port"), 0),
   algo |-> Filled(given, "algo", ""), wallet |-> Filled(given, "wallet", ""),
   password |-> Filled(given, "password", "x"), workerName |-> Filled(given, "workername", "")]

\* How the pools are reached: the same for all of them.
LoadLink(given) ==
  [stratumType |-> IF Get(given, "stratum") \in DOMAIN Protocol THEN Get(given, "stratum") ELSE "v1",
   ssl |-> Get(given, "ssl"), stale |-> Get(given, "stale"), socks5 |-> Get(given, "socks5"),
   socksPort |-> IF Get(given, "socks5") THEN Port(Get(given, "socks_port"), 0) ELSE 0,
   socksHost |-> Get(given, "socks_host")]

\* The wallets of Raven Miner replace the pool, the last of them wins.
LoadRaven(given, pool) ==
  LET coins == SelectSeq(RavenCoins, LAMBDA coin : Has(given, RavenOption[coin]))
      coin == Last(coins)
  IN IF coins = <<>> THEN pool
     ELSE [pool EXCEPT !.host = "stratum.ravenminer.com", !.port = 3838, !.algo = "kawpow",
                       !.wallet = Get(given, RavenOption[coin]), !.password = coin]

\* The pool of all GPUs of a vendor, complete or not at all.
VendorPool(given, kind, host, port, algo) ==
  IF kind \notin Built \/ ~Get(given, kind) \/ None \in {Get(given, host), Get(given, port), Get(given, algo)}
  THEN NoPool
  ELSE [NoPool EXCEPT !.host = Get(given, host), !.port = Get(given, port), !.algo = Get(given, algo)]
LoadAmd(given) == VendorPool(given, "amd", "amd_host", "amd_port", "amd_algo")
LoadNvidia(given) == VendorPool(given, "nvidia", "nvidia_host", "nvidia_port", "nvidia_algo")

\* The pools of single devices: of the items for a device the last one counts.
OwnValue(given, o, id, otherwise) ==
  LET mine == SelectSeq(Items(given, o), LAMBDA item : AtoI(item.key) = id)
  IN IF mine = <<>> THEN otherwise ELSE Last(mine).value
LoadOwn(given) ==
  [id \in UNION {{AtoI(item.key) : item \in Range(Items(given, o))} : o \in OwnOptions} |->
    [host |-> OwnValue(given, "device_pool", id, ""),
     port |-> ItemNumber(OwnValue(given, "device_port", id, "0")),
     algo |-> OwnValue(given, "device_algo", id, ""),
     workerName |-> OwnValue(given, "device_workername", id, ""),
     wallet |-> OwnValue(given, "device_wallet", id, ""),
     password |-> OwnValue(given, "device_password", id, "x")]]

\* Threads or blocks that are given put an end to the automatic occupancy.
LoadOccupancy(given) ==
  LET threads == Get(given, "threads")
      blocks == Get(given, "blocks")
  IN [threads |-> IF threads = 0 THEN None ELSE threads, blocks |-> IF blocks = 0 THEN None ELSE blocks,
      isAuto |-> Get(given, "occupancy") /\ threads = 0 /\ blocks = 0,
      internalLoop |-> Get(given, "internal_loop"), cudaContext |-> Get(given, "cuda_context"),
      kernelMinimunExecuteNeeded |-> Get(given, "internal_kernel_count"),
      accumulateHash |-> Get(given, "internal_accumulate_hash")]

\* Smart mining: wallets and pools by coin, no coin twice.
IsSmartMining(given) == Has(given, "sm_wallet") \/ Has(given, "sm_pool")
DuplicateCoin(given) ==
  LET wallets == Items(given, "sm_wallet")
      pools == PoolItems(given)
  IN \/ \E i, j \in DOMAIN wallets : i < j /\ wallets[i].key = wallets[j].key
     \/ \E i, j \in DOMAIN pools : /\ i < j
                                   /\ pools[i].key = pools[j].key
                                   /\ pools[i].value # "" \/ AtoI(pools[i].port) # 0
LoadCoins(given, password) ==
  LET wallets == Items(given, "sm_wallet")
      pools == PoolItems(given)
      Of(items, coin) == SelectSeq(items, LAMBDA item : item.key = coin)
      WithWallet(pool, coin) ==
        IF Of(wallets, coin) = <<>> THEN pool ELSE [pool EXCEPT !.wallet = Last(Of(wallets, coin)).value]
      WithPool(pool, coin) ==
        IF Of(pools, coin) = <<>> THEN pool
        ELSE [pool EXCEPT !.host = Last(Of(pools, coin)).value, !.password = password,
                          !.port = AtoI(Last(Of(pools, coin)).port)]
  IN [coin \in {item.key : item \in Range(wallets) \cup Range(pools)} |->
       WithPool(WithWallet(NoPool, coin), coin)]

\* The getters called: those of a vendor, and of the proxy, only when it is enabled.
Read(given) ==
  DOMAIN Readers
  \ ((IF "amd" \in Built /\ Get(given, "amd") THEN {} ELSE DOMAIN AmdReaders)
     \cup (IF "nvidia" \in Built /\ Get(given, "nvidia") THEN {} ELSE DOMAIN NvidiaReaders)
     \cup (IF Get(given, "socks5") THEN {} ELSE {"socks_port"}))

Configuration(given, environment) ==
  LET mining == LoadRaven(given, LoadPool(given))
  IN [profile |-> IF IsSmartMining(given) THEN "SMART_MINING" ELSE "STANDARD",
      log |-> LoadLog(given), environment |-> environment, priceKWH |-> Get(given, "price_kwh"),
      mining |-> mining, link |-> LoadLink(given),
      enabled |-> {kind \in Built : Get(given, kind)},
      cpu |-> [threads |-> Get(given, "cpu_threads"), affinity |-> Get(given, "cpu_affinity")],
      amdSetting |-> LoadAmd(given), nvidiaSetting |-> LoadNvidia(given),
      deviceDisable |-> Ids(given, "devices_disable"), deviceSettings |-> LoadOwn(given),
      occupancy |-> LoadOccupancy(given),
      ethashBuildLightCacheCPU |-> Get(given, "ethash_light_cache_cpu"),
      coinPoolConfig |-> IF IsSmartMining(given) THEN LoadCoins(given, mining.password) ELSE <<>>,
      apiPort |-> Port(Get(given, "api_port"), 8080)]

Loads(given) ==
  IF ~Parses(given) \/ Throws(given, Read(given)) \/ (IsSmartMining(given) /\ DuplicateCoin(given)) THEN {}
  ELSE {Configuration(given, environment) : environment \in Environments(given)}

-----------------------------------------------------------------------------
\* isValidConfig: what a pool needs, and what smart mining asks of its pools.
Complete(pool, fields) == \A field \in fields : pool[field] \notin IF field = "port" THEN {0} ELSE {""}

IsValidConfig(config) ==
  IF config.profile = "STANDARD"
  THEN Complete(config.mining, {"host", "port", "algo", "workerName", "password", "wallet"})
  ELSE /\ Complete(config.mining, {"workerName", "password"})
       /\ DOMAIN config.coinPoolConfig # {}
       /\ \A coin \in DOMAIN config.coinPoolConfig :
            Complete(config.coinPoolConfig[coin], {"host", "port", "wallet", "password"})
=============================================================================
