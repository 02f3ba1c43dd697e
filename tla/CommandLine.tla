---------------------------- MODULE CommandLine ----------------------------
(***************************************************************************)
(* The command line and the configuration it is turned into: the options   *)
(* registered with boost (Cli::Cli), the getters that read them (one table *)
(* per cli_*.cpp), Cli::parse, Config::loadCli and Config::isValidConfig.  *)
(*                                                                         *)
(* A command line is a function from the options given to what was given:  *)
(* a text, or, for the options that take several values, a sequence of     *)
(* items, each a text taken apart at its separators.  Texts are told apart *)
(* by the option they were given for; those that read as numbers or flags  *)
(* are listed in Numbers and Flags.  The mocker is not part of the build.  *)
(***************************************************************************)
EXTENDS Integers, Sequences, SequencesExt, TLC

CONSTANT None  \* std::nullopt

-----------------------------------------------------------------------------
\* f, and what only g has: the @@ of TLC, in a form that can be reasoned about.
f ++ g == [x \in DOMAIN f \cup DOMAIN g |-> IF x \in DOMAIN f THEN f[x] ELSE g[x]]

-----------------------------------------------------------------------------
(***************************************************************************)
(* Registered options and their types.                                     *)
(***************************************************************************)

As(type, options) == [o \in options |-> type]

RegisteredGeneral ==
  As("switch", {"help"})
  ++ As("text", {"level_log", "log_file", "env_cuda_device_order"})
  ++ As("number", {"log_interval_hash", "env_gpu_heap_size", "env_gpu_max_alloc_percent",
                   "env_gpu_single_alloc_percent", "price_kwh"})
  ++ As("flag", {"log_new_job", "env_cuda_lazy"})

RavenCoins == <<"btc", "eth", "ltc", "bch", "ada", "dodge", "matic">>
RavenOption == [btc |-> "rm_rvn_btc", eth |-> "rm_rvn_eth", ltc |-> "rm_rvn_ltc", bch |-> "rm_rvn_bch",
                ada |-> "rm_rvn_ada", dodge |-> "rm_rvn_dodge", matic |-> "rm_rvn_matic"]

RegisteredPool ==
  As("text", {"host", "stratum", "wallet", "algo", "workername", "password", "socks_host"})
  ++ As("text", Range(RavenOption))
  ++ As("number", {"port", "socks_port"})
  ++ As("flag", {"ssl", "stale", "socks5"})

OwnOptions == {"device_pool", "device_port", "device_password", "device_algo",
               "device_wallet", "device_workername"}

RegisteredDevices ==
  As("flag", {"nvidia", "amd", "cpu", "amd_host", "nvidia_host"})
  ++ As("text", {"amd_algo", "nvidia_algo"})
  ++ As("number", {"amd_port", "nvidia_port"})
  ++ As("list", {"devices_disable"} \cup OwnOptions)

RegisteredKernel ==
  As("number", {"threads", "blocks", "internal_loop", "internal_kernel_count", "cpu_threads", "api_port"})
  ++ As("flag", {"occupancy", "internal_accumulate_hash", "ethash_light_cache_cpu"})
  ++ As("text", {"cuda_context", "cpu_affinity"})
  ++ As("list", {"sm_wallet", "sm_pool"})

Registered == RegisteredGeneral ++ RegisteredPool ++ RegisteredDevices ++ RegisteredKernel

-----------------------------------------------------------------------------
(***************************************************************************)
(* The getters: the type each option is read as, and what stands for an    *)
(* option that is not given.                                               *)
(***************************************************************************)

Reader(type, otherwise) == [as |-> type, otherwise |-> otherwise]
Optional(type, options) == [o \in options |-> Reader(type, None)]

LogReaders ==
  Optional("text", {"level_log", "log_file"}) ++ Optional("number", {"log_interval_hash"})
  ++ [log_new_job |-> Reader("flag", TRUE)]

EnvironmentReaders ==
  Optional("flag", {"env_cuda_lazy"}) ++ Optional("text", {"env_cuda_device_order"})
  ++ Optional("number", {"env_gpu_heap_size", "env_gpu_max_alloc_percent", "env_gpu_single_alloc_percent"})

CommonReaders == [price_kwh |-> Reader("number", None), ethash_light_cache_cpu |-> Reader("flag", TRUE)]

PoolReaders ==
  Optional("text", {"host", "stratum", "algo", "wallet", "workername", "password", "socks_host"})
  ++ [o \in {"ssl", "socks5", "stale"} |-> Reader("flag", FALSE)]
  ++ [port |-> Reader("number", 0), api_port |-> Reader("number", 8080), socks_port |-> Reader("number", 9050)]

PoolCustomReaders == Optional("text", Range(RavenOption))

AmdReaders == Optional("text", {"amd_host", "amd_algo"}) ++ Optional("number", {"amd_port"})
NvidiaReaders == Optional("text", {"nvidia_host", "nvidia_algo"}) ++ Optional("number", {"nvidia_port"})

DeviceSettingReaders == [o \in {"nvidia", "amd", "cpu"} |-> Reader("flag", TRUE)]
DeviceCustomReaders == [o \in {"devices_disable"} \cup OwnOptions |-> Reader("list", <<>>)]
SmartMiningReaders == [o \in {"sm_wallet", "sm_pool"} |-> Reader("list", <<>>)]

KernelReaders ==
  [threads |-> Reader("number", 0), blocks |-> Reader("number", 0), occupancy |-> Reader("flag", FALSE),
   internal_loop |-> Reader("number", 1), internal_kernel_count |-> Reader("number", 100),
   internal_accumulate_hash |-> Reader("flag", TRUE), cuda_context |-> Reader("text", "auto")]
  ++ Optional("number", {"cpu_threads"}) ++ Optional("text", {"cpu_affinity"})

Readers ==
  LogReaders ++ EnvironmentReaders ++ CommonReaders ++ PoolReaders ++ PoolCustomReaders ++ AmdReaders
  ++ NvidiaReaders ++ DeviceSettingReaders ++ DeviceCustomReaders ++ SmartMiningReaders ++ KernelReaders

-----------------------------------------------------------------------------
(***************************************************************************)
(* Parsing and reading.                                                    *)
(***************************************************************************)

\* The texts that read as a flag, or as a number.
Flags == [true |-> TRUE, false |-> FALSE]
Numbers == ("0" :> 0) @@ ("1" :> 1) @@ ("3333" :> 3333) @@ ("4444" :> 4444) @@ ("70000" :> 70000)

\* atoi gives zero for a text that is no number.
AtoI(text) == IF text \in DOMAIN Numbers THEN Numbers[text] ELSE 0

\* Cli::contains: options that are not registered are let through and forgotten.
Has(given, o) == o \in DOMAIN given \cap DOMAIN Registered

\* Cli::parse.
Parses(given) == \A o \in DOMAIN given \cap DOMAIN Registered :
  /\ Registered[o] = "flag" => given[o] \in DOMAIN Flags
  /\ Registered[o] = "number" => given[o] \in DOMAIN Numbers

\* What the getters of numbers that may not be zero return for zero.
NotZero == {"internal_loop", "internal_kernel_count", "cpu_threads"}

Get(given, o) ==
  LET otherwise == Readers[o].otherwise
      number == Numbers[given[o]]
  IN CASE ~Has(given, o) -> otherwise
       [] Readers[o].as = "flag" -> Flags[given[o]]
       [] Readers[o].as = "number" -> IF number = 0 /\ o \in NotZero THEN otherwise ELSE number
       [] OTHER -> given[o]

\* params[o].as<T>() throws when T is not the type o is registered with.
Throws(given, options) == \E o \in options : Has(given, o) /\ Readers[o].as # Registered[o]

\* getCustomParamsU32 and getCustomParamsStr: items without a colon are skipped.
Items(given, o) == SelectSeq(Get(given, o), LAMBDA item : item.separated)
ItemNumber(text) == IF text \in DOMAIN Flags THEN IF Flags[text] THEN 1 ELSE 0 ELSE AtoI(text)

\* getCustomMultiParamsU32.
Ids(given, o) == {AtoI(text) : text \in Range(Get(given, o))}

\* getCustomParamsStrStrU32: COIN@URL:PORT, both separators needed.
PoolItems(given) == SelectSeq(Get(given, "sm_pool"), LAMBDA item : item.separated /\ item.port # None)
=============================================================================
