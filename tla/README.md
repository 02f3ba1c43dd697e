# TLA+ models of luminousminer

luminousminer connects to one or more mining pools, receives jobs over a
line-based JSON protocol, hands each job to every device (GPU or CPU) that
mines for that pool, and sends back the shares the devices find. This directory
models that path, from the command line to the share that is counted,
model-checks it with TLC and proves parts of it with TLAPS. File references are
relative to `src/sources/`.

- [Inventory](#inventory)
- [Modules and how they correspond to the code](#modules-and-how-they-correspond-to-the-code)
- [Runs, bounds and what they show](#runs-bounds-and-what-they-show)
- [Where the code and its documents disagree](#where-the-code-and-its-documents-disagree)
- [Fairness](#fairness)
- [Proofs](#proofs)
- [What is only model-checked](#what-is-only-model-checked)
- [What is not modelled](#what-is-not-modelled)
- [Plan](#plan)

## Inventory

| component | state | operations | interacts with |
|---|---|---|---|
| Entry point, command line, configuration (`miner.cpp`, `common/cli`, `common/config.cpp`) | the options given, `Config` | `Cli::parse`, `loadCli`, `isValidConfig`, `main` | fixes the parameters of everything below |
| Device manager (`device/device_manager.cpp`) | `jobInfos`, `devices`, `stratums`, `stratumSmartMining`, `mtxJobInfo` | `initialize*`, `run`, `connectTo*`, `onUpdateJob`, `updateDevice`, `onShareStatus`, `onSmartMiningSetAlgorithm` | finds the devices and gives each a stratum; called back by the strata on the network thread; writes every device's `nextjobInfo` and counters |
| Device (`device/device.cpp`) | `nextjobInfo`, `currentJobInfo`, `synchronizer` (three `AtomicCounter`s), `alive`, `computing`, `resolver`, `miningStats` | `update`, `loopDoWork`, `waitJob`, `updateJob`, `submit`, `kill`, `run`, `setAlgorithm` | one thread per device; shares the job and the counters with the network thread |
| Stratum session (`stratum/stratum.cpp`, one subclass per pool family) | `jobInfo`, `authenticated`, extranonce, `uuid`, `threadTimeout` | `onConnect`, `onReceive`, `onMethod`, `onResponse`, `updateJob`, `onShare`, `miningSubmit` | derives from the TCP client; calls the device manager back |
| Smart mining session (`stratum/smart_mining.cpp`) | `currentAlgorithm`, `stratumPool` and its `jobInfo` | `set_algo`, `set_extra_nonce`, `set_target`, `notify`, submissions | switches every device to another algorithm; its stratum shares its socket |
| TCP client (`network/network.cpp`, `network_callback.cpp`, `socks5.hpp`) | `socketTCP`, `strand`, `countRetryConnect`, `recvBuffer`, `pump` | `connect` with TLS and SOCKS5 set-up, `retryConnect`, `disconnect`, `transmit`, `onReceiveAsync`, `onSend` | handlers run on a strand; devices send from their own threads |
| Write pump (`network/write_pump.cpp`) | `queue`, `writeInFlight` | `enqueue`, `onComplete` | calls `transmit` outside its mutex |
| GPU resolvers (`resolver/amd`, `resolver/nvidia`) | `currentIndexStream`, result buffers, `resultShare`, header, DAG, compiled kernel | `updateMemory`, `updateConstants`, `executeAsync`, `submit` | driven by the device's thread; the GPU reads and writes their buffers meanwhile |
| Context generator (`algo/ethash/ethash.cpp`) | one `DagContextShare` per algorithm: count, epoch, sizes, light cache | `build`, `free` | shared by the resolvers of all devices |
| ProgPOW kernel writers (`algo/progpow`) | registers, order of destinations and sources | `writeMathRandomKernelCuda*`, `writeMathRandomKernelOpenCL*` | called by a resolver for each period |
| CPU Blake3 resolver (`resolver/cpu/blake3.cpp`) | two batches, `currentIndexStream`, `inFlight`, `resultShare` | `executeAsync`, `harvest`, `submit`, destructor | driven by its device's thread, scanned by the pool |
| CPU thread pool (`resolver/cpu/thread_pool.cpp`) | `generation`, `remaining`, `cursor`, `total`, two condition variables | `runAsync`, `wait`, `run`, destructor | workers scan slices with the resolver's callback |
| API (`api/api.cpp`) | a copy of the device list | `bind`, `loopAccept` | reads the devices from its own thread |
| Statistics, log, profiler, benchmark, hashes | constants and displays | - | leaf code |

What is hard in this code, and what makes each part correct:

- **Job hand-off without a common lock.** `StratumJobInfo::copy` locks the mutex
  of its destination only, so the network thread and a device copy the same
  `nextjobInfo` at the same time, field by field, and three counters tell the
  device afterwards what changed. Correct when no accepted job is lost, a torn
  copy never outlives the hand-off that tore it, and the DAG and the constants
  in the resolver become those of the job.
- **One writer per socket.** Devices, the connecting thread and the completion
  handler all feed the pump. Correct when one payload is in flight, in order,
  and the pump never falls asleep with work queued.
- **Reconnection inside a handler.** `retryConnect` sleeps and connects on the
  strand while completions and posted writes queue up behind it. Correct when
  every write is completed exactly once, none is on a socket that is deleted or
  only half set up, the read is always re-armed, and the retry count is per
  outage.
- **A job assembled from several messages.** Extranonce, target and job arrive
  apart, in an order that depends on the pool, and `jobInfo` outlives the
  connection. Correct when only whole jobs reach a device, and they are of the
  session that is up.
- **Double buffering.** Winners are read one call after their batch was
  dispatched, under a job that may have changed. Correct when each winner is
  submitted at most once and as what it is, no nonce is scanned twice or left
  out, every batch runs with the header, DAG and kernel of one job, and the
  buffers neither overflow nor change under their reader.
- **One light cache for several devices.** It is built and released under a
  mutex and uploaded outside of it. Correct when no device uploads an array that
  is deleted or of another epoch, and the array is given back in the end.
- **Nonces as text.** The extranonce is a prefix of hexadecimal digits, the slice
  of a device a number, the share text again, cut differently for every pool and
  resolver. Correct when no nonce is tried twice, a share reads back as the nonce
  found, and its answer is counted once and for its device.
- **The same kernel written twice.** CUDA and OpenCL texts of a ProgPOW period
  come from two functions in six variants. Correct when they compute the same.
- **A reusable parallel loop.** Workers of one batch may still be on their way
  to the condition variable when the next one is published. Correct when each
  index is scanned exactly once and `wait` returns exactly then.
- **Switching algorithms while devices run.** Correct when no resolver is
  deleted under a call, a device mines with one thread and with the resolver of
  its job, its shares go to the stratum of their algorithm, and the switch ends.
- **Who mines for whom.** The algorithm, the address and the devices of a pool are
  chosen in different places from a hundred options, while the threads start and
  the first jobs arrive. Correct when every device speaks for the pool its
  settings name and works on the jobs of that pool only.

## Modules and how they correspond to the code

| module | models | shape |
|---|---|---|
| `CommandLine` | the options boost registers, the getters of `cli_*.cpp`, `Cli::parse` | operators, one table per file |
| `Configuration` | `Config::loadCli`, `isValidConfig`, `algo::toEnum`, `NewStratum`, the `setResolver*` tables | operators over `CommandLine` |
| `StartUp` | `main`, `DeviceManager::initialize*`, `run`, `connectTo*`, the API thread, the beginning of `loopDoWork`, the routing of the first jobs | one step per statement of `main` that other threads can see; EXTENDS `Configuration` |
| `DeviceSync` | `DeviceManager::onUpdateJob`, `updateDevice`, `Device::update`, `waitJob`, `updateJob`, `loopDoWork` | one step per field copied and per counter read or raised |
| `SerialWriter` | what `write_pump.hpp` promises | abstract specification: a FIFO queue and a writer of one payload |
| `WritePump` | `WritePump::enqueue`, `onComplete`, the call of `transmit` after the mutex | one step per critical section, one for the call |
| `TCPClient` | `NetworkTCPClient::connect` with its TLS and SOCKS5 set-up, `retryConnect`, `disconnect`, `send`, `transmit`, `asyncReceive`, `onReceiveAsync`, `onSend` | composes `WritePump`; one step per handler, or per part of a handler between which other threads act |
| `StratumSession` | `Stratum::onConnect`, `setExtraNonce`, `isValidJob`, `updateJob`, the handlers of seven dialects, the `mining.noop` thread, the skip of `onUpdateJob` | one step per message of the pool, over any number of connections |
| `SmartMining` | the methods of `StratumSmartMining`, `onSmartMiningSetAlgorithm`, `DeviceManager::run`, `Device::kill`, `setAlgorithm`, `run`, `loopDoWork`, `submit` | one step per iteration of the manager's loops, threads numbered by the switch that started them |
| `LightCache` | `ContextGenerator::build` and `free`, `updateMemory` of the ethash family | one step per call under the mutex, one per upload |
| `GpuStreams` | `executeAsync`, harvest and `submit` of the ten GPU resolvers, `updateMemory` and `updateConstants` as far as buffers and kernels go | the device thread and two streams of its GPU |
| `SharePath` | `setExtraNonce`, the slices of `onUpdateJob`, the walk of each search kernel, the text of a nonce, `submit`, request ids, `onShare`, `onShareStatus` | numbers and texts; the pool reads the share back; `MCSharePath` gives its instance the occupancies |
| `ProgpowKernel` | `writeMathRandomKernelCuda*`, `writeMathRandomKernelOpenCL*` and how the resolvers call them | two writers over one stream of draws |
| `ParallelFor` | what `thread_pool.hpp` promises | abstract specification: how often each index of the batch was scanned |
| `CpuThreadPool` | `CpuThreadPool::runAsync`, `wait`, `workerLoop`, destructor | one step per critical section or atomic operation |
| `CpuBlake3` | `ResolverCpuBlake3` under `Device::loopDoWork` | composes `ParallelFor` for the pool it uses |
| `DeviceProofs` | - | theorems about `DeviceSync` and `StartUp` |
| `SmartMiningProofs`, `LightCacheProofs`, `GpuStreamsProofs`, `SharePathProofs`, `ProgpowKernelProofs` | - | theorems about the module they name |
| `NetworkProofs` | - | theorems about `WritePump`, `TCPClient` and `StratumSession` |
| `CpuProofs` | - | theorems about `CpuThreadPool` and `CpuBlake3` |

The composition follows the code: `TCPClient` instantiates `WritePump`, which
implements `SerialWriter`; `CpuBlake3` instantiates `ParallelFor`, which
`CpuThreadPool` implements, so the workers' interleavings are checked once and
reused by their specification. The others meet at the data they hand over: a
step that another module takes apart is one step (a hand-off in
`StratumSession`, `SmartMining` and `SharePath` is the subject of `DeviceSync`; the
answers to shares are left to `SharePath`, reconnections to `TCPClient`).

`NetworkProofs` and `CpuProofs` extend two components each, which therefore share no
names: the specification of `StratumSession` is `SessionSpec`, with `SessionInit`,
`SessionNext` and `Miners` for its devices, that of `CpuBlake3` is `BlakeSpec`, with
`BlakeInit`, `BlakeNext` and `devicePc`. In `TCPClient` the pump is the instance `Pump`, and
its theorems are about `Pump!Spec`, which is `WritePump` with the client's frames.

Operators named "Mutant" in a comment are wrong forms of the definition that
follows them. No action uses them; a property is worth keeping when it fails
with one of them in place.

**CommandLine, Configuration, StartUp.** A command line is a function from options
to what was given. A text is named by the option it was given for; those that read
as numbers or flags are listed, so that a getter of the wrong type fails as it
does in boost. `Loads` is a set of configurations because `config.cpp:151-153`
reads an optional that may be empty. The command lines tried are a few complete
ones, each with one option more or with two of the groups of options that belong
together. Tables of options are put together with `++`, which is TLC's `@@`
written out so that proofs can use it. `stage` is where `main` is; the API thread,
the devices' threads and the first jobs run between its steps. Smart mining is
followed up to its connection. The mocker, the profilers and the output of the log
are left out.

**DeviceSync.** `next`, `cur` are `nextjobInfo` and `currentJobInfo`; `current`
and `last` the two sides of each `AtomicCounter`; `need` and `snap` the locals
of `updateJob`. A job is an epoch and a header. A nonce is kept as the slice of
the nonce space it lies in: `Update*` copies the pool's start nonce (slice 0) and
`UpdateOffset` adds `gapNonce * id`. Everything `onUpdateJob` does happens under
`mtxJobInfo`, so there is one network thread; its devices' threads run freely
between its steps.

**WritePump.** `queue` and `writeInFlight` are the members. `pc`, `payload` hold
what a thread carries from its critical section to `transmit`; `handed` is what
was passed to `transmit` and is not complete.

**TCPClient.** `strand` says which handler owns the strand, or where the main
thread is in its first `connect`; `step` how far `connect` has come: trust store,
resolution, connection to the pool or the proxy, the proxy's greeting and reply,
socket options, handshake. Certificates are a chain and a host name that check or
do not, looked at by the two functions the platforms use. `write` is the one
`async_write` the pump allows, from being posted to its handler; `read` the
pending `async_read_until`. A frame keeps its kind and the session it was made
for. `io_context::run` returns when nothing is pending (`stopped`). A proxy that
answers with a domain name leaves bytes in the stream, as `socks5.hpp:183` does.

**StratumSession.** `family` picks one of seven dialects, which differ in what
`onConnect` asks, who sends the extranonce, where the target comes from and how a
notify is read: a handler is the sequence of the groups of fields it writes, and
may stop after any of them. `jobInfo` is the member of the stratum, `accepted` the
job in `DeviceManager::jobInfos`, `work` what a device computes. The handlers run one
at a time on the strand and have no guard of their own, so the pool may send any
message at any time of a connection. `jobInfo` keeps what a lost connection and a
malformed notify left in it, since the code resets it nowhere; `line` is the
partial line a lost connection leaves in `recvBuffer`, which swallows the first line
of the next one. `told`, `serves` and the variables next to them describe the
pool. Extranonces and targets are names: the numbers are in `SharePath`, and the
floor `targetBits` that ethash puts under `boundaryU64` for long extranonces is left
out, as are ETHEREUM_V2 and ETHPROXY logins of dialects that do not answer them and
sha256, whose boundary is never set.

**SmartMining.** A job is the algorithm it is for and its epoch, or the clean job, which
has neither. `held` is the resolver a thread is using; `told` what the child stratum has
of extranonce and target; `accepted` the epoch in `jobInfos`, which `run` resets to the
clean job's before the devices are started (`device_manager.cpp:523-528`); `memory` the
memory counter of a device and `built` whether its resolver was given a DAG; `deleted`
whether the socket the session and its stratum share is gone. `Device::run` interrupts
and detaches the thread it replaces; `waitJob` sleeps with `std::this_thread`, which boost
cannot interrupt, so the old thread stays, and both it and its successor pass `waitJob`
and use one resolver. The pool may send `set_algo` at any moment. `early` is a history of
the devices it reached in such a moment: while a thread of theirs initialized or slept.
What an interrupted thread does at its next interruption point is left out: only a thread
of such a device is there to be interrupted. For an algorithm in `Unsupported` the
resolver tables have no entry, for `Unknown` there is no stratum either. `subscribe` and
`set_profile` only send.

**LightCache.** `shared` is the entry of `contexts`, `heap` the arrays that are
allocated, `ctx` the copy a resolver works with. The six resolvers differ in where
they call `free`. Sizes are known or not.

**GpuStreams.** A resolver is a record of the choices it makes: two streams or
one, one result buffer or one per stream, when it compiles, what it clears, how it
checks the epoch. `run` is the batch on each stream with the headers it may read;
`buf` and `share` the result buffers and `resultShare`. A job is its number and its block,
from which period and epoch follow.

**SharePath.** Numbers in a base and a width of the instance. A resolver is how its kernel
walks the nonces and how it writes one. `occupancy` has the blocks and threads of a
launch, whose product is what `updateBatchNonce` advances by. The kernels of AMD ethash
and AMD ProgPOW (`ethash_search.cl:374`, `progpow.cl:127`) number their threads by
`GROUP_SIZE`, the largest group of the device, whatever `--blocks` says, so with fewer
blocks the numbers have gaps and go beyond the batch (`ThreadIds`, `Narrow`); the stride
of the AMD ProgPOW kernel is compiled in before the occupancy is overridden (`built`).
In such a launch the groups of AMD ProgPOW also fill only a part of their copy of the DAG's
first words (`progpow.cl:102`, `HalfFilled`) and hash with local memory nobody wrote: the
outcome is nondeterministic, within the bounds `MayStray` names. The pool is external: it
accepts a nonce that begins with the extranonce, wins under the header the share
is for, and was not sent before. A hand-off is one step; the clearing of buffers by
`updateMemory` is left to `GpuStreams`.

**ProgpowKernel.** Both writers are stepped over one stream of kiss99 draws, kept
as remainders. A statement is its operator, registers and rotation. The tables
`Nvidia*` and `Amd*` are the arguments each resolver passes; the arithmetic of kiss99
is left out.

**CpuThreadPool.** `total`, `sliceGrain`, `generation`, `remaining`, `cursor` are
the members; `lastGeneration`, `jobTotal`, `jobGrain`, `lo` the workers' locals;
`times` counts how often each index was passed to the callback, so that an index scanned
again, or one beyond the batch, shows in the refinement. A worker on the
condition variable is `"waiting"` until `notify_all` sends it back to its predicate; a spurious
wakeup, after which it tests the predicate and waits again, is no step. The inline path of a pool of one worker runs without another thread and is left out
(`poolSize > 1` is an assumption).

**CpuBlake3.** A job number stands for the header that is hashed and for the id
the pool knows it by; `batch` holds header, base nonce and winners of the two
buffers. `scanned`, `found`, `sent` and `dropped` are history.

## Runs, bounds and what they show

| run | bounds | shows |
|---|---|---|
| `device_sync` | 1 device (id 1), 2 epochs, 2 headers, 3 jobs | no job is lost; foreign slices and stale DAGs are always pending; the device ends up with the last job unless it stopped |
| `cpu_thread_pool` | 3 workers, batches of 0, 2 and 5, grains 0, 1 and 3, 2 batches | implements `ParallelFor` (every index once, none beyond the batch); batches end, the destructor joins |
| `tcp_client` | 2 devices, 3 sessions, 2 retries, queue of 5, 9 configurations (TLS or not, on two platforms; directly, through a proxy, or one without a host) | exactly one completion per write, no write on a socket that is deleted or not set up as configured, links replaced or given up late, completions arrive; implements `SerialWriter` |
| `cpu_blake3` | 2 jobs of 2 batches of 3 nonces, results of 2 | winners accounted for, buffers stable, nonces scanned once and none skipped |
| `smart_mining` | 2 devices (1 disabled), 2 algorithms with resolvers, 1 without (and with extranonces), an unknown name, 2 switches at any moment, 2 jobs | but for the devices in `early` and the algorithms without a resolver: resolvers outlive their calls and fit their jobs, shares go to the stratum of their algorithm, no job with an epoch runs without memory, no wait of a switch is for ever |
| `smart_mining_socket` | the same | violated: see below |
| `stratum_session` | 7 dialects, 1 device, 2 jobs, 2 extranonces, 2 targets, any number of connections | no half job reaches a device; a served session gets its extranonce and target to it |
| `light_cache` | 3 devices of a family, 5 families, 3 epochs of which one is refused, 4 updates, counts modulo 8, light cache built on the CPU or the GPU | a device uploads a live light cache of its epoch; the count covers the holders; in the end everything is released |
| `gpu_streams` | 10 resolvers, blocks 2, 4, 8 with periods of 4 and epochs of 8, 3 jobs, 2 batches of up to 3 winners, buffers of 2 | every winner accounted for, harvests recent, losses only where they are known, every launch fits the live job, winners leave the buffers |
| `share_path` | 14 resolvers, 2 devices, a full group of 2 threads and 4 groups of 1 of the 2 they may have, 7 binary digits, extranonces of 2 and 6 digits and values 0 to 2, internal loops of 1 and 3, 2 jobs, 2 batches, 2 shares | no nonce tried by two devices, nor in two batches unless the kernel leaves its batch; every rejected share explained, every share counted once |
| `progpow_kernel` | 6 algorithms, 3 registers (2 for MeowPOW), up to 3 caches and maths, 2 DAG loads, 12 by 2 remainders | both writers agree; math has two sources |
| `start_up` | 1245 command lines, at most one GPU of each vendor, as many uuids (3) as devices, so that the counter starts again with the last | every device speaks for the pool of its settings and mines its jobs only |

The runs reach between 50 000 and 1 100 000 distinct states, `light_cache` five million.
The type invariants of all modules are proved; runs spend their time
on other properties.

Why the bounds are enough. In `DeviceSync` the devices share nothing but the
loop of `updateDevice`, and no property relates two of them; device 1 is the one
whose slice differs from the pool's, and the theorems hold for any set of
devices. Three jobs let a hand-off overlap the previous one at every step and
still be followed by another. Two epochs and two headers give every
combination of the two update flags, with the empty job as a third value. Two
devices and the handlers are the three threads the pump needs: one sends while
another is between the mutex and `transmit` and a third completes. With three
workers one may be late from the previous batch while two race for the last
slice; batches of 0, 2 and 5 with grains of 0 (the pool chooses), 1 and 3 give
empty batches, fewer slices than workers, and a last slice that is cut. Three
sessions give a reconnection after a reconnection; two retries tell the first, a
middle and the last attempt apart. Two buffers of the CPU resolver are all used
after three batches, and four batches over two jobs let a batch straddle a job
change. Two switches are enough for a thread to meet its successor and for a
stratum to be replaced. Two jobs, extranonces and targets let a session differ
from the one before in any of them, and a job be announced again; the pool of
`StratumSession` changes the extranonce once per connection. Three devices let one
release what a second uploads while a third asks for another epoch, and four
updates bring one of them back. Blocks 2, 4 and 8 give a job of the same epoch and
another period, and one that changes both; three winners overflow a buffer of
two; batches after the second find nothing, but go on, so that what was found is
still harvested. Seven binary digits keep every shape of a nonce: with and without
leading zeros, shorter than the extranonce, at the end of a slice; an extranonce of six
leaves slices that a batch runs out of, one of two leaves room for batches that overlap.
Groups of one thread where two fit give numbers with gaps, and four of them a batch whose
numbers reach into the next; five threads when the kernel was built is neither. The ProgPOW
registers are the fewest whose order can be shuffled in several ways, and twelve
remainders cover every choice made from a draw: eleven operators, six pairs of
sources, four merges; two values of the upper half tell two rotations apart. A hundred uuids are
more than the strata of any command line tried: see below for fewer.

`CHECK_DEADLOCK FALSE` is set where a behaviour stops at the bounds: in
`light_cache` when the updates are used up, in `share_path` when the jobs and shares
are, or `substr` threw.

What `smart_mining` sets apart is what the code gets wrong, and no more. A device killed
while its thread initializes or sleeps (`early`) has that thread in `loopDoWork` next to the
one `run` starts, for the rest of the session, and `alive = true` (`device.cpp:378`) may
undo its `kill`: without the exception `ResolverOutlivesCalls`, `OneThread`, `MemoryIsBuilt`
and `AwaitEnds` fail. For an algorithm in `Unsupported` the resolver of the last one stays, is handed the new
jobs and submits to the new stratum: without that exception `RightResolver` and
`SubmitsToItsPool` fail. `share_path` likewise names its exceptions: `DistinctNonces` fails
without either half of `StaysInBatch`, `RejectedExplained` without the cause of a nonce found
again or of memory nobody wrote (the nonces NVIDIA ProgPOW repeats come up from the third
batch on, beyond the bound of the run; there the theorem has them).

## Where the code and its documents disagree

One disagreement is kept as a run.

**`SocketOutlivesSwitch`** (`stratum/smart_mining.cpp:105`, run `smart_mining_socket`).
The stratum made for an algorithm is given the raw pointer of the session's own
socket. The next `set_algo` resets that stratum, and `~NetworkTCPClient`
(`network/network.cpp:16`) deletes the socket the session still reads and writes.
`SMART_MINING.md:5` promises switches "during your mining session", and
`network/network.hpp:64-65` that the child "shares its parent's pump (single writer
per shared socket)". After a reconnection the stratum keeps the pointer of the
socket that `connect` has already deleted, so the next switch deletes it again.

The others are kept as definitions that do not hold, beside the properties of
their module. To see one, add its name to the cfg of the module under INVARIANTS
or PROPERTIES.

| definition | module | what the code does, and what speaks against it |
|---|---|---|
| `DagCurrentWhenSettled` | `DeviceSync` | `device.cpp:255`: `updateJob` reads `needUpdateMemory` before it snapshots the counters. When the memory and the job counter are raised in between, the job is copied and its counter consumed without the DAG being rebuilt, and the device mines the job on the old DAG until another comes; `device.cpp:391-393` relies on a second call that returns early |
| `DropsOnlyStale` | `TCPClient` | `network_callback.cpp:264`: the completion of a write aborted by a reconnection drops the subscribe of the new session; `write_pump.hpp:30-31` says what is dropped is stale |
| `HandlerFindsItsStream` | `TCPClient` | `network.cpp:48`: with TLS the intermediate handler of an aborted write runs after its stream was deleted |
| `StaleIsDropped` | `CpuBlake3` | `resolver/cpu/blake3.cpp:147`: a winner is labelled with the live job, so `isStale` never fires and a winner of the last job goes out as one of this; `blake3.hpp:61-62` says it is dropped. The GPU resolvers compare in the same way, so `--stale=false` (`PARAMETERS.md:26`) has no effect |
| `OneThread` without `\ early` | `SmartMining` | `device.cpp:227`: `kill` joins nothing (`ARCHITECTURE.md:402`, `:295`) |
| `RightResolver` without `\cup Unsupported` | `SmartMining` | `device_cpu.cpp:18`: for an algorithm its device type does not support `setResolver*` leaves the old resolver in place; `ARCHITECTURE.md:400` has `setAlgorithm` "instantiate correct Resolver subclass" |
| `DistinctNonces` without `StaysInBatch` | `SharePath` | `ethash_search.cl:374`, `progpow.cl:127`: with `--blocks` below the largest group the batches of AMD ethash and ProgPOW overlap; `search.cu:130`: so do those of NVIDIA ProgPOW from the third internal turn on |
| `WholeJobsOnly` | `SmartMining` | `smart_mining.cpp:161`: the job goes to the devices whatever `isValidJob` says; the extranonces of blake3 and kheavyhash are always refused (`:145-149`) |
| `NonceIsApplied` | `StratumSession` | `device_manager.cpp:594`: a notify with the header accepted last is skipped even if the extranonce changed since; `kheavyhash.cpp:65-68` says every share is then rejected. `WorkFitsSession` shows that the next header repairs it |
| `NoopsAreServed` | `StratumSession` | `stratum.cpp:154`: the noop thread of a lost session sends into the next one before it is authorized |
| `SharedCacheIsLive` | `LightCache` with `Families = {{"AmdEthash", "NvidiaEthash"}}` | `nvidia/ethash.cpp:131`: NVIDIA ethash gives the context up after the upload and again at the end, and deletes the array under the other device; `ARCHITECTURE.md:489` has the algorithms share it |
| `ReadsBack` | `SharePath` | `amd/ethash.cpp:413`: `std::hex` drops leading zeros and the extranonce is cut by position; the comment at `amd/blake3.cpp:179-180` knows of it. `RejectedExplained` names it among the causes of a rejected share |
| `ApiReadsSettledList` | `StartUp` | `device_manager.cpp:502`: the API thread copies the devices while they are appended |
| `EveryOptionLoads` | `StartUp` | `--amd_host` and `--nvidia_host` (`PARAMETERS.md:52`) are registered as flags and read as texts: they cannot be given |
| `OwnPoolIsComplete` | `StartUp` | a device's own pool may be named in part; what is missing is not taken from the common pool |
| `SmartMiningIsUsable` | `StartUp` | smart mining is accepted without host and port, and goes on without a device, where `onUpdateJob` divides by zero |

Also met while modelling. Each is in the model; none is a property of its own.

- *Jobs.* A job announced just before a switch leaves its counter pending, so
  `waitJob` of the new thread passes and the clean job is executed
  (`device.cpp:242`). A start nonce of 0 counts as none
  (`stratum.cpp:368`): an extranonce of zeros stops the session.
- *Connection.* A share posted to the strand during a reconnection goes out before
  the subscribe of the new session (`network.cpp:371`). `recvBuffer` glues the
  partial line of a lost connection to the first of the next. A TLS stream cut short
  is not retried (`ReadFailsForGood`). `--socks5` without `--socks_host` never
  connects, although a default is documented (`PARAMETERS.md:34`).
- *GPU resolvers.* A new header is uploaded while a batch runs. AMD ProgPOW leaves
  the DAG kernel in the generator its search is launched from; that is harmless
  only because every `EPOCH_LENGTH` is a multiple of `MAX_PERIOD` and no first job
  has the period 11111, which are the assumptions of `GpuStreams`. Its
  kernel is built, with `TOTAL_THREADS` as the stride, before the occupancy is overridden
  (`amd/progpow.cpp:148-161`), and a group with fewer blocks than `GROUP_SIZE` leaves words
  of its copy of the DAG unwritten (`progpow.cl:102`). The
  search kernels of ProgPOW add up their strides, and the OpenCL one reports other
  nonces than it hashed, when `--internal_loop` is above 1; with that option the CPU
  resolver skips nonces (`device.cpp:343`, `NoNonceSkipped` with `InternalLoop = 2`).
  ProgPOW shares name the header the stratum holds by then (`stratum/progpow.cpp:244`).
- *Light cache.* AMD etchash uses the entry of ethash, NVIDIA etchash its own.
  NVIDIA ProgPOW never frees a context built on the GPU, an update that fails leaks
  its count, and a light cache overwritten by one of another epoch is leaked.
- *Configuration.* `--cpu` is documented as off by default (`PARAMETERS.md:29`) and
  on. The help text names `--stratum=proxy`, the code compares with `ethproxy` and
  silently takes version 1. `gpuSingleAllocPercent` is read when only the maximum
  was given (`config.cpp:151`).
- *Start-up.* The first connection that fails ends `main` while the threads of the
  devices run, and later pools are never tried (`device_manager.cpp:549`). The pool
  of a vendor takes its algorithm from the vendor's settings and its address from
  the common ones. Uuids start again at 100 (`device_manager.cpp:773`): with more
  strata `MinesItsPool` fails, with as many it is proved (`EnoughUuids`).

## Fairness

Threads that can run do: weak fairness of each worker, of each device's thread and
of the network thread inside a handler. Nothing makes a pool send a job, a device
find a share, or a link fail or recover.

- `DeviceSync`: the network thread finishes a dispatch it began; updates succeed or
  stop the device.
- `TCPClient`: a write ends (the kernel completes or aborts it), and a strand runs
  its handlers in the order they were posted, so none is passed over for ever:
  strong fairness of `StartWrite`, `OnSend` and the read's failure, each of which is
  disabled only while another handler owns the strand. No fairness makes a
  connection attempt succeed.
- `StratumSession`: a pool answers what it is asked, and once it has accepted the
  authorization sends the extranonce and the target and goes on to new jobs
  (strong fairness of a notify for each job that is not the one in `jobInfo`: a
  pool that never moves on is the case of `NonceIsApplied`). A line that a stale
  buffer swallowed is followed by another. A device takes what it is handed, which
  is `CatchesUp` of `DeviceSync`. Links may fail and stay down.
- `GpuStreams`: the thread goes on and a kernel ends. Both are part of `Spec`.
- `CpuThreadPool`: the caller waits for what it dispatched, as every caller in the
  code does; workers get the processor.
- `SmartMining`: the manager goes on with a switch, each thread runs. The pool need not
  send anything, and may switch at any time.
- `WritePump`: a payload handed to `transmit` is completed, which `tcp_client`
  establishes for its owner (`OneCompletionOwed`, `CompletionArrives`).

`LightCache`, `SharePath`, `ProgpowKernel`, `StartUp` and `CpuBlake3` have safety
properties only and assume none. `ReleasedWhenQuiet` needs none either: it speaks
of the states in which every device is done.

## Proofs

Proved for every value of the constants, from the assumptions the modules name.

**DeviceProofs: the hand-off** (any set of devices, epochs and headers, any number of jobs).
The four safety invariants of the hand-off and its type invariant. None of the
four is inductive: each speaks of a worker in its loop, and what makes it true
there happened while the worker was inside `updateJob`. `IInv` follows one field at
a time. A field of `nextjobInfo` is written before its counter is raised, and a
counter is read (`snap`) before the field is copied; so a counter that still has
the snapshot's value, with no write unannounced, means the copy is current
(`EpochCurrent`, `HeaderCurrent`, `SliceCurrent`, `JobCurrent`), and one that has
not is above the snapshot (`CountersOrdered`), so that storing the snapshot leaves
it pending. `NextIsJob` says how far the dispatch has come, `DispatchRaises` that
it raises a counter at all. Theorems: `TypeCorrect`, `JobNeverLost`,
`StaleDagIsTransient`, `StaleHeaderIsTransient`, `ForeignSliceIsTransient`.

**DeviceProofs: start-up** (any number of GPUs and of uuids with `EnoughUuids`: at
most `MaxStratums` devices, 100 in the code, and ids below `DEVICE_MAX_ID`). The
configuration enters through two lemmas about `Loads`. `NoVendorPool`: a getter
throws when its option is registered with another type, `amd_host` and `nvidia_host`
are (`RegisteredAsFlag`, `ReadAsText`), so what is loaded never names the pool of a
vendor, and `initialize`, which takes the algorithm from the vendor and the address
from the common pool, is never seen to disagree with itself. `LoadedIsAccepted`: a
configuration that passes `isValidConfig` has a complete common pool. Nothing else is
used of the command line, so the theorems do not depend on the ones listed for TLC.
`StartInv` then follows `initialize`: devices are attached in their order (`InOrder`),
each adds at most one stratum, so while a device is not attached the next uuid is at
most its id and above every uuid given (`UuidsDistinct`). The counter can only start
again with the last device, when no stratum follows. A uuid hence names one stratum,
and `onUpdateJob` reaches the devices of the stratum a job came by
(`JobsOfItsStratum`). Theorems: `StartInductive`, `EveryDeviceSpeaksForItsPool`,
`EveryDeviceMinesItsPool`. Without the branch for `DEVICE_MAX_ID` in
`initializeStratum` (`device_manager.cpp:252`) settings for a device 1000000 would
become those of the common pool; the proof needs it.

**NetworkProofs: the pump** (any threads, payloads and queue bound). The inductive
invariant is the conjunction of the type invariant and the four safety
invariants of the module: one payload in flight depends on who may transmit
(`InFlightHasOwner`, `IdleIffEmpty`), and the refinement on what is transmitted
(`InFlightIsHead`). Theorems: `OneInFlight`, `NeverQuietWithWork`,
`PumpImplementsSerialWriter`.

**NetworkProofs: the client** (any devices, sessions, retries, queue bound and
configurations). A step of the client is an enqueue, a transmit or a completion of the pump, or leaves
it alone (`Pumped`), so the pump's invariant holds inside it. `ClientInv` adds `OneCompletionOwed` itself, where the strand may be
for each state of the link (`Places`), that what is up went through the calls of
`connect` in order (`SetUpInOrder`), that a write in progress is on the socket in
use while the strand is not in `connect` (`WriteOnSocket`), and that the attempts of
an outage are the retries counted (`RetriesCounted`). Theorems: `TypeCorrect`,
`CompletionsAreOwedOnce`, `WritesFindTheirSocket`, `WritesGoToThePool`,
`OutagesGetAllRetries`, and `ClientImplementsSerialWriter`, which follows from `Pumped` and
the pump's refinement.

**NetworkProofs: the session** (any devices, jobs, extranonces and targets, the seven
dialects). `WorkIsWhole` speaks of the devices' work, which is a copy of the
accepted job, so `SessionInv` says the same of that one. It says nothing of `jobInfo`,
which may be torn at any time: what makes the theorem true is that only a notify read
to its end reaches `updateJob` (`HandlersAreComplete`: the field groups of every
dialect cover id and header). Theorems: `SessionInductive`, `SessionTypeCorrect`,
`WorkAlwaysWhole`.

**CpuProofs: the pool** (any finite set of at least two workers, any batch sizes
and grains). `IInv` says that what was claimed is what lies below the cursor:
every index below it is hashed or in the hands of one worker, and a worker that is
done with the batch saw the cursor at its end. `RemainingCounts` ties the
mutex-protected counter to the workers that may still touch the cursor; with it,
`remaining = 0` means the whole batch was scanned (`NobodyRemains`), which is what
`wait` returns on and what lets the next `runAsync` reset the cursor. Theorems:
`TypeCorrect`, `CurrentBatchOnly`, `CountIsExact`, `NoIndexTwice`, `NoLostDone`,
`WaitReturnsWhenDone`, `PoolImplementsParallelFor`.

**CpuProofs: the resolver** (any batch size, jobs and room for results). `BlakeInv` says,
for each place of the device's thread, which buffer is in use (`Phases`, `InOrder`), that
what was hashed lies below the next batch or is in the one in flight, of which exactly
the pending indices are missing (`Scanned`), and where the winners are (`Winners`).
`NoCandidateTwice` and `BatchStaysInPlace` are action properties that follow from it.
`NoGapInTheNonces` needs one internal loop (`Covered`), as the code does.
Theorems: `BlakeTypeCorrect`, `WinnersAccounted`, `NoGapInTheNonces`, `BatchStaysInPlace`,
`NoCandidateTwice`.

**SmartMiningProofs** (any devices, algorithms, epochs, number of switches and jobs, and a
pool that may switch at any moment). Three invariants. `ThreadInv` is about the threads of a
device that is not in `early`: only the one of the last switch is there, or, while the
devices are being stopped, the one of the switch before, in its loop (`OneThreadLives`). A
device enters `early` when the switch kills it with a thread at rest, which is the one way
for a thread to survive its successor. For the others a device computes exactly when a
thread is in its loop (`ComputingIsLooping`, `LoopingIsComputing`), so a device the manager no
longer waits for has none, and the resolver may be deleted. `JobInv` follows an algorithm
from the message to the share: stratum, resolver, announced job, batch and job taken agree
between two switches, and during one each is on the old side or the new (`ResolversFollow`,
`JobsFollow`, `WorkFollows`), or the algorithm is one of `Unsupported`. `MemoryInv` has the
memory for a job that has an epoch built, announced by the counter or in the hands of the
thread; that the first job after a switch announces it rests on `JobsFollow`, which has
`jobInfos` cleared by `run`. Theorems: `SwitchesInductive`,
`TypeCorrect`, `NoDeletedResolverIsCalled`, `OneThreadWorks`, `ResolversGetTheirJobs`,
`SharesGoToTheirPool`, `MemoryComesFirst`.

**LightCacheProofs** (any finite set of devices, any families and epochs; fewer
updates than the count has values, `MaxUpdates < CountModulus`). The count is at
least the number of devices that hold the context (`CountCoversHolders`) and at most
the number of updates (`CountBound`), so it neither reaches zero under one nor wraps;
a context with an epoch points to an allocated array of that epoch (`SharedLive`),
and so does the copy of a device from `build` to the end of its upload (`CacheLive`).
Resolvers that free twice are excluded by the hypothesis `Balanced`, as in the
property. For the end, `QuietInv` has the count exact: while no update failed and no
devices asked for different epochs at a time (`Orderly`, as in the property), it is the
number of holders, and what is allocated is the one array they share. Theorems:
`Inductive`, `TypeCorrect`, `UploadsAreSafe`, `CountIsEnough`, `LightCacheIsReleased`.

**GpuStreamsProofs** (any of the ten resolvers, any blocks, lengths and bounds such
that another epoch is another period and no period is the initial one). `LaunchFits`
is about one step, and follows from what is known where the thread loops: header,
DAG and kernel are those of the live job (`UpToDate`). To keep that, `IInv` carries what
is still due at the two steps that take a job over: at `updateMemory` a ProgPOW
kernel that does not fit has another period (`MemoryDue`), and at `updateConstants` the
DAG is right already (`ConstantsDue`). `WinnersInv` then follows each nonce found: the
buffers and `resultShare` are disjoint but between the two halves of a harvest
(`BuffersApart`, `ShareHeld`), the batch that runs is the last one and on the stream the
thread is not harvesting (`Running`), and the buffer of the next batch is empty
when it is launched (`Buffered`). Where AMD ProgPOW has one buffer for both streams, a
winner found during the harvest is in the buffer being harvested: `Buffered` and
`ShareHeld` make the exception the code makes (`Races`). Theorems: `Inductive`,
`TypeCorrect`, `StreamsAlternate` (two batches never run at once), `BatchesFit`,
`WinnersAccounted`, `SharesAreRecent`, `LossesAreKnown`.

**SharePathProofs** (any base, width, extranonces, number of devices, occupancies and
internal loop). `DistinctNonces` needs no induction over behaviours but arithmetic:
slices of different devices do not meet (`DevicesDistinct`), which holds for every resolver,
and where the numbers of the threads and the strides stay below the end of a batch
(`TriesInBatch`) batches of one device do not either (`OwnBatchesDistinct`). `ShareInv` carries
it to the answers: what a device holds or has sent was found in a batch it has left behind
(`Winners`), is in one place (`Once`), and what the pool accepted reads back as what was
hashed (`Sound`); so a share is refused as a duplicate only when a device found one
nonce in two batches, which takes a kernel that leaves its batch (`Repeated`), or when two
nonces read back as the same, which leaves one of the other causes `RejectedExplained` lists.
It rests on `RangeAssumption`: the batches of a job fit into the nonce space. Without it the
theorem is false (a device that came round to its first nonce would be refused for
none of the causes), and in the code the space is that of 16 hexadecimal digits. What the
provers do not know of exponents is that powers of the base are positive naturals
(`PowerAssumption`). Theorems: `TypeCorrect`, `NoNonceTwice`, `RejectionsExplained`,
`SharesCounted`.

**ProgpowKernelProofs** (any number of registers, statements and draws). The two
writers agree because they are given the same arguments (`SameArgs`) and their tables
have the same texts (`SameText`), so equal states go to equal states. Merges spread
because destinations and sources stay permutations (`WritersSound`) and the counter
goes round them. Math has two sources because the draw is below
`regs * (regs - 1)`, which is also what every resolver passes. Theorems:
`WritersAlwaysAgree`, `WritersSound`, `TypeCorrect`, `SourcesAlwaysDiffer`,
`MergesAlwaysSpread`.

Some theorems have no run of their own, since a property that is run says more:
`ImplementsSerialWriter` of `tcp_client` subsumes `OneInFlight`;
`ImplementsParallelFor`, which counts the scans of each index, subsumes what
`NoIndexTwice` and `WaitReturnsWhenDone` say of them. `OneThreadWorks` is behind
`ResolverOutlivesCalls`, and `MergesAlwaysSpread` and `StreamsAlternate` stand for themselves.

`ClientInv`, `BlakeInv`, `ThreadInv`, `JobInv`, `MemoryInv`, `WinnersInv`, `ShareInv` and `StartInv` were checked
by TLC on the instance of their module's run before they were proved; that is how
the need for `RangeAssumption` and for the case of the shared buffer was found.

## What is only model-checked

- All liveness, since fairness and ENABLED are outside the prover's fragment:
  `CatchesUp`, `BatchEnds`, `PoolIsJoined`, `Reconnects`, `CompletionArrives`, `AwaitEnds`,
  `WorkFitsSession`, `WinnersLeave`.
- `CountsAsPrescribed` of `ProgpowKernel` (the writers emit as many statements of each sort
  as the parameters say) holds, and no run lists it.

## What is not modelled

- What a hash or a DAG kernel computes, in C++, CUDA or OpenCL: numerical code
  whose only reference would be itself. Of ProgPOW the composition of the random
  program is modelled, of the others how nonces are walked.
- The vendored AMD ADL headers and the profilers around them, which only read
  temperatures and clocks.
- The occupancy computation of the GPUs and the properties of the hardware.
- Statistics and dashboards: displays of counters, read without a lock while the
  devices count. `SharePath` models the counts.
- The answers of the API and the web page, which read; the log; the benchmark; the
  kernel generator apart from which kernel it holds.
- The serial CPU resolvers (progpow and kawpow, which no device is given), `executeSync`, and the
  mocker, which is not in the build of the miner.
- `NetworkTCPClient::shutdown` and the asynchronous variant of the SOCKS5 client,
  which nothing calls; the bytes of TLS and SOCKS5 messages.
- sha256 sessions, and what `set_extranonce` of autolykos would do: it logs.

## Plan

Done: every module above, and a theorem for every safety invariant a run checks. What
would come next, in this order:

1. `ReadsBack` as a lemma per way of writing a nonce: for all nonces when it is padded,
   and the exact set of extranonces for which it fails when it is not.
2. That the hand-off of `DeviceSync` implements the single step `SmartMining`,
   `StratumSession` and `SharePath` take for it, so far a matter of reading.
3. Reconnection of the smart mining session, composing `SmartMining` with the part of
   `TCPClient` that replaces the socket.
4. Two strata on one set of devices in `DeviceSync`, as `StartUp` may build them, and
   the sha256 dialect.
