----------------------------- MODULE SharePath -----------------------------
(***************************************************************************)
(* The way of a nonce: from the extranonce of the pool to the share that   *)
(* is counted.                                                             *)
(*                                                                         *)
(* The stratum makes the first nonce and the gap out of the extranonce, a  *)
(* string of hexadecimal digits. The device manager gives each device a    *)
(* slice of the nonces, the device walks it in batches, and the search     *)
(* kernel of its resolver spreads a batch over threads and an internal     *)
(* loop. A nonce that is found is written in hexadecimal, sent under a     *)
(* request id made of the device's id, and the answer is credited by it.   *)
(* The pool, which is external, reads the nonce back.                      *)
(*                                                                         *)
(* Digits are of a base of the instance instead of 16, and a nonce has     *)
(* Width of them instead of 16. A job is its number; its id and its header *)
(* are one. How a job reaches a device is the subject of DeviceSync: here  *)
(* the last one is simply there.                                           *)
(***************************************************************************)
EXTENDS Naturals, Sequences, FiniteSets

CONSTANTS
  DeviceCount, \* devices.size()
  Kinds,       \* the resolvers, with the stratum type when submit() asks for it
  Base, Width, \* 16 and 16 in the code
  Sizes, Values, \* digits and values of the extranonces the pool may give
  Occupancies, \* getBlocks(), getThreads(), and their product when the kernel was built
  GroupSize,   \* getMaxGroupSize(): what --blocks of an AMD device may not exceed
  Loops,       \* values of --internal_loop
  Offsets,     \* bound: how far from the first nonce the one that wins may be
  MaxJobs,     \* bound: jobs in a behaviour
  MaxBatches,  \* bound: batches of a device for one job
  MaxShares    \* bound: shares sent

Resolvers == {"AmdEthash", "NvidiaEthash", "AmdAutolykosV2", "NvidiaAutolykosV2",
              "AmdProgPOW V1", "AmdProgPOW V2", "NvidiaProgPOW V1", "NvidiaProgPOW V2",
              "AmdKHeavyHash", "NvidiaKHeavyHash", "AmdBlake3", "NvidiaBlake3",
              "AmdBlake3 smart", "NvidiaBlake3 smart"}

ASSUME KindsAssumption == Kinds \subseteq Resolvers
ASSUME SizesAssumption ==
  /\ DeviceCount \in Nat \ {0} /\ Loops \subseteq Nat \ {0}
  /\ Base \in Nat \ {0, 1} /\ Width \in Nat \ {0}
  /\ Offsets \subseteq Nat /\ MaxJobs \in Nat /\ MaxBatches \in Nat /\ MaxShares \in Nat
\* ResolverAmd::overrideOccupancy refuses more blocks than a group has threads.
ASSUME OccupancyAssumption ==
  /\ GroupSize \in Nat \ {0}
  /\ Occupancies \subseteq [blocks : 1..GroupSize, threads : Nat \ {0}, built : Nat \ {0}]
\* No device comes round to the nonces it began a job with: there are 16^16 of them.
ASSUME RangeAssumption ==
  \A o \in Occupancies, l \in Loops : MaxBatches * ((o.blocks * o.threads) * l) <= Base^Width
\* What the provers do not know of exponents.
ASSUME PowerAssumption == \A k \in 0..Width : Base^k \in Nat \ {0}
ASSUME ExtraNoncesAssumption == Sizes \subseteq 1..Width /\ Values \subseteq Nat

VARIABLES
  kind, loop,    \* the class of the devices' resolvers, and config.occupancy.internalLoop
  occupancy,     \* the blocks and threads of a launch
  jobs,          \* the jobs of the pool: the extranonce and the nonce that meets the target
  next,          \* the last job handed to the devices
  cur,           \* cur[d] = currentJobInfo: the job, and the number of batches before this one
  flight,        \* flight[d]: what the batch that runs on the other stream has found
  result,        \* result[d] = resultShare
  replies,       \* answers of the pool on their way
  stats,         \* stats[d] = ShareInfo
  aborted,       \* a string operation threw on a device thread
  accepted, rejected \* history: the shares the pool judged

device == <<cur, flight, result>>
pool == <<replies, stats, accepted, rejected>>
vars == <<kind, loop, occupancy, jobs, next, device, pool, aborted>>

Devices == 0..(DeviceCount - 1)
Space == Base^Width
ExtraNonces == {e \in [size : Sizes, value : Values] : e.value < Base^e.size}

-----------------------------------------------------------------------------
(***************************************************************************)
(* The slices.                                                             *)
(***************************************************************************)

\* Stratum::setExtraNonce: the nonces that begin with the extranonce.
Room(e) == Base^(Width - e.size)
StartNonce(e) == e.value * Room(e)
GapNonce(e) == Room(e) - 1

\* DeviceManager::onUpdateJob divides the gap.
Gap(e) == GapNonce(e) \div DeviceCount

\* Mutant: the device's id is left out.
FirstNonceOfAll(e, d) == StartNonce(e)

\* Device::update
FirstNonce(e, d) == StartNonce(e) + Gap(e) * d

\* Stratum::isValidJob, which takes a first nonce of zero for none.
IsValidJob(e) == StartNonce(e) # 0

\* The threads of a launch.
Lanes == occupancy.blocks * occupancy.threads

\* Device::updateBatchNonce
BatchNonce == Lanes * loop

-----------------------------------------------------------------------------
(***************************************************************************)
(* The resolvers.                                                          *)
(*   async:  the nonces of a batch are harvested after the next launch     *)
(*   walk:   how the search kernel uses the internal loop: not at all      *)
(*           ("flat"), by equal strides ("stride"), by strides that add up *)
(*           ("sum"), or by strides that add up, with the hash of the      *)
(*           first nonce ("sum of one hash")                               *)
(*   group:  the kernel numbers its threads by groups of GroupSize, however  *)
(*           many of them a group has                                      *)
(*   write:  the nonce with leading zeros ("padded") or without ("plain"), *)
(*           whole or without the digits of the extranonce                 *)
(*   header: the share names the header that the stratum holds by then     *)
(***************************************************************************)
Plain == [async |-> FALSE, walk |-> "flat", group |-> FALSE, write |-> "plain suffix",
          header |-> FALSE]

AmdEthash == [Plain EXCEPT !.group = TRUE]
AmdAutolykosV2 == Plain
NvidiaAutolykosV2 == Plain
NvidiaEthash == [Plain EXCEPT !.async = TRUE, !.walk = "stride"]
AmdProgPOW(v) ==
  [async |-> TRUE, walk |-> "sum of one hash", group |-> TRUE,
   write |-> IF v = 1 THEN "padded" ELSE "plain suffix", header |-> v = 1]
NvidiaProgPOW(v) ==
  [async |-> TRUE, walk |-> "sum", group |-> FALSE,
   write |-> IF v = 1 THEN "padded" ELSE "plain suffix", header |-> v = 1]
AmdKHeavyHash == [Plain EXCEPT !.write = "plain"]
NvidiaKHeavyHash == [Plain EXCEPT !.async = TRUE, !.write = "plain"]
AmdBlake3(smart) == [Plain EXCEPT !.write = IF smart THEN "padded suffix" ELSE "padded"]
NvidiaBlake3(smart) == [AmdBlake3(smart) EXCEPT !.async = TRUE]

Class == [k \in Resolvers |->
         CASE k = "AmdEthash" -> AmdEthash
           [] k = "NvidiaEthash" -> NvidiaEthash
           [] k = "AmdAutolykosV2" -> AmdAutolykosV2
           [] k = "NvidiaAutolykosV2" -> NvidiaAutolykosV2
           [] k = "AmdProgPOW V1" -> AmdProgPOW(1)
           [] k = "AmdProgPOW V2" -> AmdProgPOW(2)
           [] k = "NvidiaProgPOW V1" -> NvidiaProgPOW(1)
           [] k = "NvidiaProgPOW V2" -> NvidiaProgPOW(2)
           [] k = "AmdKHeavyHash" -> AmdKHeavyHash
           [] k = "NvidiaKHeavyHash" -> NvidiaKHeavyHash
           [] k = "AmdBlake3" -> AmdBlake3(FALSE)
           [] k = "AmdBlake3 smart" -> AmdBlake3(TRUE)
           [] k = "NvidiaBlake3" -> NvidiaBlake3(FALSE)
           [] k = "NvidiaBlake3 smart" -> NvidiaBlake3(TRUE)]
Resolver == Class[kind]

\* The kernels: the numbers of their threads, and what a thread does in a turn of the
\* internal loop: the nonce it reports and the one it has hashed, counted from the first
\* nonce of the batch. The kernel of AMD ProgPOW is built before the occupancy is set.
ThreadIds ==
  IF Resolver.group
  THEN {b + t * GroupSize : b \in 0..(occupancy.blocks - 1), t \in 0..(occupancy.threads - 1)}
  ELSE 0..(Lanes - 1)
Turns == IF Resolver.walk = "flat" THEN {0} ELSE 0..(loop - 1)
Stride(i) == IF Resolver.walk = "stride" THEN i ELSE (i * (i + 1)) \div 2
Try(t, i) ==
  IF Resolver.walk = "sum of one hash"
  THEN [nonce |-> t + Stride(i) * occupancy.built, hashed |-> t]
  ELSE [nonce |-> t + Stride(i) * Lanes, hashed |-> t + Stride(i) * Lanes]
Tries == {Try(t, i) : t \in ThreadIds, i \in Turns}

\* The groups are smaller than the numbers of their threads allow for. Those of AMD
\* ProgPOW then fill a part of their copy of the DAG's first words, and hash with the rest.
Narrow == Resolver.group /\ occupancy.blocks < GroupSize
HalfFilled == Narrow /\ Resolver.walk = "sum of one hash"

-----------------------------------------------------------------------------
(***************************************************************************)
(* The text of a nonce: how many digits it has, and their value.           *)
(***************************************************************************)

\* std::hex, without a width
Digits(n) == CHOOSE k \in 1..Width : n < Base^k /\ (k > 1 => n >= Base^(k - 1))
PlainText(n) == [digits |-> Digits(n), value |-> n]

\* std::setw(16) << std::setfill('0')
PaddedText(n) == [digits |-> Width, value |-> n]

\* substr(size) of a text that is long enough
Suffix(t, size) == [digits |-> t.digits - size, value |-> t.value % Base^(t.digits - size)]

\* Mutant: no nonce is filled.
WrittenPlain(n) == PlainText(n)

Written(n) == IF Resolver.write \in {"plain", "plain suffix"} THEN PlainText(n) ELSE PaddedText(n)

CutsExtraNonce == Resolver.write \in {"plain suffix", "padded suffix"}

\* The nonce of Resolver::submit, when substr does not throw.
Text(n, size) == IF CutsExtraNonce THEN Suffix(Written(n), size) ELSE Written(n)

\* substr(size) of a shorter text: std::out_of_range, which nobody catches.
Throws(n, size) == CutsExtraNonce /\ Written(n).digits < size

\* The pool puts the extranonce it gave before a suffix. A suffix of another length
\* makes no nonce.
NoNonce == Space
ReadBack(t, e) ==
  IF ~CutsExtraNonce THEN t.value
  ELSE IF t.digits = Width - e.size THEN StartNonce(e) + t.value ELSE NoNonce

-----------------------------------------------------------------------------
NoResult == [label |-> 0, found |-> {}]

Init ==
  /\ kind \in Kinds /\ loop \in Loops /\ occupancy \in Occupancies
  /\ jobs = <<>> /\ next = 0
  /\ cur = [d \in Devices |-> [job |-> 0, batch |-> 0]]
  /\ flight = [d \in Devices |-> {}] /\ result = [d \in Devices |-> NoResult]
  /\ replies = <<>>
  /\ stats = [d \in Devices |-> [total |-> 0, valid |-> 0, invalid |-> 0]]
  /\ aborted = FALSE
  /\ accepted = {} /\ rejected = {}

\* A job of the pool, under the extranonce it gave: updateJob, onUpdateJob and update.
NewJob(e, g) ==
  /\ ~aborted /\ Len(jobs) < MaxJobs
  /\ jobs' = Append(jobs, [extra |-> e, golden |-> g])
  /\ next' = IF IsValidJob(e) THEN Len(jobs') ELSE next
  /\ UNCHANGED <<kind, loop, occupancy, device, pool, aborted>>

Submits(d) == result[d].found # {}

\* Device::updateJob
TakeJob(d) ==
  /\ ~aborted /\ ~Submits(d) /\ next # cur[d].job
  /\ cur' = [cur EXCEPT ![d] = [job |-> next, batch |-> 0]]
  /\ UNCHANGED <<kind, loop, occupancy, jobs, next, flight, result, pool, aborted>>

Extra(j) == jobs[j].extra

\* What the batch reports for some of its tries, and what it finds: the nonces for whose
\* hash the target is met.
Reports(d, T) ==
  LET base == FirstNonce(Extra(cur[d].job), d) + cur[d].batch * BatchNonce
  IN  {[nonce |-> (base + x.nonce) % Space, hashed |-> (base + x.hashed) % Space,
        job |-> cur[d].job, batch |-> cur[d].batch] : x \in T}
Finds(d) == {w \in Reports(d, Tries) : w.hashed = jobs[cur[d].job].golden}

\* With memory that nobody wrote the batch may miss the nonce, or report another one for
\* the hash of a thread, in every turn. Bounds: this happens in a first batch of the first
\* device, to its first thread, and at most one such report is held or rejected.
Astray(d) == {[w EXCEPT !.hashed = NoNonce] : w \in Reports(d, {Try(0, i) : i \in Turns})}
MayStray(d) ==
  /\ HalfFilled /\ d = 0 /\ cur[d].batch = 0
  /\ \A w \in flight[d] \cup result[d].found : w.hashed # NoNonce
  /\ \A s \in rejected : s.win.hashed # NoNonce
Outcomes(d) == {Finds(d)} \cup (IF MayStray(d) THEN {{}, Astray(d)} ELSE {})

\* One turn of loopDoWork up to submit: resultShare takes what this batch found, or the
\* batch before it, under the job and the extranonce size of the live job. The next
\* batch begins where this one ends.
Execute(d) ==
  /\ ~aborted /\ ~Submits(d) /\ next = cur[d].job /\ next # 0
  /\ cur[d].batch < MaxBatches
  /\ \E finds \in Outcomes(d) :
       /\ flight' = IF Resolver.async THEN [flight EXCEPT ![d] = finds] ELSE flight
       /\ result' = [result EXCEPT ![d] =
            [label |-> cur[d].job, found |-> IF Resolver.async THEN flight[d] ELSE finds]]
  /\ cur' = [cur EXCEPT ![d].batch = @ + 1]
  /\ UNCHANGED <<kind, loop, occupancy, jobs, next, pool, aborted>>

\* Mutant: the ids of the devices count from zero.
RequestIdFromZero(d) == d * 1000

\* The id of a request for a share: OVERCOM_NONCE apart.
RequestId(d) == (d + 1) * 1000

\* A pool accepts a nonce that begins with the extranonce of the job the share names,
\* meets its target with the header it names, and is new. A nonce that was not hashed
\* for that job misses the target.
InRoom(n, e) == n \in StartNonce(e)..(StartNonce(e) + GapNonce(e))
Accepts(s) ==
  LET n == ReadBack(s.text, Extra(s.label))
  IN  /\ n = s.win.hashed /\ n # NoNonce /\ s.win.job = s.label
      /\ InRoom(n, Extra(s.label)) /\ s.header = s.label
      /\ ~\E t \in accepted : t.label = s.label

\* The pool judges the shares in the order they were sent; its answers may take long.
Judge(s) ==
  /\ replies' = Append(replies, [dev |-> s.dev, request |-> s.request, valid |-> Accepts(s)])
  /\ IF Accepts(s) THEN accepted' = accepted \cup {s} /\ UNCHANGED rejected
                   ELSE rejected' = rejected \cup {s} /\ UNCHANGED accepted

\* One nonce of resultShare: Resolver::submit, then Stratum::miningSubmit, which reads
\* the header of the stratum's job.
SubmitOne(d) ==
  /\ ~aborted /\ Cardinality(accepted) + Cardinality(rejected) < MaxShares
  /\ \E w \in result[d].found :
       LET label == result[d].label
           size == Extra(label).size
       IN  IF Throws(w.nonce, size)
           THEN /\ aborted' = TRUE
                /\ UNCHANGED <<cur, flight, result, pool>>
           ELSE /\ result' = [result EXCEPT ![d].found = @ \ {w}]
                /\ Judge([dev |-> d, request |-> RequestId(d), label |-> label,
                          header |-> IF Resolver.header THEN Len(jobs) ELSE label,
                          text |-> Text(w.nonce, size), win |-> w])
                /\ UNCHANGED <<cur, flight, stats, aborted>>
  /\ UNCHANGED <<kind, loop, occupancy, jobs, next>>

\* Device::increaseShare
Counted(info, isValid) ==
  [total |-> info.total + 1,
   valid |-> IF isValid THEN info.valid + 1 ELSE info.valid,
   invalid |-> IF isValid THEN info.invalid ELSE info.invalid + 1]

\* Stratum::onShare and DeviceManager::onShareStatus: the device whose request id it is.
OnShareStatus ==
  /\ ~aborted /\ replies # <<>>
  /\ stats' = [d \in Devices |-> IF (d + 1) * 1000 = Head(replies).request
                                 THEN Counted(stats[d], Head(replies).valid) ELSE stats[d]]
  /\ replies' = Tail(replies)
  /\ UNCHANGED <<kind, loop, occupancy, jobs, next, device, accepted, rejected, aborted>>

Next ==
  \/ \E e \in ExtraNonces, k \in Offsets : NewJob(e, (StartNonce(e) + k) % Space)
  \/ \E d \in Devices : TakeJob(d) \/ Execute(d) \/ SubmitOne(d)
  \/ OnShareStatus

Spec == Init /\ [][Next]_vars

-----------------------------------------------------------------------------
(***************************************************************************)
(* Properties.                                                             *)
(***************************************************************************)

\* What a device may use up before it runs into the next one's nonces.
Quota(e) == (Room(e) - 1) \div DeviceCount
InSlice(n, e, d) == n >= StartNonce(e) + Quota(e) * d /\ n < StartNonce(e) + Quota(e) * (d + 1)

\* The nonces hashed by batch b of device d for its job, and the batches whose nonces all
\* are in the device's slice.
Tried(d, b) ==
  {FirstNonce(Extra(cur[d].job), d) + b * BatchNonce + x.hashed : x \in Tries}
Fits(d, b) ==
  LET quota == Quota(Extra(cur[d].job)) IN \A x \in Tries : b * BatchNonce + x.hashed < quota
Batches ==
  {x \in [dev : Devices, batch : 0..(MaxBatches - 1)] :
     cur[x.dev].job # 0 /\ x.batch < cur[x.dev].batch /\ Fits(x.dev, x.batch)}

\* The kernel does not leave the batch: neither by its strides nor by the numbers of its
\* threads.
StaysInBatch == (Resolver.walk = "sum" => loop <= 2) /\ ~Narrow

\* As long as the devices are in their slices all nonces they hash for a job begin with
\* the extranonce, no two devices hash the same one, and no device hashes one in two
\* batches, unless its kernel leaves the batch.
DistinctNonces ==
  LET batches == Batches
  IN  /\ \A x \in batches : \A n \in Tried(x.dev, x.batch) : InRoom(n, Extra(cur[x.dev].job))
      /\ \A x, y \in batches :
           /\ cur[x.dev].job = cur[y.dev].job
           /\ x.dev < y.dev \/ (x.dev = y.dev /\ x.batch < y.batch /\ StaysInBatch)
           => Tried(x.dev, x.batch) \cap Tried(y.dev, y.batch) = {}

HasLeadingZero(n) == Digits(n) < Width

\* The pool has the nonce from another batch of the same device.
Repeated(s) ==
  \E x \in accepted : /\ x.label = s.label /\ x.dev = s.dev
                      /\ x.win.nonce = s.win.nonce /\ x.win.batch # s.win.batch

\* A pool rejects a share only because a nonce of a batch before the live job is sent
\* under the live job, the header of the stratum has moved on, the kernel reports
\* another nonce than it hashed, it hashes with memory nobody wrote, it leaves its batch
\* and finds a nonce again, std::hex left zeros out of a nonce that is cut, or a device
\* ran past its slice. The last two alone can make substr throw.
RejectedExplained ==
  /\ \A s \in rejected :
       \/ Resolver.async /\ s.win.job # s.label
       \/ Resolver.header /\ s.header # s.label
       \/ Resolver.walk = "sum of one hash" /\ loop > 1 /\ s.win.nonce # s.win.hashed
       \/ HalfFilled /\ s.win.hashed = NoNonce
       \/ ~StaysInBatch /\ Repeated(s)
       \/ Resolver.write = "plain suffix" /\ HasLeadingZero(s.win.nonce)
       \/ \E x \in accepted \cup {s} : x.label = s.label /\ ~InSlice(x.win.nonce, Extra(x.win.job), x.dev)
  /\ aborted =>
       /\ Resolver.write = "plain suffix"
       /\ \E d \in Devices : \E w \in result[d].found :
            HasLeadingZero(w.nonce) \/ ~InSlice(w.nonce, Extra(w.job), d)

\* Every share is counted once, for the device that sent it, as the pool judged it.
CountedOnce ==
  \A d \in Devices :
    LET waiting(v) == Cardinality({i \in DOMAIN replies : replies[i].dev = d /\ replies[i].valid = v})
        sentBy(S) == Cardinality({s \in S : s.dev = d})
    IN  /\ stats[d].total = stats[d].valid + stats[d].invalid
        /\ stats[d].valid + waiting(TRUE) = sentBy(accepted)
        /\ stats[d].invalid + waiting(FALSE) = sentBy(rejected)

\* A share that is sent reads back as the nonce that was found. With an extranonce
\* that begins with a zero and a resolver that writes "plain suffix" this does not hold.
ReadsBack ==
  \A s \in accepted \cup rejected : ReadBack(s.text, Extra(s.win.job)) = s.win.nonce
=============================================================================
