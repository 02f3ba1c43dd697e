-------------------------- MODULE SharePathProofs --------------------------
(***************************************************************************)
(* For any number of devices, any extranonces, any base and width, any     *)
(* size of a batch and any number of jobs: while the devices are in their  *)
(* slices no two of them hash the same nonce of a job, and one hashes it   *)
(* in one batch unless its kernel leaves the batch; every share the pool   *)
(* refuses has a known reason, and every answer is counted once, for the   *)
(* device that sent the share.                                             *)
(***************************************************************************)
EXTENDS SharePath, FiniteSetTheorems, WellFoundedInduction, TLAPS

\* The configuration, the jobs of the pool, and the place of each device in one of them.
Types ==
  /\ kind \in Kinds /\ loop \in Loops /\ occupancy \in Occupancies
  /\ jobs \in Seq([extra : ExtraNonces, golden : Nat])
  /\ next \in 0..Len(jobs)
  /\ cur \in [Devices -> [job : Nat, batch : Nat]]
  /\ \A d \in Devices : cur[d].job <= Len(jobs)

-----------------------------------------------------------------------------
(***************************************************************************)
(* Arithmetic.                                                             *)
(***************************************************************************)

\* What precedes a multiple ends before the next one begins.
LEMMA Multiples ==
  ASSUME NEW q \in Nat, NEW a \in Nat, NEW b \in Nat, a < b
  PROVE  q * (a + 1) <= q * b
<1>1. PICK k \in Nat : b = a + 1 + k
  <2>1. b - (a + 1) \in Nat /\ b = a + 1 + (b - (a + 1))
    OBVIOUS
  <2> QED
    BY <2>1
<1>2. q * (a + 1 + k) = q * (a + 1) + q * k
  OBVIOUS
<1>3. q * k \in Nat
  OBVIOUS
<1> QED
  BY <1>1, <1>2, <1>3

\* Equal parts fit into the whole.
LEMMA PartsFit ==
  ASSUME NEW r \in Nat, NEW n \in Nat \ {0}
  PROVE  r \div n \in Nat /\ (r \div n) * n <= r
  OBVIOUS

\* The sizes of the instance.
LEMMA Sized ==
  /\ DeviceCount \in Nat \ {0}
  /\ \A l \in Loops : l \in Nat \ {0}
  BY SizesAssumption

LEMMA Occupied ==
  ASSUME occupancy \in Occupancies
  PROVE  /\ Lanes \in Nat \ {0} /\ occupancy.blocks \in Nat \ {0}
         /\ occupancy.threads \in Nat \ {0} /\ occupancy.built \in Nat \ {0}
         /\ GroupSize \in Nat \ {0} /\ occupancy.blocks <= GroupSize
<1>1. /\ occupancy.blocks \in Nat \ {0} /\ occupancy.threads \in Nat \ {0}
      /\ occupancy.built \in Nat \ {0} /\ GroupSize \in Nat \ {0}
      /\ occupancy.blocks <= GroupSize
  BY OccupancyAssumption
<1> DEFINE b == occupancy.blocks
           t == occupancy.threads
<1>2. b \in Nat \ {0} /\ t \in Nat \ {0}
  BY <1>1
<1> HIDE DEF b, t
<1>3. b * t \in Nat \ {0}
  <2>1. b * (0 + 1) <= b * t
    BY <1>2, Multiples
  <2> QED
    BY <1>2, <2>1
<1> QED
  BY <1>1, <1>3 DEF Lanes, b, t

\* The numbers made of an extranonce.
LEMMA RoomType ==
  ASSUME NEW e \in ExtraNonces
  PROVE  /\ Room(e) \in Nat \ {0} /\ StartNonce(e) \in Nat
         /\ GapNonce(e) \in Nat /\ Gap(e) \in Nat /\ Quota(e) = Gap(e)
         /\ Gap(e) * DeviceCount <= GapNonce(e)
<1>1. e.size \in 1..Width /\ e.value \in Nat
  BY ExtraNoncesAssumption DEF ExtraNonces
<1>2. Width \in Nat
  BY SizesAssumption
<1>3. Width - e.size \in 0..Width
  BY <1>1, <1>2
<1>4. Room(e) \in Nat \ {0}
  BY <1>3, PowerAssumption DEF Room
<1>5. StartNonce(e) \in Nat /\ GapNonce(e) \in Nat
  BY <1>1, <1>4 DEF StartNonce, GapNonce
<1>6. Gap(e) \in Nat /\ Gap(e) * DeviceCount <= GapNonce(e)
  BY <1>5, Sized, PartsFit DEF Gap
<1>7. Quota(e) = Gap(e)
  BY DEF Quota, Gap, GapNonce
<1> QED
  BY <1>4, <1>5, <1>6, <1>7

\* The first nonce of a device, the end of its slice, and the beginning of the next.
LEMMA SlicesInOrder ==
  ASSUME NEW e \in ExtraNonces, NEW d \in Devices
  PROVE  /\ FirstNonce(e, d) \in Nat /\ FirstNonce(e, d) >= StartNonce(e)
         /\ FirstNonce(e, d) + Quota(e) <= StartNonce(e) + GapNonce(e)
         /\ \A f \in Devices : d < f => FirstNonce(e, d) + Quota(e) <= FirstNonce(e, f)
<1>1. d \in Nat /\ d < DeviceCount /\ DeviceCount \in Nat
  BY Sized DEF Devices
<1>2. /\ StartNonce(e) \in Nat /\ Gap(e) \in Nat /\ Quota(e) = Gap(e) /\ GapNonce(e) \in Nat
      /\ Gap(e) * DeviceCount <= GapNonce(e)
  BY RoomType
<1>3. Gap(e) * d \in Nat /\ Gap(e) * (d + 1) = Gap(e) * d + Gap(e)
  BY <1>1, <1>2
<1>4. Gap(e) * (d + 1) <= Gap(e) * DeviceCount
  BY <1>1, <1>2, Multiples
<1>5. Gap(e) * DeviceCount \in Nat
  BY <1>1, <1>2
<1>6. FirstNonce(e, d) + Quota(e) <= StartNonce(e) + GapNonce(e)
  BY <1>2, <1>3, <1>4, <1>5 DEF FirstNonce
<1>7. ASSUME NEW f \in Devices, d < f
      PROVE  FirstNonce(e, d) + Quota(e) <= FirstNonce(e, f)
  <2>1. f \in Nat
    BY Sized, <1>7 DEF Devices
  <2>2. Gap(e) * (d + 1) <= Gap(e) * f /\ Gap(e) * f \in Nat
    BY <1>1, <1>2, <1>7, <2>1, Multiples
  <2> QED
    BY <1>2, <1>3, <2>2 DEF FirstNonce
<1> QED
  BY <1>2, <1>3, <1>6, <1>7 DEF FirstNonce

-----------------------------------------------------------------------------
(***************************************************************************)
(* The search kernels.                                                     *)
(***************************************************************************)

\* There are four ways to walk a batch.
LEMMA WalkKnown ==
  ASSUME kind \in Kinds
  PROVE  Resolver.walk \in {"flat", "stride", "sum", "sum of one hash"}
<1>1. kind \in Resolvers
  BY KindsAssumption
<1>2. CASE kind \in {"AmdEthash", "NvidiaEthash", "AmdAutolykosV2", "NvidiaAutolykosV2",
                     "AmdProgPOW V1", "AmdProgPOW V2", "NvidiaProgPOW V1", "NvidiaProgPOW V2"}
  BY <1>1, <1>2 DEF Resolver, Class, Plain, AmdEthash, NvidiaEthash, AmdAutolykosV2, NvidiaAutolykosV2,
              AmdProgPOW, NvidiaProgPOW
<1>3. CASE kind \in {"AmdKHeavyHash", "NvidiaKHeavyHash", "AmdBlake3", "NvidiaBlake3",
                     "AmdBlake3 smart", "NvidiaBlake3 smart"}
  BY <1>1, <1>3 DEF Resolver, Class, Plain, AmdKHeavyHash, NvidiaKHeavyHash, AmdBlake3, NvidiaBlake3
<1> QED
  BY <1>1, <1>2, <1>3 DEF Resolvers

\* The first strides that add up.
LEMMA FirstStrides ==
  ASSUME Resolver.walk # "stride"
  PROVE  Stride(0) = 0 /\ Stride(1) = 1
<1>1. 0 * (0 + 1) = 0 /\ 1 * (1 + 1) = 2
  OBVIOUS
<1>2. 0 \div 2 = 0 /\ 2 \div 2 = 1
  OBVIOUS
<1>3. Stride(0) = (0 * (0 + 1)) \div 2 /\ Stride(1) = (1 * (1 + 1)) \div 2
  BY Zenon DEF Stride
<1> QED
  BY <1>1, <1>2, <1>3, Zenon

\* The strides of the internal loop are below its length: the equal ones, those that
\* add up as long as it has two turns, and the one of a kernel without turns.
LEMMA StrideInLoop ==
  ASSUME kind \in Kinds, loop \in Loops, NEW i \in Turns, StaysInBatch,
         Resolver.walk # "sum of one hash"
  PROVE  Stride(i) \in Nat /\ Stride(i) < loop
<1>1. loop \in Nat \ {0}
  BY Sized
<1>2. CASE Resolver.walk = "stride"
  BY <1>1, <1>2 DEF Turns, Stride
<1>3. CASE Resolver.walk = "flat"
  <2>1. i = 0
    BY <1>3 DEF Turns
  <2> QED
    BY <1>1, <1>3, <2>1, FirstStrides
<1>4. CASE Resolver.walk = "sum"
  <2>1. i = 0 \/ (i = 1 /\ loop = 2)
    BY <1>1, <1>4 DEF Turns, StaysInBatch
  <2> QED
    BY <1>1, <1>4, <2>1, FirstStrides
<1>5. Resolver.walk \in {"flat", "stride", "sum", "sum of one hash"}
  BY WalkKnown
<1> QED
  BY <1>2, <1>3, <1>4, <1>5

\* A launch has Lanes threads, numbered from zero without a gap unless its groups are
\* smaller than the numbers allow for.
LEMMA ThreadType ==
  ASSUME occupancy \in Occupancies, NEW n \in ThreadIds
  PROVE  n \in Nat /\ (~Narrow => n < Lanes)
<1>1. CASE ~Resolver.group
  <2>1. n \in 0..(Lanes - 1)
    BY <1>1 DEF ThreadIds
  <2> QED
    BY <2>1, Occupied
<1>2. CASE Resolver.group
  <2>1. PICK b \in 0..(occupancy.blocks - 1), t \in 0..(occupancy.threads - 1) :
           n = b + t * GroupSize
    BY <1>2 DEF ThreadIds
  <2>2. b \in Nat /\ t \in Nat /\ GroupSize \in Nat
    BY Occupied
  <2>3. t * GroupSize \in Nat
    BY <2>2
  <2>4. n \in Nat
    BY <2>1, <2>2, <2>3
  <2>5. ASSUME ~Narrow PROVE n < Lanes
    <3>1. occupancy.blocks = GroupSize
      BY <1>2, <2>5, Occupied DEF Narrow
    <3>2. GroupSize * (t + 1) <= GroupSize * occupancy.threads
      BY <2>2, Occupied, Multiples
    <3>3. GroupSize * (t + 1) = t * GroupSize + GroupSize
      BY <2>2
    <3>4. b < GroupSize
      BY <3>1, Occupied
    <3>5. Lanes = GroupSize * occupancy.threads /\ Lanes \in Nat
      BY <3>1, Occupied DEF Lanes
    <3> QED
      BY <2>1, <2>2, <2>3, <3>2, <3>3, <3>4, <3>5
  <2> QED
    BY <2>4, <2>5
<1> QED
  BY <1>1, <1>2

\* The first thread has the number zero.
LEMMA FirstThread ==
  ASSUME occupancy \in Occupancies
  PROVE  0 \in ThreadIds
<1>1. CASE ~Resolver.group
  BY <1>1, Occupied DEF ThreadIds
<1>2. CASE Resolver.group
  <2>1. 0 \in 0..(occupancy.blocks - 1) /\ 0 \in 0..(occupancy.threads - 1)
    BY Occupied
  <2>2. 0 = 0 + 0 * GroupSize
    BY Occupied
  <2> QED
    BY <1>2, <2>1, <2>2 DEF ThreadIds
<1> QED
  BY <1>1, <1>2

\* The tries of a batch are numbers.
LEMMA TriesType ==
  ASSUME loop \in Loops, occupancy \in Occupancies, NEW x \in Tries
  PROVE  x.nonce \in Nat /\ x.hashed \in Nat
<1>1. PICK t \in ThreadIds, i \in Turns : x = Try(t, i)
  BY DEF Tries
<1>2. t \in Nat /\ i \in Nat /\ Lanes \in Nat /\ occupancy.built \in Nat
  BY Sized, Occupied, ThreadType DEF Turns
<1>3. Stride(i) \in Nat
  <2>1. i * (i + 1) \in Nat
    BY <1>2
  <2>2. (i * (i + 1)) \div 2 \in Nat
    BY <2>1
  <2> QED
    BY <1>2, <2>2 DEF Stride
<1>4. Stride(i) * Lanes \in Nat /\ Stride(i) * occupancy.built \in Nat
  BY <1>2, <1>3
<1>5. t + Stride(i) * Lanes \in Nat /\ t + Stride(i) * occupancy.built \in Nat
  BY <1>2, <1>4
<1> QED
  BY <1>1, <1>2, <1>5 DEF Try

\* A batch hashes nonces of its own range.
LEMMA TriesInBatch ==
  ASSUME kind \in Kinds, loop \in Loops, occupancy \in Occupancies, StaysInBatch,
         NEW x \in Tries
  PROVE  x.hashed \in Nat /\ x.hashed < BatchNonce /\ BatchNonce \in Nat
<1>1. Lanes \in Nat \ {0} /\ loop \in Nat \ {0}
  BY Sized, Occupied
<1>0. PICK t \in ThreadIds, i \in Turns : x = Try(t, i)
  BY DEF Tries
<1>2. t \in 0..(Lanes - 1) /\ x = Try(t, i)
  BY <1>0, <1>1, ThreadType DEF StaysInBatch
<1>3. BatchNonce \in Nat /\ Lanes <= BatchNonce
  <2>1. Lanes * (0 + 1) <= Lanes * loop
    BY <1>1, Multiples
  <2> QED
    BY <1>1, <2>1 DEF BatchNonce
<1>4. CASE Resolver.walk = "sum of one hash"
  <2>1. x.hashed = t
    BY <1>2, <1>4 DEF Try
  <2> QED
    BY <1>1, <1>2, <1>3, <2>1
<1>5. CASE Resolver.walk # "sum of one hash"
  <2>1. Stride(i) \in Nat /\ Stride(i) < loop
    BY <1>5, StrideInLoop
  <2>2. Lanes * (Stride(i) + 1) <= Lanes * loop
    BY <1>1, <2>1, Multiples
  <2> DEFINE s == Stride(i)
  <2>3. s * Lanes \in Nat /\ Lanes * (s + 1) = s * Lanes + Lanes
    BY <1>1, <2>1
  <2>4. x.hashed = t + s * Lanes
    BY <1>2, <1>5 DEF Try
  <2>5. Lanes * loop = BatchNonce
    BY DEF BatchNonce
  <2>6. t \in 0..(Lanes - 1)
    BY <1>2
  <2> HIDE DEF s
  <2>7. Lanes * (s + 1) <= BatchNonce
    BY <2>2, <2>5 DEF s
  <2> QED
    BY <1>1, <1>3, <2>3, <2>4, <2>6, <2>7
<1> QED
  BY <1>4, <1>5

\* The job of a device is one of the pool's.
LEMMA ExtraType ==
  ASSUME Types, NEW d \in Devices, cur[d].job # 0
  PROVE  Extra(cur[d].job) \in ExtraNonces
<1> DEFINE j == cur[d].job
<1>1. j \in Nat /\ j <= Len(jobs) /\ j # 0
  BY DEF Types
<1> DEFINE R == [extra : ExtraNonces, golden : Nat]
<1>2. jobs \in Seq(R)
  BY DEF Types
<1> HIDE DEF j, R
<1>3. j \in 1..Len(jobs)
  BY <1>1, <1>2
<1>4. jobs[j] \in R
  BY <1>2, <1>3
<1>5. jobs[j].extra \in ExtraNonces
  BY <1>4 DEF R
<1> QED
  BY <1>5 DEF Extra, j

\* So does a batch of a device that is at its job, counted from the device's first nonce.
LEMMA TriedInRange ==
  ASSUME Types, StaysInBatch, NEW d \in Devices, NEW b \in Nat, cur[d].job # 0,
         NEW n \in Tried(d, b)
  PROVE  LET f == FirstNonce(Extra(cur[d].job), d)
         IN  /\ n \in Nat /\ BatchNonce \in Nat /\ f \in Nat
             /\ f + b * BatchNonce <= n
             /\ n < f + (b + 1) * BatchNonce
<1> DEFINE f == FirstNonce(Extra(cur[d].job), d)
<1>1. Extra(cur[d].job) \in ExtraNonces
  BY ExtraType
<1>2. f \in Nat
  BY <1>1, SlicesInOrder
<1>3. PICK x \in Tries : n = f + b * BatchNonce + x.hashed
  BY DEF Tried
<1>4. x.hashed \in Nat /\ x.hashed < BatchNonce /\ BatchNonce \in Nat
  BY TriesInBatch DEF Types
<1>5. b * BatchNonce \in Nat /\ (b + 1) * BatchNonce = b * BatchNonce + BatchNonce
  BY <1>4
<1> QED
  BY <1>2, <1>3, <1>4, <1>5

\* The nonces of a batch that fits are in the slice.
LEMMA TriedInSlice ==
  ASSUME Types, NEW d \in Devices, NEW b \in Nat, cur[d].job # 0,
         Fits(d, b), NEW n \in Tried(d, b)
  PROVE  LET e == Extra(cur[d].job)
         IN  n \in Nat /\ FirstNonce(e, d) <= n /\ n < FirstNonce(e, d) + Quota(e)
<1> DEFINE e == Extra(cur[d].job)
           f == FirstNonce(e, d)
           q == Quota(e)
           k == b * BatchNonce
<1>1. e \in ExtraNonces
  BY ExtraType
<1>2. f \in Nat /\ q \in Nat
  BY <1>1, SlicesInOrder, RoomType
<1>3. PICK x \in Tries : n = f + k + x.hashed
  BY DEF Tried
<1>4. x.hashed \in Nat /\ k + x.hashed < q
  BY TriesType DEF Types, Fits
<1>5. k \in Nat
  <2>1. BatchNonce \in Nat
    BY Sized, Occupied DEF Types, BatchNonce
  <2> QED
    BY <2>1
<1> HIDE DEF f, q, k
<1>6. n \in Nat /\ f <= n /\ n < f + q
  BY <1>2, <1>3, <1>4, <1>5
<1> QED
  BY <1>6 DEF f, q

\* The batches of one device have no nonce in common.
LEMMA OwnBatchesDistinct ==
  ASSUME Types, StaysInBatch, NEW d \in Devices, NEW b \in Nat, NEW c \in Nat,
         cur[d].job # 0, b < c
  PROVE  Tried(d, b) \cap Tried(d, c) = {}
<1> DEFINE f == FirstNonce(Extra(cur[d].job), d)
<1> SUFFICES ASSUME NEW n \in Tried(d, b), n \in Tried(d, c)
             PROVE  FALSE
  OBVIOUS
<1>1. n \in Nat /\ BatchNonce \in Nat /\ f \in Nat /\ n < f + (b + 1) * BatchNonce
  BY TriedInRange
<1>2. f + c * BatchNonce <= n
  BY TriedInRange
<1>3. BatchNonce * (b + 1) <= BatchNonce * c
  BY <1>1, Multiples
<1>4. /\ BatchNonce * (b + 1) = (b + 1) * BatchNonce /\ BatchNonce * c = c * BatchNonce
      /\ (b + 1) * BatchNonce \in Nat /\ c * BatchNonce \in Nat
  BY <1>1
<1> QED
  BY <1>1, <1>2, <1>3, <1>4

\* Nor have those of two devices in their slices.
LEMMA DevicesDistinct ==
  ASSUME Types, NEW d \in Devices, NEW e \in Devices, d < e,
         NEW b \in Nat, NEW c \in Nat,
         cur[d].job # 0, cur[e].job = cur[d].job, Fits(d, b), Fits(e, c)
  PROVE  Tried(d, b) \cap Tried(e, c) = {}
<1> DEFINE x == Extra(cur[d].job)
<1> SUFFICES ASSUME NEW n \in Tried(d, b), n \in Tried(e, c)
             PROVE  FALSE
  OBVIOUS
<1>1. x \in ExtraNonces
  BY ExtraType
<1>2. n < FirstNonce(x, d) + Quota(x)
  BY TriedInSlice
<1>3. FirstNonce(x, e) <= n
  BY TriedInSlice
<1>4. FirstNonce(x, d) + Quota(x) <= FirstNonce(x, e)
  BY <1>1, SlicesInOrder
<1>5. FirstNonce(x, d) \in Nat /\ FirstNonce(x, e) \in Nat /\ Quota(x) \in Nat
  BY <1>1, SlicesInOrder, RoomType
<1>6. n \in Nat
  BY TriedInSlice
<1> QED
  BY <1>2, <1>3, <1>4, <1>5, <1>6

-----------------------------------------------------------------------------
(***************************************************************************)
(* The theorems.                                                           *)
(***************************************************************************)

\* The types imply that the nonces are distinct.
LEMMA TypesDistinct == Types => DistinctNonces
<1> SUFFICES ASSUME Types PROVE DistinctNonces
  OBVIOUS
<1>1. ASSUME NEW x \in Batches
      PROVE  x.dev \in Devices /\ x.dev \in Nat /\ x.batch \in Nat
  BY Sized, SizesAssumption DEF Batches, Devices
<1>2. ASSUME NEW x \in Batches, NEW n \in Tried(x.dev, x.batch)
      PROVE  InRoom(n, Extra(cur[x.dev].job))
  <2> DEFINE e == Extra(cur[x.dev].job)
             d == x.dev
  <2>1. e \in ExtraNonces /\ d \in Devices
    BY <1>1, <1>2, ExtraType DEF Batches
  <2>2. /\ StartNonce(e) \in Nat /\ GapNonce(e) \in Nat /\ Quota(e) \in Nat
        /\ FirstNonce(e, d) \in Nat /\ FirstNonce(e, d) >= StartNonce(e)
        /\ FirstNonce(e, d) + Quota(e) <= StartNonce(e) + GapNonce(e)
    BY <2>1, RoomType, SlicesInOrder
  <2>3. n \in Nat /\ FirstNonce(e, d) <= n /\ n < FirstNonce(e, d) + Quota(e)
    BY <1>1, <1>2, TriedInSlice DEF Batches
  <2> QED
    BY <2>2, <2>3 DEF InRoom
<1>3. ASSUME NEW x \in Batches, NEW y \in Batches, cur[x.dev].job = cur[y.dev].job, x.dev < y.dev
      PROVE  Tried(x.dev, x.batch) \cap Tried(y.dev, y.batch) = {}
  BY <1>1, <1>3, DevicesDistinct DEF Batches
<1>4. ASSUME NEW x \in Batches, NEW y \in Batches, x.dev = y.dev, x.batch < y.batch, StaysInBatch
      PROVE  Tried(x.dev, x.batch) \cap Tried(y.dev, y.batch) = {}
  <2>1. Tried(x.dev, x.batch) \cap Tried(x.dev, y.batch) = {}
    BY <1>1, <1>4, OwnBatchesDistinct DEF Batches
  <2> QED
    BY <1>4, <2>1
<1> QED
  BY <1>2, <1>3, <1>4 DEF DistinctNonces

\* Every step keeps the types: a new job leaves the earlier ones in place.
LEMMA StepTypes == Types /\ [Next]_vars => Types'
<1> SUFFICES ASSUME Types, [Next]_vars PROVE Types'
  OBVIOUS
<1> USE DEF Types
<1>1. ASSUME NEW e \in ExtraNonces, NEW k \in Offsets, NewJob(e, (StartNonce(e) + k) % Space)
      PROVE  Types'
  <2>1. (StartNonce(e) + k) % Space \in Nat
    <3>1. Space \in Nat \ {0}
      BY PowerAssumption, SizesAssumption DEF Space
    <3>2. StartNonce(e) \in Nat /\ k \in Nat
      BY RoomType, SizesAssumption
    <3> QED
      BY <3>1, <3>2
  <2>2. jobs' \in Seq([extra : ExtraNonces, golden : Nat]) /\ Len(jobs') = Len(jobs) + 1
    BY <1>1, <2>1 DEF NewJob
  <2>3. next' \in 0..Len(jobs')
    BY <1>1, <2>2 DEF NewJob
  <2>4. UNCHANGED <<kind, loop, occupancy, cur>>
    BY <1>1 DEF NewJob, device
  <2> QED
    BY <2>2, <2>3, <2>4
<1>2. ASSUME NEW d \in Devices, TakeJob(d)
      PROVE  Types'
  BY <1>2 DEF TakeJob
<1>3. ASSUME NEW d \in Devices, Execute(d)
      PROVE  Types'
  BY <1>3 DEF Execute
<1>4. ASSUME NEW d \in Devices, SubmitOne(d)
      PROVE  Types'
  BY <1>4 DEF SubmitOne
<1>5. CASE OnShareStatus
  BY <1>5 DEF OnShareStatus, device
<1>6. CASE UNCHANGED vars
  BY <1>6 DEF vars, device
<1> QED
  BY <1>1, <1>2, <1>3, <1>4, <1>5, <1>6 DEF Next

\* The initial state has the types.
LEMMA InitTypes == Init => Types
  BY DEF Init, Types

\* The configuration, the jobs and the devices' places in them always have their types.
THEOREM TypeCorrect == Spec => []Types
  BY InitTypes, StepTypes, PTL DEF Spec

\* However many devices share the nonces of a job, whatever the extranonce, the blocks,
\* the threads and the internal loop: while they are in their slices every nonce begins
\* with the extranonce, no two devices hash the same one, and a device hashes it in one
\* batch unless its kernel leaves the batch, as those of AMD ethash and AMD ProgPOW do with
\* fewer blocks than a group has threads, and that of NVIDIA ProgPOW with more than two
\* turns (setExtraNonce, onUpdateJob, Device::update, loopDoWork, updateBatchNonce and the
\* search kernels together).
THEOREM NoNonceTwice == Spec => []DistinctNonces
  BY TypeCorrect, TypesDistinct, PTL

-----------------------------------------------------------------------------
(***************************************************************************)
(* From the nonce found to the share that is counted.                      *)
(***************************************************************************)

\* A nonce was found in a batch before the one its device is at.
Before(w, c) == w.job < c.job \/ (w.job = c.job /\ w.batch < c.batch)

Judged == accepted \cup rejected

Wins == [nonce : Nat, hashed : Nat, job : Nat, batch : Nat]

\* Device d found w by a try of a batch of one of the pool's jobs, and it met the target,
\* or was hashed with memory nobody wrote.
Found(w, d) ==
  LET base == FirstNonce(Extra(w.job), d) + w.batch * BatchNonce
  IN  /\ w \in [nonce : 0..(Space - 1), hashed : 0..Space, job : 1..Len(jobs),
                batch : 0..(MaxBatches - 1)]
      /\ w.hashed = NoNonce => HalfFilled
      /\ w.hashed # NoNonce => w.hashed = jobs[w.job].golden
      /\ \E x \in Tries : /\ w.nonce = (base + x.nonce) % Space
                          /\ w.hashed # NoNonce => w.hashed = (base + x.hashed) % Space

Records ==
  /\ flight \in [Devices -> SUBSET Wins]
  /\ result \in [Devices -> [label : Nat, found : SUBSET Wins]]
  /\ replies \in Seq([dev : Devices, request : Nat, valid : BOOLEAN])
  /\ stats \in [Devices -> [total : Nat, valid : Nat, invalid : Nat]]
  /\ IsFiniteSet(accepted) /\ IsFiniteSet(rejected)

\* The devices never turn back.
Places == \A d \in Devices : cur[d].job <= next

Winners ==
  /\ \A d \in Devices : \A w \in flight[d] \cup result[d].found : Found(w, d) /\ Before(w, cur[d])
  /\ \A s \in Judged : s.dev \in Devices /\ Found(s.win, s.dev) /\ Before(s.win, cur[s.dev])

\* What a device has found is in one place.
Once ==
  /\ \A d \in Devices : flight[d] \cap result[d].found = {}
  /\ \A s \in Judged : s.win \notin flight[s.dev] \cup result[s.dev].found

Labels ==
  \A d \in Devices :
    /\ result[d].found # {} => result[d].label \in 1..Len(jobs)
    /\ ~Resolver.async => flight[d] = {} /\ \A w \in result[d].found : w.job = result[d].label

\* The pool accepts a share that reads back as the nonce that was hashed.
Sound ==
  \A t \in accepted : /\ t.win.job = t.label
                      /\ t.text = Text(t.win.nonce, Extra(t.label).size)
                      /\ ReadBack(t.text, Extra(t.label)) = t.win.hashed
                      /\ t.win.hashed # NoNonce

Answers == \A i \in DOMAIN replies : replies[i].request = RequestId(replies[i].dev)

Waiting(q, d, V) == {i \in DOMAIN q : q[i].dev = d /\ q[i].valid \in V}
SentBy(S, d) == {s \in S : s.dev = d}

Explained(s) ==
  \/ Resolver.async /\ s.win.job # s.label
  \/ Resolver.header /\ s.header # s.label
  \/ Resolver.walk = "sum of one hash" /\ loop > 1 /\ s.win.nonce # s.win.hashed
  \/ HalfFilled /\ s.win.hashed = NoNonce
  \/ ~StaysInBatch /\ Repeated(s)
  \/ Resolver.write = "plain suffix" /\ HasLeadingZero(s.win.nonce)
  \/ \E x \in accepted \cup {s} : x.label = s.label /\ ~InSlice(x.win.nonce, Extra(x.win.job), x.dev)

ShareInv ==
  /\ Types /\ Records /\ Places
  /\ Winners /\ Once /\ Labels /\ Sound /\ Answers
  /\ RejectedExplained /\ CountedOnce

-----------------------------------------------------------------------------
\* A quotient is known from the bounds of what is divided.
LEMMA Quotient ==
  ASSUME NEW S \in Nat \ {0}, NEW n \in Nat, NEW v \in Nat, S * v <= n, n < S * v + S
  PROVE  n % S = n - S * v
<1> DEFINE q == n \div S
           r == n % S
<1>0. q \in Nat /\ r \in Nat /\ r <= S - 1 /\ r = n - S * q
  OBVIOUS
<1> HIDE DEF q, r
<1>1. q \in Nat /\ r \in 0..(S - 1) /\ n = S * q + r
  <2>1. S * q \in Nat
    BY <1>0
  <2> QED
    BY <1>0, <2>1
<1>2. S * (q + 1) = S * q + S /\ S * (v + 1) = S * v + S /\ S * q \in Nat /\ S * v \in Nat
  BY <1>1
<1>3. ~(q < v)
  <2> SUFFICES ASSUME q < v PROVE FALSE
    OBVIOUS
  <2>1. S * (q + 1) <= S * v
    BY <1>1, Multiples
  <2> QED
    BY <1>1, <1>2, <2>1
<1>4. ~(v < q)
  <2> SUFFICES ASSUME v < q PROVE FALSE
    OBVIOUS
  <2>1. S * (v + 1) <= S * q
    BY <1>1, Multiples
  <2> QED
    BY <1>1, <1>2, <2>1
<1>5. q = v
  BY <1>1, <1>3, <1>4
<1>6. r = n - S * v
  BY <1>1, <1>2, <1>5
<1> QED
  BY <1>6 DEF r

\* A rest.
LEMMA ModType ==
  ASSUME NEW S \in Nat \ {0}, NEW y \in Nat
  PROVE  y % S \in 0..(S - 1)
  OBVIOUS

\* What is below twice the divisor wraps round once at most.
LEMMA ModOnce ==
  ASSUME NEW S \in Nat \ {0}, NEW y \in Nat, y < S + S
  PROVE  y % S = IF y < S THEN y ELSE y - S
<1>1. S * 0 = 0 /\ S * 1 = S
  OBVIOUS
<1> QED
  BY <1>1, Quotient

\* The least number of a set.
LEMMA LeastOf ==
  ASSUME NEW n \in Nat, NEW T \in SUBSET (1..n), T # {}
  PROVE  \E k \in T : \A m \in T : k <= m
<1> DEFINE S == 1..n
           F == {1..k : k \in T}
           R == StrictSubsetOrdering(S)
<1>1. IsWellFoundedOn(R, FiniteSubsetsOf(S))
  BY FS_StrictSubsetOrderingWellFounded
<1>2. F \subseteq FiniteSubsetsOf(S) /\ F # {}
  <2>1. \A k \in T : 1..k \subseteq S
    OBVIOUS
  <2>2. \A k \in T : IsFiniteSet(1..k)
    BY FS_Interval
  <2> QED
    BY <2>1, <2>2 DEF FiniteSubsetsOf
<1>3. \E x \in F : \A y \in F : ~(<<y, x>> \in R)
  <2> HIDE DEF F, R, S
  <2> QED
    BY <1>1, <1>2, WFMin
<1>4. PICK k \in T : \A y \in F : ~(<<y, 1..k>> \in R)
  BY <1>3
<1>5. ASSUME NEW m \in T, m < k PROVE FALSE
  <2>1. 1..m \in F /\ 1..m \in SUBSET S /\ 1..k \in SUBSET S
    OBVIOUS
  <2>2. 1..m \subseteq 1..k /\ 1..m # 1..k
    <3>1. k \in 1..k /\ k \notin 1..m
      BY <1>5
    <3> QED
      BY <1>5, <3>1
  <2>3. <<1..m, 1..k>> \in R
    BY <2>1, <2>2 DEF StrictSubsetOrdering
  <2> QED
    BY <1>4, <2>1, <2>3
<1> QED
  BY <1>5

\* The text of a nonce has a number of digits.
LEMMA DigitsType ==
  ASSUME NEW n \in 0..(Space - 1)
  PROVE  Digits(n) \in 1..Width
<1> DEFINE T == {k \in 1..Width : n < Base^k}
<1>1. Width \in T
  <2>1. Space \in Nat \ {0} /\ Width \in 1..Width
    BY SizesAssumption, PowerAssumption DEF Space
  <2> QED
    BY <2>1 DEF Space
<1>2. PICK k \in T : \A m \in T : k <= m
  BY <1>1, SizesAssumption, LeastOf
<1>3. k > 1 => n >= Base^(k - 1)
  <2> SUFFICES ASSUME k > 1 PROVE n >= Base^(k - 1)
    OBVIOUS
  <2>1. k - 1 \in 1..Width /\ k - 1 \notin T /\ Base^(k - 1) \in Nat
    BY <1>2, SizesAssumption, PowerAssumption
  <2> QED
    BY <2>1
<1> QED
  BY <1>2, <1>3 DEF Digits

-----------------------------------------------------------------------------
(***************************************************************************)
(* What a nonce reads back as, and which nonces are tried.                 *)
(***************************************************************************)

\* There is a nonce.
LEMMA SpaceType == Space \in Nat \ {0}
  BY PowerAssumption, SizesAssumption DEF Space

\* The jobs of the pool.
LEMMA JobType ==
  ASSUME Types, NEW j \in 1..Len(jobs)
  PROVE  Extra(j) \in ExtraNonces /\ jobs[j].golden \in Nat
<1> DEFINE R == [extra : ExtraNonces, golden : Nat]
<1>1. jobs \in Seq(R)
  BY DEF Types
<1> HIDE DEF R
<1>2. jobs[j] \in R
  BY <1>1
<1> QED
  BY <1>2 DEF R, Extra

\* The digits of an extranonce.
LEMMA SizeType ==
  ASSUME NEW e \in ExtraNonces
  PROVE  e.size \in 1..Width /\ e.value \in Nat /\ Width \in Nat
  BY ExtraNoncesAssumption, SizesAssumption DEF ExtraNonces

\* A nonce with the extranonce of the job reads back as itself, unless leading zeros
\* that were left out are missed.
LEMMA ReadBackOf ==
  ASSUME NEW e \in ExtraNonces, NEW n \in 0..(Space - 1), InRoom(n, e)
  PROVE  \/ ReadBack(Text(n, e.size), e) = n
         \/ /\ ReadBack(Text(n, e.size), e) = NoNonce
            /\ Resolver.write = "plain suffix" /\ HasLeadingZero(n)
<1>1. CASE ~CutsExtraNonce
  BY <1>1 DEF ReadBack, Text, Written, PlainText, PaddedText
<1>2. CASE CutsExtraNonce /\ Written(n).digits = Width
  <2>1. /\ Text(n, e.size) = [digits |-> Width - e.size, value |-> n % Room(e)]
    BY <1>2 DEF Text, Suffix, Written, PlainText, PaddedText, Room
  <2>2. n % Room(e) = n - StartNonce(e)
    <3>1. e.value \in Nat /\ Room(e) \in Nat \ {0} /\ n \in Nat
      BY RoomType, SizeType, SpaceType
    <3>2. StartNonce(e) = Room(e) * e.value /\ StartNonce(e) \in Nat
      BY <3>1 DEF StartNonce
    <3>3. StartNonce(e) <= n /\ n < StartNonce(e) + Room(e)
      BY <3>1, <3>2 DEF InRoom, GapNonce
    <3> QED
      BY <3>1, <3>2, <3>3, Quotient
  <2>3. StartNonce(e) + (n - StartNonce(e)) = n
    BY RoomType, SpaceType
  <2>4. ReadBack(Text(n, e.size), e) = StartNonce(e) + (n % Room(e))
    BY <1>2, <2>1 DEF ReadBack
  <2> QED
    BY <2>2, <2>3, <2>4, Zenon
<1>3. CASE CutsExtraNonce /\ Written(n).digits # Width
  <2>1. Resolver.write = "plain suffix" /\ Written(n) = PlainText(n)
    BY <1>3 DEF CutsExtraNonce, Written, PaddedText
  <2>2. Digits(n) \in 1..Width /\ Width \in Nat /\ e.size \in Nat
    BY DigitsType, SizeType
  <2>3. PlainText(n).digits = Digits(n) /\ Digits(n) # Width
    <3>1. PlainText(n).digits = Digits(n)
      BY DEF PlainText
    <3>2. PlainText(n).digits # Width
      BY <1>3, <2>1
    <3> QED
      BY <3>1, <3>2
  <2>6. Digits(n) < Width
    BY <2>2, <2>3
  <2>4. Text(n, e.size).digits = Digits(n) - e.size
    <3>1. Text(n, e.size) = Suffix(PlainText(n), e.size)
      BY <1>3, <2>1 DEF Text
    <3>2. Suffix(PlainText(n), e.size).digits = PlainText(n).digits - e.size
      BY DEF Suffix
    <3> QED
      BY <2>3, <3>1, <3>2
  <2>5. Digits(n) - e.size # Width - e.size
    BY <2>2, <2>6
  <2> QED
    BY <1>3, <2>1, <2>6, <2>4, <2>5 DEF ReadBack, HasLeadingZero
<1> QED
  BY <1>1, <1>2, <1>3

\* A slice is in the room of the extranonce, from the device's first nonce on.
LEMMA SliceInRoom ==
  ASSUME NEW e \in ExtraNonces, NEW d \in Devices, NEW n \in Nat, InSlice(n, e, d)
  PROVE  InRoom(n, e) /\ FirstNonce(e, d) <= n /\ n < FirstNonce(e, d) + Quota(e)
<1>1. d \in Nat
  BY Sized DEF Devices
<1>2. /\ StartNonce(e) \in Nat /\ GapNonce(e) \in Nat /\ Gap(e) \in Nat /\ Quota(e) = Gap(e)
      /\ FirstNonce(e, d) \in Nat /\ FirstNonce(e, d) >= StartNonce(e)
      /\ FirstNonce(e, d) + Quota(e) <= StartNonce(e) + GapNonce(e)
  BY RoomType, SlicesInOrder
<1>3. Gap(e) * (d + 1) = Gap(e) * d + Gap(e) /\ Gap(e) * d \in Nat
  BY <1>1, <1>2
<1>4. FirstNonce(e, d) <= n /\ n < FirstNonce(e, d) + Quota(e)
  BY <1>2, <1>3 DEF InSlice, FirstNonce
<1> QED
  BY <1>2, <1>4 DEF InRoom

\* No nonce is in the slices of two devices.
LEMMA SlicesApart ==
  ASSUME NEW e \in ExtraNonces, NEW d \in Devices, NEW f \in Devices, NEW n \in Nat,
         InSlice(n, e, d), InSlice(n, e, f)
  PROVE  d = f
<1>1. /\ FirstNonce(e, d) <= n /\ n < FirstNonce(e, d) + Quota(e)
      /\ FirstNonce(e, f) <= n /\ n < FirstNonce(e, f) + Quota(e)
  BY SliceInRoom
<1>2. /\ d < f => FirstNonce(e, d) + Quota(e) <= FirstNonce(e, f)
      /\ f < d => FirstNonce(e, f) + Quota(e) <= FirstNonce(e, d)
      /\ FirstNonce(e, d) \in Nat /\ FirstNonce(e, f) \in Nat /\ Quota(e) \in Nat
  BY SlicesInOrder, RoomType
<1>3. d \in Nat /\ f \in Nat
  BY Sized DEF Devices
<1> QED
  BY <1>1, <1>2, <1>3

\* The nonce that is reported is the one that was hashed, but for AMD ProgPOW.
LEMMA ReportsHashed ==
  ASSUME kind \in Kinds, loop \in Loops, occupancy \in Occupancies, NEW x \in Tries,
         x.nonce # x.hashed
  PROVE  Resolver.walk = "sum of one hash" /\ loop > 1
<1>1. PICK t \in ThreadIds, i \in Turns : x = Try(t, i)
  BY DEF Tries
<1>2. Resolver.walk = "sum of one hash"
  BY <1>1 DEF Try
<1>3. loop > 1
  <2> SUFFICES ASSUME ~(loop > 1) PROVE FALSE
    OBVIOUS
  <2>1. i = 0 /\ occupancy.built \in Nat /\ t \in Nat
    <3>1. loop = 1 /\ occupancy.built \in Nat /\ t \in Nat
      BY Sized, Occupied, ThreadType
    <3>2. Turns = 0..(loop - 1)
      BY <1>2 DEF Turns
    <3> QED
      BY <3>1, <3>2
  <2>2. Stride(i) = 0
    BY <1>2, <2>1, FirstStrides
  <2>3. t + 0 * occupancy.built = t
    BY <2>1
  <2> QED
    BY <1>1, <1>2, <2>2, <2>3 DEF Try
<1> QED
  BY <1>2, <1>3

\* A device does not come round to its slice: what it hashed in it has the number it
\* was counted with.
LEMMA NotRound ==
  ASSUME Types, StaysInBatch, NEW f \in Nat, NEW b \in 0..(MaxBatches - 1), NEW x \in Tries,
         f <= (f + b * BatchNonce + x.hashed) % Space
  PROVE  (f + b * BatchNonce + x.hashed) % Space = f + b * BatchNonce + x.hashed
<1> DEFINE h == x.hashed
           y == f + b * BatchNonce + h
<1>1. h \in Nat /\ h < BatchNonce /\ BatchNonce \in Nat /\ b \in Nat /\ MaxBatches \in Nat
  BY TriesInBatch, SizesAssumption DEF Types
<1> HIDE DEF h
<1>2. b * BatchNonce + h < Space /\ b * BatchNonce \in Nat
  <2>1. BatchNonce * (b + 1) <= BatchNonce * MaxBatches
    BY <1>1, Multiples
  <2>2. BatchNonce * MaxBatches <= Space
    BY <1>1, RangeAssumption DEF Types, BatchNonce, Lanes, Space
  <2>3. BatchNonce * (b + 1) = b * BatchNonce + BatchNonce /\ b * BatchNonce \in Nat
    BY <1>1
  <2>4. BatchNonce * MaxBatches \in Nat
    BY <1>1
  <2> QED
    BY <1>1, <2>1, <2>2, <2>3, <2>4, SpaceType
<1>3. y \in Nat /\ y % Space \in 0..(Space - 1)
  BY <1>1, <1>2, SpaceType
<1>4. y < Space + Space
  BY <1>1, <1>2, <1>3, SpaceType DEF h
<1>5. y % Space = IF y < Space THEN y ELSE y - Space
  BY <1>3, <1>4, SpaceType, ModOnce
<1>6. y < Space
  <2> SUFFICES ASSUME ~(y < Space) PROVE FALSE
    OBVIOUS
  <2>1. f <= y - Space
    BY <1>5 DEF h
  <2> QED
    BY <1>1, <1>2, <2>1, SpaceType
<1> QED
  BY <1>5, <1>6 DEF h

-----------------------------------------------------------------------------
(***************************************************************************)
(* Why a share is rejected.                                                *)
(***************************************************************************)

\* Nonces of a device that were hashed in its slice, and are those reported, are one
\* if they are the same number.
LEMMA SameTry ==
  ASSUME Types, StaysInBatch, NEW d \in Devices, NEW w, NEW v, Found(w, d), Found(v, d),
         w.job = v.job, w.nonce = w.hashed, v.nonce = v.hashed,
         InSlice(w.nonce, Extra(w.job), d)
  PROVE  w = v
<1> DEFINE f == FirstNonce(Extra(w.job), d)
           S == 0..(Space - 1)
<1>0. w.hashed # NoNonce /\ v.hashed # NoNonce
  BY SpaceType DEF Found, NoNonce
<1>1. w \in [nonce : S, hashed : 0..Space, job : 1..Len(jobs), batch : 0..(MaxBatches - 1)]
      /\ v \in [nonce : S, hashed : 0..Space, job : 1..Len(jobs), batch : 0..(MaxBatches - 1)]
  BY DEF Found
<1>2. w.hashed = v.hashed
  BY <1>0 DEF Found
<1>3. PICK x \in Tries : w.hashed = (f + w.batch * BatchNonce + x.hashed) % Space
  BY <1>0 DEF Found
<1>4. PICK y \in Tries : v.hashed = (f + v.batch * BatchNonce + y.hashed) % Space
  BY <1>0 DEF Found
<1>5. Extra(w.job) \in ExtraNonces /\ w.nonce \in Nat
  BY <1>1, JobType, SpaceType
<1>6. f \in Nat /\ f <= w.hashed
  BY <1>5, SlicesInOrder, SliceInRoom
<1> HIDE DEF f, S
<1>7. w.hashed = f + w.batch * BatchNonce + x.hashed
  BY <1>1, <1>3, <1>6, NotRound
<1>8. v.hashed = f + v.batch * BatchNonce + y.hashed
  BY <1>1, <1>2, <1>4, <1>6, NotRound
<1>9. /\ x.hashed \in Nat /\ x.hashed < BatchNonce /\ BatchNonce \in Nat
      /\ y.hashed \in Nat /\ y.hashed < BatchNonce
  BY TriesInBatch DEF Types
<1>10. w.batch \in Nat /\ v.batch \in Nat
  BY <1>1, SizesAssumption
<1>11. w.batch = v.batch
  <2> DEFINE b == w.batch
             c == v.batch
             g == x.hashed
             h == y.hashed
  <2>1. b \in Nat /\ c \in Nat /\ g \in Nat /\ h \in Nat /\ g < BatchNonce /\ h < BatchNonce
    BY <1>9, <1>10
  <2>2. f + b * BatchNonce + g = f + c * BatchNonce + h
    BY <1>2, <1>7, <1>8
  <2> HIDE DEF b, c, g, h
  <2>3. b * BatchNonce \in Nat /\ c * BatchNonce \in Nat
    BY <1>9, <2>1
  <2>4. b * BatchNonce + g = c * BatchNonce + h
    BY <1>6, <2>1, <2>2, <2>3
  <2>5. b < c => FALSE
    <3> SUFFICES ASSUME b < c PROVE FALSE
      OBVIOUS
    <3>1. BatchNonce * (b + 1) <= BatchNonce * c
      BY <1>9, <2>1, Multiples
    <3>2. BatchNonce * (b + 1) = b * BatchNonce + BatchNonce /\ BatchNonce * c = c * BatchNonce
      BY <1>9, <2>1
    <3> QED
      BY <1>9, <2>1, <2>3, <2>4, <3>1, <3>2
  <2>6. c < b => FALSE
    <3> SUFFICES ASSUME c < b PROVE FALSE
      OBVIOUS
    <3>1. BatchNonce * (c + 1) <= BatchNonce * b
      BY <1>9, <2>1, Multiples
    <3>2. BatchNonce * (c + 1) = c * BatchNonce + BatchNonce /\ BatchNonce * b = b * BatchNonce
      BY <1>9, <2>1
    <3> QED
      BY <1>9, <2>1, <2>3, <2>4, <3>1, <3>2
  <2>7. b = c
    BY <2>1, <2>5, <2>6
  <2> QED
    BY <2>7 DEF b, c
<1> QED
  BY <1>1, <1>2, <1>11

\* A share whose nonce is in the slice of its device reads back as its nonce, or
\* lacks zeros.
LEMMA SliceReadsBack ==
  ASSUME Types, NEW d \in Devices, NEW w, Found(w, d), InSlice(w.nonce, Extra(w.job), d)
  PROVE  /\ InRoom(w.nonce, Extra(w.job))
         /\ LET back == ReadBack(Text(w.nonce, Extra(w.job).size), Extra(w.job))
            IN  \/ back = w.nonce
                \/ back = NoNonce /\ Resolver.write = "plain suffix" /\ HasLeadingZero(w.nonce)
<1>1. w.nonce \in 0..(Space - 1) /\ w.job \in 1..Len(jobs)
  BY DEF Found
<1>2. Extra(w.job) \in ExtraNonces /\ w.nonce \in Nat
  BY <1>1, JobType, SpaceType
<1>3. InRoom(w.nonce, Extra(w.job))
  BY <1>2, SliceInRoom
<1> QED
  BY <1>1, <1>2, <1>3, ReadBackOf

\* The pool does not take a share: one of the reasons holds.
LEMMA RejectionExplained ==
  ASSUME ShareInv, NEW d \in Devices, NEW w \in result[d].found, NEW s,
         s.dev = d, s.win = w, s.label = result[d].label,
         s.header = (IF Resolver.header THEN Len(jobs) ELSE s.label),
         s.text = Text(w.nonce, Extra(s.label).size),
         ~Accepts(s)
  PROVE  Explained(s)
<1> SUFFICES ASSUME ~Explained(s) PROVE FALSE
  OBVIOUS
<1> DEFINE e == Extra(s.label)
<1>1. Types /\ Found(w, d)
  BY DEF ShareInv, Winners
<1>2. w.job = s.label
  <2>1. CASE Resolver.async
    BY <2>1 DEF Explained
  <2>2. CASE ~Resolver.async
    BY <2>2 DEF ShareInv, Labels
  <2> QED
    BY <2>1, <2>2
<1>3. s.header = s.label
  BY DEF Explained
<1>4. w.hashed # NoNonce
  BY <1>1 DEF Explained, Found
<1>5. w.nonce = w.hashed
  <2>1. \E x \in Tries : w.nonce # w.hashed => x.nonce # x.hashed
    BY <1>1, <1>4 DEF Found
  <2>2. w.nonce # w.hashed => Resolver.walk = "sum of one hash" /\ loop > 1
    BY <1>1, <2>1, ReportsHashed DEF Types
  <2> QED
    BY <2>2 DEF Explained
<1>6. InSlice(w.nonce, e, d)
  BY <1>2 DEF Explained
<1>7. InRoom(w.nonce, e) /\ ReadBack(s.text, e) = w.nonce
  BY <1>1, <1>2, <1>6, SliceReadsBack DEF Explained
<1>8. PICK t \in accepted : t.label = s.label
  BY <1>2, <1>3, <1>4, <1>5, <1>7 DEF Accepts
<1>9. /\ t.dev \in Devices /\ Found(t.win, t.dev) /\ t.win.job = s.label
      /\ ReadBack(Text(t.win.nonce, e.size), e) = t.win.hashed /\ t.win.hashed # NoNonce
  BY <1>8 DEF ShareInv, Winners, Judged, Sound
<1>10. InSlice(t.win.nonce, e, t.dev)
  BY <1>8, <1>9 DEF Explained
<1>11. t.win.nonce = t.win.hashed
  BY <1>1, <1>9, <1>10, SliceReadsBack
<1>12. t.win.hashed = w.hashed
  BY <1>1, <1>2, <1>4, <1>9 DEF Found
<1>13. t.dev = d
  <2>1. e \in ExtraNonces /\ w.nonce \in Nat
    BY <1>1, <1>2, JobType, SpaceType DEF Found
  <2> QED
    BY <1>5, <1>6, <1>9, <1>10, <1>11, <1>12, <2>1, SlicesApart
<1>14. w # t.win
  BY <1>8, <1>13 DEF ShareInv, Once, Judged
<1>15. CASE StaysInBatch
  <2>1. w = t.win
    BY <1>1, <1>2, <1>5, <1>6, <1>9, <1>11, <1>13, <1>15, SameTry
  <2> QED
    BY <1>14, <2>1
<1>16. CASE ~StaysInBatch
  <2>1. t.win.nonce = w.nonce /\ t.win.job = w.job
    BY <1>2, <1>5, <1>9, <1>11, <1>12
  <2>2. t.win.batch # w.batch
    BY <1>1, <1>9, <1>12, <1>14, <2>1 DEF Found
  <2>3. Repeated(s)
    BY <1>8, <1>13, <2>1, <2>2 DEF Repeated
  <2> QED
    BY <1>16, <2>3 DEF Explained
<1> QED
  BY <1>15, <1>16

-----------------------------------------------------------------------------
(***************************************************************************)
(* The steps.                                                              *)
(***************************************************************************)

\* The jobs that came stay as they came.
KeepsJobs ==
  /\ kind' = kind /\ loop' = loop /\ occupancy' = occupancy
  /\ Len(jobs') \in Nat /\ Len(jobs) <= Len(jobs')
  /\ \A j \in 1..Len(jobs) : jobs'[j] = jobs[j]

LEMMA Frame ==
  ASSUME KeepsJobs
  PROVE  /\ Resolver' = Resolver /\ Tries' = Tries /\ BatchNonce' = BatchNonce
         /\ HalfFilled' = HalfFilled /\ StaysInBatch' = StaysInBatch
         /\ \A j \in 1..Len(jobs) : Extra(j)' = Extra(j)
<1>1. Resolver' = Resolver /\ Lanes' = Lanes
  BY DEF KeepsJobs, Resolver, Lanes
<1>2. Tries' = Tries
  BY <1>1 DEF KeepsJobs, Tries, ThreadIds, Turns, Try, Stride
<1>3. HalfFilled' = HalfFilled /\ StaysInBatch' = StaysInBatch
  BY <1>1 DEF KeepsJobs, HalfFilled, StaysInBatch, Narrow
<1> QED
  BY <1>1, <1>2, <1>3 DEF KeepsJobs, BatchNonce, Extra

LEMMA FoundKept ==
  ASSUME KeepsJobs, Types, NEW w, NEW d, Found(w, d)
  PROVE  Found(w, d)'
<1>1. w.job \in 1..Len(jobs) /\ Len(jobs) \in Nat
  BY DEF Found, Types
<1>2. w.job \in 1..Len(jobs') /\ jobs'[w.job] = jobs[w.job]
  BY <1>1 DEF KeepsJobs
<1>3. /\ Extra(w.job)' = Extra(w.job) /\ Tries' = Tries /\ BatchNonce' = BatchNonce
      /\ HalfFilled' = HalfFilled
  BY <1>1, Frame
<1> QED
  BY <1>1, <1>2, <1>3 DEF Found

\* A rejection stays explained, and what was accepted stays sound.
LEMMA ExplainedKept ==
  ASSUME KeepsJobs, Winners, accepted \subseteq accepted',
         NEW s \in rejected, Explained(s)
  PROVE  Explained(s)'
<1>1. /\ Resolver' = Resolver /\ loop' = loop
      /\ HalfFilled' = HalfFilled /\ StaysInBatch' = StaysInBatch
      /\ \A j \in 1..Len(jobs) : Extra(j)' = Extra(j)
  BY Frame DEF KeepsJobs
<1>0. Repeated(s) => Repeated(s)'
  BY DEF Repeated
<1>2. \A x \in accepted \cup {s} : x.win.job \in 1..Len(jobs)
  BY DEF Winners, Judged, Found
<1>3. ASSUME NEW x \in accepted \cup {s}, x.label = s.label,
             ~InSlice(x.win.nonce, Extra(x.win.job), x.dev)
      PROVE  Explained(s)'
  <2>1. Extra(x.win.job)' = Extra(x.win.job) /\ x \in accepted' \cup {s}
    BY <1>1, <1>2
  <2> QED
    BY <1>3, <2>1 DEF Explained
<1> QED
  BY <1>0, <1>1, <1>3 DEF Explained

LEMMA SoundKept ==
  ASSUME KeepsJobs, Winners, Sound, NEW t \in accepted
  PROVE  /\ t.win.job = t.label
         /\ t.text = Text(t.win.nonce, Extra(t.label).size)'
         /\ ReadBack(t.text, Extra(t.label))' = t.win.hashed
         /\ t.win.hashed # NoNonce
<1>1. t.label \in 1..Len(jobs) /\ t.win.job = t.label
  BY DEF Winners, Judged, Found, Sound
<1>2. Resolver' = Resolver /\ Extra(t.label)' = Extra(t.label)
  BY <1>1, Frame
<1>3. Text(t.win.nonce, Extra(t.label).size)' = Text(t.win.nonce, Extra(t.label).size)
  BY <1>2 DEF Text, Written, CutsExtraNonce
<1>4. ReadBack(t.text, Extra(t.label))' = ReadBack(t.text, Extra(t.label))
  BY <1>2 DEF ReadBack, CutsExtraNonce
<1> QED
  BY <1>1, <1>3, <1>4 DEF Sound

\* Rejections are explained if nothing was judged.
LEMMA NothingJudged ==
  ASSUME KeepsJobs, ShareInv, ~aborted, UNCHANGED <<accepted, rejected, aborted>>
  PROVE  RejectedExplained'
<1>1. \A s \in rejected : Explained(s)'
  BY ExplainedKept DEF ShareInv, RejectedExplained, Explained
<1> QED
  BY <1>1 DEF RejectedExplained, Explained

LEMMA NoAnswers ==
  ASSUME ShareInv, UNCHANGED <<accepted, rejected, replies, stats>>
  PROVE  CountedOnce' /\ Answers'
  BY DEF ShareInv, CountedOnce, Answers

\* Devices that do not move keep their winners.
LEMMA DevicesKept ==
  ASSUME KeepsJobs, ShareInv, UNCHANGED <<device, accepted, rejected>>
  PROVE  Winners' /\ Once' /\ Labels' /\ Sound'
<1>1. UNCHANGED <<cur, flight, result, accepted, rejected>> /\ Resolver' = Resolver
  BY Frame DEF device
<1>2. Types /\ Winners /\ Once /\ Labels /\ Sound
  BY DEF ShareInv
<1>3. \A w, d : Found(w, d) => Found(w, d)'
  BY <1>2, FoundKept
<1>4. Winners'
  BY <1>1, <1>2, <1>3 DEF Winners, Judged, Before
<1>5. Once'
  BY <1>1, <1>2 DEF Once, Judged
<1>6. Labels'
  <2>1. \A d \in Devices : result[d].label \in 1..Len(jobs) => result[d].label \in 1..Len(jobs')
    BY <1>2 DEF KeepsJobs, Types
  <2> QED
    BY <1>1, <1>2, <2>1 DEF Labels
<1>7. Sound'
  BY <1>1, <1>2, SoundKept DEF Sound
<1> QED
  BY <1>4, <1>5, <1>6, <1>7

\* A job that comes is the last one.
LEMMA NewJobShare ==
  ASSUME ShareInv, NEW e \in ExtraNonces, NEW g \in Nat, NewJob(e, g), Types'
  PROVE  ShareInv'
<1>1. Types /\ Records /\ Places
  BY DEF ShareInv
<1>2. /\ ~aborted /\ jobs' = Append(jobs, [extra |-> e, golden |-> g])
      /\ next' = IF IsValidJob(e) THEN Len(jobs') ELSE next
      /\ UNCHANGED <<kind, loop, occupancy, device, aborted, replies, stats, accepted, rejected>>
  BY DEF NewJob, pool
<1>3. KeepsJobs
  <2> DEFINE R == [extra : ExtraNonces, golden : Nat]
  <2>1. jobs \in Seq(R) /\ [extra |-> e, golden |-> g] \in R
    BY <1>1 DEF Types
  <2> HIDE DEF R
  <2>2. Len(jobs') = Len(jobs) + 1 /\ \A j \in 1..Len(jobs) : jobs'[j] = jobs[j]
    BY <1>2, <2>1
  <2> QED
    BY <1>2, <2>1, <2>2 DEF KeepsJobs
<1>4. Records'
  BY <1>1, <1>2 DEF Records, device
<1>5. Places'
  <2>1. next <= next'
    BY <1>1, <1>2, <1>3 DEF Types, KeepsJobs
  <2>2. \A d \in Devices : cur'[d].job = cur[d].job /\ cur[d].job \in Nat
    BY <1>1, <1>2 DEF Types, device
  <2>3. next \in Nat /\ next' \in Nat
    BY <1>1 DEF Types
  <2> QED
    BY <1>1, <2>1, <2>2, <2>3 DEF Places
<1>6. Winners' /\ Once' /\ Labels' /\ Sound'
  BY <1>2, <1>3, DevicesKept
<1>7. RejectedExplained' /\ CountedOnce' /\ Answers'
  BY <1>2, <1>3, NothingJudged, NoAnswers
<1> QED
  BY <1>4, <1>5, <1>6, <1>7 DEF ShareInv

\* A step that leaves the jobs keeps them.
LEMMA JobsStay ==
  ASSUME Types, UNCHANGED <<kind, loop, occupancy, jobs>>
  PROVE  KeepsJobs
<1>1. Len(jobs) \in Nat
  BY DEF Types
<1> QED
  BY <1>1 DEF KeepsJobs

\* A device that takes a job is past all batches of the one before.
LEMMA TakeJobShare ==
  ASSUME ShareInv, NEW d \in Devices, TakeJob(d), Types'
  PROVE  ShareInv'
<1>1. Types /\ Records /\ Places /\ Winners /\ Once /\ Labels /\ Sound
  BY DEF ShareInv
<1>2. /\ ~aborted /\ next # cur[d].job
      /\ cur' = [cur EXCEPT ![d] = [job |-> next, batch |-> 0]]
      /\ UNCHANGED <<kind, loop, occupancy, jobs, next, flight, result, aborted, replies, stats,
                     accepted, rejected>>
  BY DEF TakeJob, pool
<1>3. KeepsJobs
  BY <1>1, <1>2, JobsStay
<1>4. Records'
  BY <1>1, <1>2 DEF Records
<1>5. /\ \A f \in Devices : f # d => cur'[f] = cur[f]
      /\ cur'[d].job = next /\ cur[d].job < next
  BY <1>1, <1>2 DEF Types, Places
<1>6. Places'
  BY <1>1, <1>2, <1>5 DEF Places, Types
<1>7. \A w, f : f \in Devices /\ Found(w, f) /\ Before(w, cur[f]) => Before(w, cur'[f])
  <2> SUFFICES ASSUME NEW w, NEW f \in Devices, Found(w, f), Before(w, cur[f]), f = d
               PROVE  Before(w, cur'[f])
    BY <1>5
  <2>1. w.job \in Nat /\ cur[d].job \in Nat /\ next \in Nat
    BY <1>1 DEF Found, Types
  <2>2. w.job < next
    BY <1>5, <2>1 DEF Before
  <2> QED
    BY <1>5, <2>2 DEF Before
<1>8. Winners'
  <2>1. \A w, f : Found(w, f) => Found(w, f)'
    BY <1>1, <1>3, FoundKept
  <2> QED
    BY <1>1, <1>2, <1>7, <2>1 DEF Winners, Judged, Before
<1>9. Once'
  BY <1>1, <1>2 DEF Once, Judged
<1>10. Labels'
  BY <1>1, <1>2, <1>3, Frame DEF Labels
<1>11. Sound'
  BY <1>1, <1>2, <1>3, SoundKept DEF Sound
<1>12. RejectedExplained' /\ CountedOnce' /\ Answers'
  BY <1>2, <1>3, NothingJudged, NoAnswers
<1> QED
  BY <1>4, <1>6, <1>8, <1>9, <1>10, <1>11, <1>12 DEF ShareInv

\* What a batch reports was found by the device, in the batch it is at.
LEMMA OutcomeFound ==
  ASSUME Types, NEW d \in Devices, cur[d].job \in 1..Len(jobs), cur[d].batch < MaxBatches,
         NEW finds \in Outcomes(d), NEW w \in finds
  PROVE  /\ w \in Wins /\ Found(w, d)
         /\ w.job = cur[d].job /\ w.batch = cur[d].batch
<1> DEFINE base == FirstNonce(Extra(cur[d].job), d) + cur[d].batch * BatchNonce
           Report(x) == [nonce |-> (base + x.nonce) % Space, hashed |-> (base + x.hashed) % Space,
                         job |-> cur[d].job, batch |-> cur[d].batch]
<1>1. PICK x \in Tries :
        \/ w = Report(x) /\ w.hashed = jobs[cur[d].job].golden
        \/ w = [Report(x) EXCEPT !.hashed = NoNonce] /\ HalfFilled
  <2>1. CASE w \in Finds(d)
    BY <2>1 DEF Finds, Reports
  <2>2. CASE w \in Astray(d) /\ MayStray(d)
    <3>1. \A i \in Turns : Try(0, i) \in Tries
      BY FirstThread DEF Types, Tries
    <3>2. PICK v \in Reports(d, {Try(0, i) : i \in Turns}) : w = [v EXCEPT !.hashed = NoNonce]
      BY <2>2 DEF Astray
    <3>3. PICK x \in Tries : v = Report(x)
      BY <3>1, <3>2 DEF Reports
    <3> QED
      BY <2>2, <3>2, <3>3 DEF MayStray
  <2> QED
    BY <2>1, <2>2 DEF Outcomes
<1>2. base \in Nat
  <2>1. FirstNonce(Extra(cur[d].job), d) \in Nat
    BY JobType, SlicesInOrder
  <2>2. cur[d].batch \in Nat /\ BatchNonce \in Nat
    <3>1. cur[d].batch \in Nat /\ Lanes \in Nat /\ loop \in Nat
      BY Sized, Occupied DEF Types
    <3> QED
      BY <3>1 DEF BatchNonce
  <2>3. cur[d].batch * BatchNonce \in Nat
    BY <2>2
  <2> QED
    BY <2>1, <2>3
<1>3. x.nonce \in Nat /\ x.hashed \in Nat
  BY TriesType DEF Types
<1> HIDE DEF base
<1>4. (base + x.nonce) % Space \in 0..(Space - 1) /\ (base + x.hashed) % Space \in 0..(Space - 1)
  <2>1. base + x.nonce \in Nat /\ base + x.hashed \in Nat
    BY <1>2, <1>3
  <2> QED
    BY <2>1, SpaceType, ModType
<1>5. cur[d].batch \in 0..(MaxBatches - 1) /\ cur[d].batch \in Nat /\ cur[d].job \in Nat
  BY SizesAssumption DEF Types
<1>6. /\ w = [nonce |-> w.nonce, hashed |-> w.hashed, job |-> w.job, batch |-> w.batch]
      /\ w.nonce = (base + x.nonce) % Space
      /\ w.job = cur[d].job /\ w.batch = cur[d].batch
      /\ \/ w.hashed = (base + x.hashed) % Space /\ w.hashed = jobs[w.job].golden
         \/ w.hashed = NoNonce /\ HalfFilled
  BY <1>1
<1>7. w.hashed \in 0..Space /\ w.hashed \in Nat /\ w.nonce \in Nat
  BY <1>4, <1>6, SpaceType DEF NoNonce
<1>8. w \in [nonce : 0..(Space - 1), hashed : 0..Space, job : 1..Len(jobs),
             batch : 0..(MaxBatches - 1)]
  BY <1>4, <1>5, <1>6, <1>7
<1>9. w \in Wins
  BY <1>5, <1>6, <1>7 DEF Wins
<1>10. w.hashed = (base + x.hashed) % Space => w.hashed # NoNonce
  BY <1>4, SpaceType DEF NoNonce
<1>11. base = FirstNonce(Extra(w.job), d) + w.batch * BatchNonce
  BY <1>6 DEF base
<1> QED
  BY <1>6, <1>8, <1>9, <1>10, <1>11 DEF Found

\* What a batch finds is new, and resultShare was empty.
LEMMA ExecuteShare ==
  ASSUME ShareInv, NEW d \in Devices, Execute(d), Types'
  PROVE  ShareInv'
<1>0. PICK finds \in Outcomes(d) :
        /\ flight' = IF Resolver.async THEN [flight EXCEPT ![d] = finds] ELSE flight
        /\ result' = [result EXCEPT ![d] =
             [label |-> cur[d].job, found |-> IF Resolver.async THEN flight[d] ELSE finds]]
  BY DEF Execute
<1> DEFINE harvest == IF Resolver.async THEN flight[d] ELSE finds
<1>1. Types /\ Records /\ Places /\ Winners /\ Once /\ Labels /\ Sound
  BY DEF ShareInv
<1>2. /\ ~aborted /\ result[d].found = {} /\ cur[d].job \in 1..Len(jobs)
      /\ cur[d].batch < MaxBatches
      /\ flight' = IF Resolver.async THEN [flight EXCEPT ![d] = finds] ELSE flight
      /\ result' = [result EXCEPT ![d] = [label |-> cur[d].job, found |-> harvest]]
      /\ cur' = [cur EXCEPT ![d].batch = @ + 1]
      /\ UNCHANGED <<kind, loop, occupancy, jobs, next, aborted, replies, stats, accepted, rejected>>
  <2>1. /\ ~aborted /\ result[d].found = {} /\ next = cur[d].job /\ next # 0
        /\ cur[d].batch < MaxBatches
        /\ cur' = [cur EXCEPT ![d].batch = @ + 1]
        /\ UNCHANGED <<kind, loop, occupancy, jobs, next, aborted, replies, stats, accepted, rejected>>
    BY DEF Execute, Submits, pool
  <2>2. cur[d].job \in 1..Len(jobs)
    BY <1>1, <2>1 DEF Types
  <2> QED
    BY <1>0, <2>1, <2>2
<1>3. KeepsJobs
  BY <1>1, <1>2, JobsStay
<1>4. \A w \in finds : /\ w \in Wins /\ Found(w, d)
                       /\ w.job = cur[d].job /\ w.batch = cur[d].batch
  BY <1>1, <1>2, OutcomeFound
<1>5. /\ \A f \in Devices : f # d => /\ flight'[f] = flight[f] /\ result'[f] = result[f]
                                     /\ cur'[f] = cur[f]
      /\ flight'[d] = IF Resolver.async THEN finds ELSE flight[d]
      /\ result'[d] = [label |-> cur[d].job, found |-> harvest]
      /\ cur'[d].job = cur[d].job /\ cur'[d].batch = cur[d].batch + 1
  BY <1>1, <1>2 DEF Types, Records
<1>6. \A w : Found(w, d) /\ Before(w, cur[d]) => w \notin finds /\ Before(w, cur'[d])
  <2> SUFFICES ASSUME NEW w, Found(w, d), Before(w, cur[d])
               PROVE  w \notin finds /\ Before(w, cur'[d])
    OBVIOUS
  <2>1. w.job \in 1..Len(jobs) /\ w.batch \in 0..(MaxBatches - 1)
    BY DEF Found
  <2>2. w.job \in Nat /\ w.batch \in Nat /\ cur[d].job \in Nat /\ cur[d].batch \in Nat
    <3>1. cur[d].job \in Nat /\ cur[d].batch \in Nat
      BY <1>1 DEF Types
    <3>2. w.batch \in Nat
      BY <2>1, SizesAssumption
    <3>3. Len(jobs) \in Nat
      BY <1>1 DEF Types
    <3> QED
      BY <2>1, <3>1, <3>2, <3>3
  <2> QED
    BY <1>4, <1>5, <2>2 DEF Before
<1>7. \A w \in finds : Before(w, cur'[d])
  BY <1>1, <1>4, <1>5 DEF Before, Types
<1>8. Records'
  <2>1. finds \subseteq Wins /\ cur[d].job \in Nat
    BY <1>1, <1>4 DEF Types
  <2>2. harvest \subseteq Wins
    BY <1>1, <2>1 DEF Records
  <2>3. flight' \in [Devices -> SUBSET Wins]
    BY <1>1, <1>2, <2>1 DEF Records
  <2>4. result' \in [Devices -> [label : Nat, found : SUBSET Wins]]
    <3>1. [label |-> cur[d].job, found |-> harvest] \in [label : Nat, found : SUBSET Wins]
      BY <2>1, <2>2
    <3> HIDE DEF harvest
    <3> QED
      BY <1>1, <1>2, <3>1 DEF Records
  <2> QED
    BY <1>1, <1>2, <2>3, <2>4 DEF Records
<1>9. Places'
  BY <1>1, <1>2, <1>5 DEF Places
<1>10. Winners'
  <2>1. \A w, f : Found(w, f) => Found(w, f)'
    BY <1>1, <1>3, FoundKept
  <2>2. \A f \in Devices : \A w \in flight'[f] \cup result'[f].found :
           Found(w, f) /\ Before(w, cur'[f])
    <3>1. \A w \in flight[d] \cup finds : Found(w, d) /\ Before(w, cur'[d])
      BY <1>1, <1>4, <1>6, <1>7 DEF Winners
    <3>2. flight'[d] \cup result'[d].found \subseteq flight[d] \cup finds
      BY <1>5
    <3> QED
      BY <1>1, <1>5, <3>1, <3>2 DEF Winners
  <2>3. \A s \in Judged : s.dev \in Devices /\ Found(s.win, s.dev) /\ Before(s.win, cur'[s.dev])
    BY <1>1, <1>5, <1>6 DEF Winners
  <2> QED
    BY <1>2, <2>1, <2>2, <2>3 DEF Winners, Judged, Before
<1>11. Once'
  <2>1. flight'[d] \cap result'[d].found = {}
    <3>1. CASE Resolver.async
      <4>1. \A w \in flight[d] : w \notin finds
        BY <1>1, <1>6 DEF Winners
      <4> QED
        BY <1>5, <3>1, <4>1
    <3>2. CASE ~Resolver.async
      BY <1>1, <1>5, <3>2 DEF Labels
    <3> QED
      BY <3>1, <3>2
  <2>2. \A s \in Judged : s.win \notin flight'[s.dev] \cup result'[s.dev].found
    <3> SUFFICES ASSUME NEW s \in Judged, s.dev = d
                 PROVE  s.win \notin flight'[d] \cup result'[d].found
      BY <1>1, <1>5 DEF Winners, Once
    <3>1. s.win \notin flight[d] /\ s.win \notin finds
      BY <1>1, <1>6 DEF Winners, Once
    <3> QED
      BY <1>5, <3>1
  <2> QED
    BY <1>1, <1>2, <1>5, <2>1, <2>2 DEF Once, Judged
<1>12. Labels'
  <2>1. Resolver' = Resolver
    BY <1>3, Frame
  <2>2. ~Resolver.async => flight'[d] = {} /\ \A w \in result'[d].found : w.job = result'[d].label
    BY <1>1, <1>4, <1>5 DEF Labels
  <2>3. result'[d].label \in 1..Len(jobs)
    BY <1>2, <1>5
  <2> QED
    BY <1>1, <1>2, <1>5, <2>1, <2>2, <2>3 DEF Labels
<1>13. Sound'
  BY <1>1, <1>2, <1>3, SoundKept DEF Sound
<1>14. RejectedExplained' /\ CountedOnce' /\ Answers'
  BY <1>2, <1>3, NothingJudged, NoAnswers
<1> QED
  BY <1>8, <1>9, <1>10, <1>11, <1>12, <1>13, <1>14 DEF ShareInv

-----------------------------------------------------------------------------
(***************************************************************************)
(* Counting.                                                               *)
(***************************************************************************)

Hit(r, d, V) == IF r.dev = d /\ r.valid \in V THEN 1 ELSE 0
From(s, d) == IF s.dev = d THEN 1 ELSE 0

LEMMA WaitingFinite ==
  ASSUME NEW R, NEW q \in Seq(R), NEW d, NEW V
  PROVE  /\ IsFiniteSet(Waiting(q, d, V)) /\ Cardinality(Waiting(q, d, V)) \in Nat
         /\ Waiting(q, d, V) \subseteq 1..Len(q)
<1>1. Waiting(q, d, V) \subseteq 1..Len(q) /\ Len(q) \in Nat
  BY DEF Waiting
<1>2. IsFiniteSet(1..Len(q))
  BY <1>1, FS_Interval
<1>3. IsFiniteSet(Waiting(q, d, V))
  BY <1>1, <1>2, FS_Subset
<1> QED
  BY <1>1, <1>3, FS_CardinalityType

\* An answer that is sent waits.
LEMMA WaitingAppended ==
  ASSUME NEW R, NEW q \in Seq(R), NEW r \in R, NEW d, NEW V
  PROVE  Cardinality(Waiting(Append(q, r), d, V))
           = Cardinality(Waiting(q, d, V)) + Hit(r, d, V)
<1> DEFINE n == Len(q) + 1
           p == Append(q, r)
<1>1. /\ p \in Seq(R) /\ Len(p) = n /\ n \in Nat /\ p[n] = r
      /\ \A i \in 1..Len(q) : p[i] = q[i]
      /\ DOMAIN p = 1..n /\ DOMAIN q = 1..Len(q)
  OBVIOUS
<1> HIDE DEF p, n
<1>2. 1..n = 1..Len(q) \cup {n} /\ n \notin 1..Len(q)
  BY DEF n
<1>3. Waiting(p, d, V) = Waiting(q, d, V) \cup (IF r.dev = d /\ r.valid \in V THEN {n} ELSE {})
  BY <1>1, <1>2 DEF Waiting
<1>4. n \notin Waiting(q, d, V) /\ IsFiniteSet(Waiting(q, d, V)) /\ Cardinality(Waiting(q, d, V)) \in Nat
  BY <1>2, WaitingFinite
<1>5. CASE r.dev = d /\ r.valid \in V
  <2>1. Cardinality(Waiting(q, d, V) \cup {n}) = Cardinality(Waiting(q, d, V)) + 1
    BY <1>4, FS_AddElement
  <2>2. Waiting(p, d, V) = Waiting(q, d, V) \cup {n}
    BY <1>3, <1>5
  <2> QED
    BY <1>5, <2>1, <2>2 DEF Hit, p
<1>6. CASE ~(r.dev = d /\ r.valid \in V)
  <2>1. Waiting(p, d, V) = Waiting(q, d, V)
    BY <1>3, <1>6
  <2> QED
    BY <1>4, <1>6, <2>1 DEF Hit, p
<1> QED
  BY <1>5, <1>6

\* An answer that is taken does not wait any more.
LEMMA WaitingTaken ==
  ASSUME NEW R, NEW q \in Seq(R), q # <<>>, NEW d, NEW V
  PROVE  Cardinality(Waiting(q, d, V))
           = Cardinality(Waiting(Tail(q), d, V)) + Hit(Head(q), d, V)
<1> DEFINE p == Tail(q)
           W == Waiting(q, d, V)
           U == Waiting(p, d, V)
           f == [i \in W \ {1} |-> i - 1]
<1>1. /\ p \in Seq(R) /\ Len(q) \in Nat /\ Len(q) >= 1 /\ Len(p) = Len(q) - 1
      /\ \A i \in 1..Len(p) : p[i] = q[i + 1]
      /\ Head(q) = q[1] /\ DOMAIN q = 1..Len(q) /\ DOMAIN p = 1..Len(p)
  OBVIOUS
<1>2. IsFiniteSet(W) /\ IsFiniteSet(U) /\ Cardinality(W) \in Nat /\ Cardinality(U) \in Nat
  BY <1>1, WaitingFinite
<1> HIDE DEF p
<1>3. \A i \in W \ {1} : i \in Nat /\ i - 1 \in U
  BY <1>1 DEF Waiting
<1>4. \A j \in U : j \in Nat /\ j + 1 \in W \ {1}
  BY <1>1 DEF Waiting
<1>5. f \in Bijection(W \ {1}, U)
  <2> HIDE DEF W, U
  <2>1. f \in [W \ {1} -> U]
    BY <1>3
  <2>2. \A i, j \in W \ {1} : f[i] = f[j] => i = j
    BY <1>3
  <2>3. \A j \in U : \E i \in W \ {1} : f[i] = j
    BY <1>4
  <2> HIDE DEF f
  <2> QED
    BY <2>1, <2>2, <2>3 DEF Bijection, Injection, Surjection, IsInjective
<1>6. IsFiniteSet(W \ {1}) /\ Cardinality(W \ {1}) = Cardinality(U)
  <2>1. IsFiniteSet(W \ {1})
    BY <1>2, FS_RemoveElement
  <2>2. ExistsBijection(W \ {1}, U)
    BY <1>5 DEF ExistsBijection
  <2> QED
    BY <2>1, <2>2, FS_Bijection
<1>7. 1 \in W <=> Head(q).dev = d /\ Head(q).valid \in V
  BY <1>1 DEF Waiting
<1>8. Cardinality(W \ {1}) = IF 1 \in W THEN Cardinality(W) - 1 ELSE Cardinality(W)
  BY <1>2, FS_RemoveElement
<1> HIDE DEF W, U
<1>9. Cardinality(W) = Cardinality(U) + Hit(Head(q), d, V)
  BY <1>2, <1>6, <1>7, <1>8 DEF Hit
<1> QED
  BY <1>9 DEF W, U, p

\* A share that is judged is one more of its device.
LEMMA SentByAdded ==
  ASSUME NEW S, IsFiniteSet(S), NEW s, s \notin S, NEW d
  PROVE  /\ Cardinality(SentBy(S, d)) \in Nat
         /\ Cardinality(SentBy(S \cup {s}, d)) = Cardinality(SentBy(S, d)) + From(s, d)
<1>1. IsFiniteSet(SentBy(S, d)) /\ s \notin SentBy(S, d)
  BY FS_Subset DEF SentBy
<1>2. Cardinality(SentBy(S, d)) \in Nat
  BY <1>1, FS_CardinalityType
<1>3. CASE s.dev = d
  <2>1. SentBy(S \cup {s}, d) = SentBy(S, d) \cup {s}
    BY <1>3 DEF SentBy
  <2> QED
    BY <1>1, <1>2, <1>3, <2>1, FS_AddElement DEF From
<1>4. CASE s.dev # d
  <2>1. SentBy(S \cup {s}, d) = SentBy(S, d)
    BY <1>4 DEF SentBy
  <2> QED
    BY <1>2, <1>4, <2>1 DEF From
<1> QED
  BY <1>2, <1>3, <1>4

\* A sum of two grows by what is added to one, and stays when one is moved.
LEMMA SumGrows ==
  ASSUME NEW v \in Nat, NEW w \in Nat, NEW o \in Nat, NEW s, v + w = s
  PROVE  v + (w + o) = s + o
  OBVIOUS

LEMMA SumMoves ==
  ASSUME NEW v \in Nat, NEW w \in Nat, NEW o \in Nat
  PROVE  (v + o) + w = v + (w + o)
  OBVIOUS

\* CountedOnce for one device.
Balanced(d) ==
  /\ stats[d].total = stats[d].valid + stats[d].invalid
  /\ stats[d].valid + Cardinality(Waiting(replies, d, {TRUE})) = Cardinality(SentBy(accepted, d))
  /\ stats[d].invalid + Cardinality(Waiting(replies, d, {FALSE})) = Cardinality(SentBy(rejected, d))

LEMMA CountedBalanced == CountedOnce <=> \A d \in Devices : Balanced(d)
  BY DEF CountedOnce, Balanced, Waiting, SentBy

\* A device submits one of its nonces, and the pool judges it.
LEMMA SubmitOneShare ==
  ASSUME ShareInv, NEW d \in Devices, SubmitOne(d), Types'
  PROVE  ShareInv'
<1>1. Types /\ Records /\ Places /\ Winners /\ Once /\ Labels /\ Sound /\ Answers
  BY DEF ShareInv
<1>2. /\ ~aborted
      /\ UNCHANGED <<kind, loop, occupancy, jobs, next, cur, flight, stats>>
  BY DEF SubmitOne, pool
<1>3. KeepsJobs /\ Resolver' = Resolver
  BY <1>1, <1>2, JobsStay, Frame
<1>4. PICK w \in result[d].found :
        LET label == result[d].label
            size == Extra(label).size
        IN  IF Throws(w.nonce, size)
            THEN /\ aborted' = TRUE
                 /\ UNCHANGED <<cur, flight, result, pool>>
            ELSE /\ result' = [result EXCEPT ![d].found = @ \ {w}]
                 /\ Judge([dev |-> d, request |-> RequestId(d), label |-> label,
                           header |-> IF Resolver.header THEN Len(jobs) ELSE label,
                           text |-> Text(w.nonce, size), win |-> w])
                 /\ UNCHANGED <<cur, flight, stats, aborted>>
  BY DEF SubmitOne
<1>0. PICK label : label = result[d].label
  OBVIOUS
<1>9. PICK size : size = Extra(label).size
  OBVIOUS
<1>8. PICK s : s = [dev |-> d, request |-> RequestId(d), label |-> label,
                    header |-> IF Resolver.header THEN Len(jobs) ELSE label,
                    text |-> Text(w.nonce, size), win |-> w]
  OBVIOUS
<1>5. label \in 1..Len(jobs) /\ Found(w, d) /\ Before(w, cur[d])
  BY <1>0, <1>1 DEF Labels, Winners
<1>6. CASE Throws(w.nonce, size)
  <2>1. aborted' = TRUE /\ UNCHANGED <<device, accepted, rejected, replies, stats, result>>
    BY <1>0, <1>4, <1>6, <1>9 DEF pool, device
  <2>2. Winners' /\ Once' /\ Labels' /\ Sound' /\ CountedOnce' /\ Answers'
    BY <1>3, <2>1, DevicesKept, NoAnswers
  <2>3. Records' /\ Places'
    BY <1>1, <1>2, <2>1 DEF Records, Places
  <2>4. \A x \in rejected : Explained(x)'
    BY <1>1, <1>3, <2>1, ExplainedKept DEF ShareInv, RejectedExplained, Explained
  <2>5. Resolver.write = "plain suffix" /\ HasLeadingZero(w.nonce)
    <3>1. size \in 1..Width /\ Width \in Nat
      BY <1>1, <1>5, <1>9, JobType, SizeType
    <3>2. CutsExtraNonce /\ Written(w.nonce).digits < size
      BY <1>6 DEF Throws
    <3>3. Resolver.write = "plain suffix"
      <4>1. Written(w.nonce).digits # Width
        BY <3>1, <3>2
      <4> QED
        BY <3>2, <4>1 DEF CutsExtraNonce, Written, PaddedText
    <3>4. Written(w.nonce).digits = Digits(w.nonce)
      BY <3>3 DEF Written, PlainText
    <3>5. Digits(w.nonce) \in 1..Width
      BY <1>5, DigitsType DEF Found
    <3>6. Digits(w.nonce) < Width
      BY <3>1, <3>2, <3>4, <3>5
    <3> QED
      BY <3>3, <3>6 DEF HasLeadingZero
  <2>6. RejectedExplained'
    BY <1>3, <2>1, <2>4, <2>5 DEF RejectedExplained, Explained
  <2> QED
    BY <2>2, <2>3, <2>6 DEF ShareInv
<1>7. CASE ~Throws(w.nonce, size)
  <2>1. /\ result' = [result EXCEPT ![d].found = @ \ {w}]
        /\ aborted' = aborted
        /\ replies' = Append(replies, [dev |-> d, request |-> RequestId(d), valid |-> Accepts(s)])
        /\ \/ Accepts(s) /\ accepted' = accepted \cup {s} /\ rejected' = rejected
           \/ ~Accepts(s) /\ rejected' = rejected \cup {s} /\ accepted' = accepted
    BY <1>0, <1>4, <1>7, <1>8, <1>9 DEF Judge
  <2>2. /\ s.dev = d /\ s.win = w /\ s.label = label /\ s.request = RequestId(d)
        /\ s.header = (IF Resolver.header THEN Len(jobs) ELSE label)
        /\ s.text = Text(w.nonce, Extra(label).size)
    BY <1>8, <1>9
  <2>3. Accepts(s) \in BOOLEAN
    BY DEF Accepts
  <2>4. ~Accepts(s) => Explained(s)
    BY <1>0, <2>2, RejectionExplained
  <2>5. s \notin accepted /\ s \notin rejected
    BY <1>1, <2>2 DEF Once, Judged
  <2>6. /\ \A f \in Devices : f # d => result'[f] = result[f]
        /\ result'[d].found = result[d].found \ {w} /\ result'[d].label = label
    BY <1>0, <1>1, <2>1 DEF Records
  <2>7. Judged' = Judged \cup {s}
    BY <2>1 DEF Judged
  <2>8. RequestId(d) \in Nat
    <3>1. d \in Nat
      BY Sized DEF Devices
    <3> QED
      BY <3>1 DEF RequestId
  <2> DEFINE r == [dev |-> d, request |-> RequestId(d), valid |-> Accepts(s)]
             R == [dev : Devices, request : Nat, valid : BOOLEAN]
  <2>9. r \in R /\ replies \in Seq(R)
    BY <1>1, <2>3, <2>8 DEF Records
  <2>10. Records'
    <3>1. result' \in [Devices -> [label : Nat, found : SUBSET Wins]]
      BY <1>1, <2>1 DEF Records
    <3>2. replies' \in Seq(R)
      <4> HIDE DEF r, R
      <4>1. replies' = Append(replies, r)
        BY <2>1 DEF r
      <4> QED
        BY <2>9, <4>1
    <3>3. IsFiniteSet(accepted') /\ IsFiniteSet(rejected')
      <4>1. IsFiniteSet(accepted \cup {s}) /\ IsFiniteSet(rejected \cup {s})
        BY <1>1, FS_AddElement DEF Records
      <4> QED
        BY <1>1, <2>1, <4>1 DEF Records
    <3> QED
      BY <1>1, <1>2, <3>1, <3>2, <3>3 DEF Records
  <2>11. Places'
    BY <1>1, <1>2 DEF Places
  <2>12. Winners'
    <3>1. \A v, f : Found(v, f) => Found(v, f)'
      BY <1>1, <1>3, FoundKept
    <3>2. \A f \in Devices : flight'[f] \cup result'[f].found \subseteq flight[f] \cup result[f].found
      BY <1>2, <2>6
    <3>3. \A x \in Judged' : x.dev \in Devices /\ Found(x.win, x.dev) /\ Before(x.win, cur[x.dev])
      BY <1>1, <1>5, <2>2, <2>7 DEF Winners
    <3>4. \A f \in Devices : \A v \in flight'[f] \cup result'[f].found :
             Found(v, f) /\ Before(v, cur[f])
      BY <1>1, <3>2 DEF Winners
    <3> QED
      BY <1>2, <3>1, <3>3, <3>4 DEF Winners, Before
  <2>13. Once'
    <3>1. \A f \in Devices : flight'[f] \cap result'[f].found = {}
      BY <1>1, <1>2, <2>6 DEF Once
    <3>2. \A x \in Judged : x.win \notin flight'[x.dev] \cup result'[x.dev].found
      BY <1>1, <1>2, <2>6 DEF Once, Winners
    <3>3. s.win \notin flight'[s.dev] \cup result'[s.dev].found
      BY <1>1, <1>2, <2>2, <2>6 DEF Once
    <3> QED
      BY <2>7, <3>1, <3>2, <3>3 DEF Once
  <2>14. Labels'
    BY <1>0, <1>1, <1>2, <1>3, <2>6 DEF Labels
  <2>15. Sound'
    <3>1. \A t \in accepted : /\ t.win.job = t.label
                              /\ t.text = Text(t.win.nonce, Extra(t.label).size)'
                              /\ ReadBack(t.text, Extra(t.label))' = t.win.hashed
                              /\ t.win.hashed # NoNonce
      BY <1>1, <1>3, SoundKept
    <3>2. Accepts(s) => /\ s.win.job = s.label
                        /\ s.text = Text(s.win.nonce, Extra(s.label).size)'
                        /\ ReadBack(s.text, Extra(s.label))' = s.win.hashed
                        /\ s.win.hashed # NoNonce
      <4>1. Extra(label)' = Extra(label)
        BY <1>3, <1>5, Frame
      <4>2. Text(w.nonce, Extra(label).size)' = Text(w.nonce, Extra(label).size)
        BY <1>3, <4>1 DEF Text, Written, CutsExtraNonce
      <4>3. ReadBack(s.text, Extra(label))' = ReadBack(s.text, Extra(label))
        BY <1>3, <4>1 DEF ReadBack, CutsExtraNonce
      <4>4. Accepts(s) => /\ s.win.job = s.label /\ s.win.hashed # NoNonce
                          /\ ReadBack(s.text, Extra(s.label)) = s.win.hashed
        BY DEF Accepts
      <4> QED
        BY <2>2, <4>2, <4>3, <4>4
    <3> QED
      BY <2>1, <3>1, <3>2 DEF Sound
  <2>16. Answers'
    <3> HIDE DEF R
    <3>1. Len(replies') = Len(replies) + 1 /\ DOMAIN replies' = 1..Len(replies')
          /\ replies'[Len(replies) + 1] = r /\ \A i \in 1..Len(replies) : replies'[i] = replies[i]
          /\ DOMAIN replies = 1..Len(replies) /\ Len(replies) \in Nat
      <4> HIDE DEF r
      <4>1. replies' = Append(replies, r)
        BY <2>1 DEF r
      <4> QED
        BY <2>9, <4>1
    <3> QED
      BY <1>1, <3>1 DEF Answers, RequestId
  <2>17. RejectedExplained'
    <3>1. \A x \in rejected : Explained(x)'
      BY <1>1, <1>3, <2>1, ExplainedKept DEF ShareInv, RejectedExplained, Explained
    <3>2. ~Accepts(s) => Explained(s)'
      <4>1. /\ loop' = loop /\ HalfFilled' = HalfFilled /\ StaysInBatch' = StaysInBatch
            /\ ~Accepts(s) => (Repeated(s) => Repeated(s)')
        BY <1>2, <1>3, <2>1, Frame DEF Repeated
      <4>2. \A x \in accepted \cup {s} : Extra(x.win.job)' = Extra(x.win.job)
        BY <1>2 DEF Extra
      <4> QED
        BY <1>3, <2>1, <2>4, <4>1, <4>2 DEF Explained
    <3>3. \A x \in rejected' : Explained(x)'
      BY <2>1, <3>1, <3>2
    <3> QED
      BY <1>2, <2>1, <3>3 DEF RejectedExplained, Explained
  <2>18. CountedOnce'
    <3> SUFFICES ASSUME NEW f \in Devices PROVE Balanced(f)'
      BY DEF CountedOnce, Balanced, Waiting, SentBy
    <3>1. Balanced(f)
      BY CountedBalanced DEF ShareInv
    <3> HIDE DEF R
    <3>2. \A V : Cardinality(Waiting(replies', f, V))
                   = Cardinality(Waiting(replies, f, V)) + Hit(r, f, V)
      <4>1. replies' = Append(replies, r) /\ r.dev = d /\ r.valid = Accepts(s)
        BY <2>1
      <4> HIDE DEF r
      <4> QED
        BY <2>9, <4>1, WaitingAppended
    <3>3. /\ Cardinality(Waiting(replies, f, {TRUE})) \in Nat
          /\ Cardinality(Waiting(replies, f, {FALSE})) \in Nat
      BY <2>9, WaitingFinite
    <3>4. /\ Cardinality(SentBy(accepted, f)) \in Nat /\ Cardinality(SentBy(rejected, f)) \in Nat
          /\ Cardinality(SentBy(accepted \cup {s}, f)) = Cardinality(SentBy(accepted, f)) + From(s, f)
          /\ Cardinality(SentBy(rejected \cup {s}, f)) = Cardinality(SentBy(rejected, f)) + From(s, f)
      <4>1. IsFiniteSet(accepted) /\ IsFiniteSet(rejected) /\ s.dev = d
        BY <1>1, <2>2 DEF Records
      <4> QED
        BY <2>5, <4>1, SentByAdded
    <3>5. stats[f].valid \in Nat /\ stats[f].invalid \in Nat
      BY <1>1 DEF Records
    <3>6. CASE Accepts(s)
      <4>1. Hit(r, f, {TRUE}) = From(s, f) /\ Hit(r, f, {FALSE}) = 0
        BY <2>2, <2>3, <3>6 DEF Hit, From
      <4>2. accepted' = accepted \cup {s} /\ rejected' = rejected
        BY <2>1, <3>6
      <4>3. From(s, f) \in Nat
        BY DEF Hit, From
      <4>4. /\ Cardinality(Waiting(replies', f, {TRUE}))
                 = Cardinality(Waiting(replies, f, {TRUE})) + From(s, f)
            /\ Cardinality(Waiting(replies', f, {FALSE}))
                 = Cardinality(Waiting(replies, f, {FALSE})) + 0
        BY <3>2, <4>1
      <4>5. /\ Cardinality(SentBy(accepted', f)) = Cardinality(SentBy(accepted, f)) + From(s, f)
            /\ Cardinality(SentBy(rejected', f)) = Cardinality(SentBy(rejected, f)) + 0
        BY <3>4, <4>2
      <4>6. /\ stats[f].valid + Cardinality(Waiting(replies', f, {TRUE})) = Cardinality(SentBy(accepted', f))
            /\ stats[f].invalid + Cardinality(Waiting(replies', f, {FALSE})) = Cardinality(SentBy(rejected', f))
        <5>1. /\ stats[f].valid + Cardinality(Waiting(replies, f, {TRUE})) = Cardinality(SentBy(accepted, f))
              /\ stats[f].invalid + Cardinality(Waiting(replies, f, {FALSE})) = Cardinality(SentBy(rejected, f))
          BY <3>1 DEF Balanced
        <5>2. stats[f].valid + (Cardinality(Waiting(replies, f, {TRUE})) + From(s, f))
                = Cardinality(SentBy(accepted, f)) + From(s, f)
          BY <3>3, <3>5, <4>3, <5>1, SumGrows
        <5>3. /\ Cardinality(Waiting(replies, f, {FALSE})) + 0 = Cardinality(Waiting(replies, f, {FALSE}))
              /\ Cardinality(SentBy(rejected, f)) + 0 = Cardinality(SentBy(rejected, f))
          BY <3>3, <3>4
        <5> QED
          BY <4>4, <4>5, <5>1, <5>2, <5>3
      <4> QED
        BY <1>2, <3>1, <4>6 DEF Balanced
    <3>7. CASE ~Accepts(s)
      <4>1. Hit(r, f, {FALSE}) = From(s, f) /\ Hit(r, f, {TRUE}) = 0
        BY <2>2, <2>3, <3>7 DEF Hit, From
      <4>2. rejected' = rejected \cup {s} /\ accepted' = accepted
        BY <2>1, <3>7
      <4>3. From(s, f) \in Nat
        BY DEF Hit, From
      <4>4. /\ Cardinality(Waiting(replies', f, {TRUE}))
                 = Cardinality(Waiting(replies, f, {TRUE})) + 0
            /\ Cardinality(Waiting(replies', f, {FALSE}))
                 = Cardinality(Waiting(replies, f, {FALSE})) + From(s, f)
        BY <3>2, <4>1
      <4>5. /\ Cardinality(SentBy(accepted', f)) = Cardinality(SentBy(accepted, f)) + 0
            /\ Cardinality(SentBy(rejected', f)) = Cardinality(SentBy(rejected, f)) + From(s, f)
        BY <3>4, <4>2
      <4>6. /\ stats[f].valid + Cardinality(Waiting(replies', f, {TRUE})) = Cardinality(SentBy(accepted', f))
            /\ stats[f].invalid + Cardinality(Waiting(replies', f, {FALSE})) = Cardinality(SentBy(rejected', f))
        <5>1. /\ stats[f].valid + Cardinality(Waiting(replies, f, {TRUE})) = Cardinality(SentBy(accepted, f))
              /\ stats[f].invalid + Cardinality(Waiting(replies, f, {FALSE})) = Cardinality(SentBy(rejected, f))
          BY <3>1 DEF Balanced
        <5>2. stats[f].invalid + (Cardinality(Waiting(replies, f, {FALSE})) + From(s, f))
                = Cardinality(SentBy(rejected, f)) + From(s, f)
          BY <3>3, <3>5, <4>3, <5>1, SumGrows
        <5>3. /\ Cardinality(Waiting(replies, f, {TRUE})) + 0 = Cardinality(Waiting(replies, f, {TRUE}))
              /\ Cardinality(SentBy(accepted, f)) + 0 = Cardinality(SentBy(accepted, f))
          BY <3>3, <3>4
        <5> QED
          BY <4>4, <4>5, <5>1, <5>2, <5>3
      <4> QED
        BY <1>2, <3>1, <4>6 DEF Balanced
    <3> QED
      BY <3>6, <3>7
  <2> QED
    BY <2>10, <2>11, <2>12, <2>13, <2>14, <2>15, <2>16, <2>17, <2>18 DEF ShareInv
<1> QED
  BY <1>6, <1>7

\* An answer is counted for the device of its request.
LEMMA OnShareStatusShare ==
  ASSUME ShareInv, OnShareStatus, Types'
  PROVE  ShareInv'
<1>1. Types /\ Records /\ Places /\ Winners /\ Once /\ Labels /\ Sound /\ Answers
  BY DEF ShareInv
<1>2. /\ ~aborted /\ replies # <<>>
      /\ stats' = [d \in Devices |-> IF (d + 1) * 1000 = Head(replies).request
                                     THEN Counted(stats[d], Head(replies).valid) ELSE stats[d]]
      /\ replies' = Tail(replies)
      /\ UNCHANGED <<kind, loop, occupancy, jobs, next, device, accepted, rejected, aborted>>
  BY DEF OnShareStatus
<1>3. KeepsJobs
  BY <1>1, <1>2, JobsStay
<1>4. Winners' /\ Once' /\ Labels' /\ Sound'
  BY <1>2, <1>3, DevicesKept
<1>5. RejectedExplained'
  BY <1>2, <1>3, NothingJudged
<1>6. Places'
  BY <1>1, <1>2 DEF Places, device
<1> DEFINE R == [dev : Devices, request : Nat, valid : BOOLEAN]
           h == Head(replies)
<1>7. replies \in Seq(R)
  BY <1>1 DEF Records
<1>8. /\ h \in R /\ h = replies[1] /\ 1 \in DOMAIN replies
      /\ replies' \in Seq(R)
      /\ \A i \in DOMAIN replies' : i + 1 \in DOMAIN replies /\ replies'[i] = replies[i + 1]
  <2> HIDE DEF R
  <2> QED
    BY <1>2, <1>7
<1>9. h.dev \in Devices /\ h.valid \in BOOLEAN /\ h.request = RequestId(h.dev)
  BY <1>1, <1>8 DEF Answers
<1>10. Answers'
  BY <1>1, <1>8 DEF Answers, RequestId
<1>11. \A d \in Devices : stats'[d] = IF d = h.dev THEN Counted(stats[d], h.valid) ELSE stats[d]
  <2> SUFFICES ASSUME NEW d \in Devices
               PROVE  (d + 1) * 1000 = (h.dev + 1) * 1000 <=> d = h.dev
    BY <1>2, <1>9 DEF RequestId
  <2>1. d \in Nat /\ h.dev \in Nat
    BY <1>9, Sized DEF Devices
  <2> QED
    BY <2>1
<1>12. Records'
  <2>1. \A d \in Devices : stats'[d] \in [total : Nat, valid : Nat, invalid : Nat]
    <3> SUFFICES ASSUME NEW d \in Devices
                 PROVE  stats'[d] \in [total : Nat, valid : Nat, invalid : Nat]
      OBVIOUS
    <3>1. /\ stats[d] \in [total : Nat, valid : Nat, invalid : Nat]
          /\ stats[d].total \in Nat /\ stats[d].valid \in Nat /\ stats[d].invalid \in Nat
      BY <1>1 DEF Records
    <3>2. Counted(stats[d], h.valid) \in [total : Nat, valid : Nat, invalid : Nat]
      BY <3>1 DEF Counted
    <3> HIDE DEF h
    <3> QED
      BY <1>11, <3>1, <3>2
  <2>2. stats' \in [Devices -> [total : Nat, valid : Nat, invalid : Nat]]
    <3>1. stats' = [d \in Devices |-> stats'[d]]
      BY <1>2
    <3> QED
      BY <2>1, <3>1
  <2> QED
    BY <1>1, <1>2, <1>8, <2>2 DEF Records, device
<1>13. CountedOnce'
  <2> SUFFICES ASSUME NEW d \in Devices PROVE Balanced(d)'
    BY DEF CountedOnce, Balanced, Waiting, SentBy
  <2>1. Balanced(d)
    BY CountedBalanced DEF ShareInv
  <2>2. \A V : Cardinality(Waiting(replies, d, V))
                 = Cardinality(Waiting(replies', d, V)) + Hit(h, d, V)
    <3> HIDE DEF R
    <3> QED
      BY <1>2, <1>7, WaitingTaken
  <2>3. /\ Cardinality(Waiting(replies', d, {TRUE})) \in Nat
        /\ Cardinality(Waiting(replies', d, {FALSE})) \in Nat
    <3> HIDE DEF R
    <3> QED
      BY <1>8, WaitingFinite
  <2>4. stats[d].total \in Nat /\ stats[d].valid \in Nat /\ stats[d].invalid \in Nat
    BY <1>1 DEF Records
  <2>5. /\ stats'[d].total = stats'[d].valid + stats'[d].invalid
        /\ stats'[d].valid = stats[d].valid + Hit(h, d, {TRUE})
        /\ stats'[d].invalid = stats[d].invalid + Hit(h, d, {FALSE})
    <3>1. stats[d].total = stats[d].valid + stats[d].invalid
      BY <2>1 DEF Balanced
    <3>5. stats[d].total + 1 = (stats[d].valid + 1) + stats[d].invalid
          /\ stats[d].total + 1 = stats[d].valid + (stats[d].invalid + 1)
          /\ stats[d].valid + 0 = stats[d].valid /\ stats[d].invalid + 0 = stats[d].invalid
      BY <2>4, <3>1
    <3>2. CASE d = h.dev /\ h.valid = TRUE
      <4>1. stats'[d] = [total |-> stats[d].total + 1, valid |-> stats[d].valid + 1,
                         invalid |-> stats[d].invalid]
        BY <1>11, <3>2 DEF Counted
      <4>2. Hit(h, d, {TRUE}) = 1
        BY <3>2, Zenon DEF Hit, From
      <4>3. Hit(h, d, {FALSE}) = 0
        BY <3>2, Zenon DEF Hit, From
      <4> HIDE DEF h
      <4> QED
        BY <3>5, <4>1, <4>2, <4>3
    <3>3. CASE d = h.dev /\ h.valid = FALSE
      <4>1. stats'[d] = [total |-> stats[d].total + 1, valid |-> stats[d].valid,
                         invalid |-> stats[d].invalid + 1]
        BY <1>11, <3>3 DEF Counted
      <4>2. Hit(h, d, {FALSE}) = 1
        BY <3>3, Zenon DEF Hit, From
      <4>3. Hit(h, d, {TRUE}) = 0
        BY <3>3, Zenon DEF Hit, From
      <4> HIDE DEF h
      <4> QED
        BY <3>5, <4>1, <4>2, <4>3
    <3>4. CASE d # h.dev
      <4>1. stats'[d] = stats[d]
        BY <1>11, <3>4
      <4>2. Hit(h, d, {FALSE}) = 0 /\ Hit(h, d, {TRUE}) = 0
        BY <3>4, Zenon DEF Hit, From
      <4> HIDE DEF h
      <4> QED
        BY <3>1, <3>5, <4>1, <4>2
    <3>6. h.valid = TRUE \/ h.valid = FALSE
      BY <1>9
    <3> QED
      BY <3>2, <3>3, <3>4, <3>6
  <2>6. Hit(h, d, {TRUE}) \in Nat /\ Hit(h, d, {FALSE}) \in Nat
    BY DEF Hit, From
  <2>7. /\ Cardinality(Waiting(replies, d, {TRUE}))
             = Cardinality(Waiting(replies', d, {TRUE})) + Hit(h, d, {TRUE})
        /\ Cardinality(Waiting(replies, d, {FALSE}))
             = Cardinality(Waiting(replies', d, {FALSE})) + Hit(h, d, {FALSE})
    BY <2>2
  <2>8. accepted' = accepted /\ rejected' = rejected
    BY <1>2
  <2> HIDE DEF h
  <2>9. /\ stats'[d].valid + Cardinality(Waiting(replies', d, {TRUE})) = Cardinality(SentBy(accepted', d))
        /\ stats'[d].invalid + Cardinality(Waiting(replies', d, {FALSE})) = Cardinality(SentBy(rejected', d))
    <3>1. /\ stats[d].valid + Cardinality(Waiting(replies, d, {TRUE})) = Cardinality(SentBy(accepted', d))
          /\ stats[d].invalid + Cardinality(Waiting(replies, d, {FALSE})) = Cardinality(SentBy(rejected', d))
      BY <2>1, <2>8 DEF Balanced
    <3>2. /\ (stats[d].valid + Hit(h, d, {TRUE})) + Cardinality(Waiting(replies', d, {TRUE}))
               = stats[d].valid + (Cardinality(Waiting(replies', d, {TRUE})) + Hit(h, d, {TRUE}))
          /\ (stats[d].invalid + Hit(h, d, {FALSE})) + Cardinality(Waiting(replies', d, {FALSE}))
               = stats[d].invalid + (Cardinality(Waiting(replies', d, {FALSE})) + Hit(h, d, {FALSE}))
      BY <2>3, <2>4, <2>6, SumMoves
    <3> QED
      BY <2>5, <2>7, <3>1, <3>2
  <2> QED
    BY <2>5, <2>9 DEF Balanced
<1> QED
  BY <1>4, <1>5, <1>6, <1>10, <1>12, <1>13 DEF ShareInv

\* A step that changes nothing.
LEMMA StutterShare ==
  ASSUME ShareInv, UNCHANGED vars, Types'
  PROVE  ShareInv'
<1>1. UNCHANGED <<kind, loop, occupancy, jobs, next, device, cur, flight, result, replies, stats, accepted,
                  rejected, aborted>>
  BY DEF vars, device, pool
<1>2. Types /\ KeepsJobs
  BY <1>1, JobsStay DEF ShareInv
<1>3. Winners' /\ Once' /\ Labels' /\ Sound' /\ CountedOnce' /\ Answers'
  BY <1>1, <1>2, DevicesKept, NoAnswers
<1>4. Records' /\ Places'
  BY <1>1 DEF ShareInv, Records, Places
<1>5. RejectedExplained'
  <2>1. \A s \in rejected : Explained(s)'
    BY <1>1, <1>2, ExplainedKept DEF ShareInv, RejectedExplained, Explained
  <2>2. Resolver' = Resolver
    BY <1>2, Frame
  <2>3. \A j : Extra(j)' = Extra(j)
    BY <1>1 DEF Extra
  <2> QED
    BY <1>1, <2>1, <2>2, <2>3 DEF ShareInv, RejectedExplained, Explained
<1> QED
  BY <1>3, <1>4, <1>5 DEF ShareInv

LEMMA InitShare == Init => ShareInv
<1> SUFFICES ASSUME Init PROVE ShareInv
  OBVIOUS
<1>1. Types
  BY InitTypes
<1>2. /\ flight = [d \in Devices |-> {}] /\ result = [d \in Devices |-> NoResult] /\ replies = <<>>
      /\ stats = [d \in Devices |-> [total |-> 0, valid |-> 0, invalid |-> 0]]
      /\ aborted = FALSE /\ accepted = {} /\ rejected = {} /\ next = 0
      /\ cur = [d \in Devices |-> [job |-> 0, batch |-> 0]]
  BY DEF Init
<1>3. Records
  BY <1>2, FS_EmptySet DEF Records, NoResult
<1>4. Places /\ Winners /\ Once /\ Labels /\ Sound /\ Answers
  BY <1>2 DEF Places, Winners, Once, Labels, Sound, Answers, Judged, NoResult
<1>5. RejectedExplained
  BY <1>2 DEF RejectedExplained
<1>6. CountedOnce
  <2> SUFFICES ASSUME NEW d \in Devices PROVE Balanced(d)
    BY CountedBalanced
  <2>1. /\ Waiting(replies, d, {TRUE}) = {} /\ Waiting(replies, d, {FALSE}) = {}
        /\ SentBy(accepted, d) = {} /\ SentBy(rejected, d) = {}
    BY <1>2 DEF Waiting, SentBy
  <2> QED
    <3>1. Cardinality({}) = 0 /\ 0 + 0 = 0
      BY FS_EmptySet
    <3>2. stats[d].total = 0 /\ stats[d].valid = 0 /\ stats[d].invalid = 0
      BY <1>2
    <3> QED
      BY <2>1, <3>1, <3>2 DEF Balanced
<1> QED
  BY <1>1, <1>3, <1>4, <1>5, <1>6 DEF ShareInv

LEMMA NextShare == ShareInv /\ [Next]_vars => ShareInv'
<1> SUFFICES ASSUME ShareInv, [Next]_vars PROVE ShareInv'
  OBVIOUS
<1>1. Types'
  BY StepTypes DEF ShareInv
<1>2. ASSUME NEW e \in ExtraNonces, NEW k \in Offsets, NewJob(e, (StartNonce(e) + k) % Space)
      PROVE  ShareInv'
  <2>1. (StartNonce(e) + k) % Space \in Nat
    <3>1. StartNonce(e) \in Nat /\ k \in Nat
      BY RoomType, SizesAssumption
    <3> QED
      BY <3>1, SpaceType
  <2> QED
    BY <1>1, <1>2, <2>1, NewJobShare
<1>3. ASSUME NEW d \in Devices, TakeJob(d) PROVE ShareInv'
  BY <1>1, <1>3, TakeJobShare
<1>4. ASSUME NEW d \in Devices, Execute(d) PROVE ShareInv'
  BY <1>1, <1>4, ExecuteShare
<1>5. ASSUME NEW d \in Devices, SubmitOne(d) PROVE ShareInv'
  BY <1>1, <1>5, SubmitOneShare
<1>6. CASE OnShareStatus
  BY <1>1, <1>6, OnShareStatusShare
<1>7. CASE UNCHANGED vars
  BY <1>1, <1>7, StutterShare
<1> QED
  BY <1>2, <1>3, <1>4, <1>5, <1>6, <1>7 DEF Next

LEMMA ShareInductive == Spec => []ShareInv
  BY InitShare, NextShare, PTL DEF Spec

\* Whatever the extranonces, the resolvers, the sizes of the batches and the number of
\* devices: a share that the pool refuses was sent under the wrong job, with the
\* wrong header or with a nonce the kernel did not hash, lacks leading zeros, or comes
\* from a device beyond its slice (updateBatchNonce, getResultCache, the submit of each
\* resolver, setExtraNonce, onUpdateJob). In particular no nonce is refused because
\* its device, or another, had sent it before.
THEOREM RejectionsExplained == Spec => []RejectedExplained
<1>1. ShareInv => RejectedExplained
  BY DEF ShareInv
<1> QED
  BY <1>1, ShareInductive, PTL

\* However many shares are on their way, an answer is counted once, for the device that
\* sent the share: the request ids of two devices differ, and a nonce leaves
\* resultShare when it is sent (miningSubmit, onShareStatus, increaseShare).
THEOREM SharesCounted == Spec => []CountedOnce
<1>1. ShareInv => CountedOnce
  BY DEF ShareInv
<1> QED
  BY <1>1, ShareInductive, PTL
=============================================================================
