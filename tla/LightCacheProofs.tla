-------------------------- MODULE LightCacheProofs --------------------------
(***************************************************************************)
(* What LightCache promises for every set of devices, resolvers and        *)
(* epochs: no light cache is deleted under a device that uploads it unless *)
(* a resolver frees twice, and it is given back when every device is done. *)
(***************************************************************************)
EXTENDS LightCache, FiniteSetTheorems, TLAPS

\* The count never exceeds the number of calls of build() while it is balanced.
CountBound == Balanced => shared.count <= updates

\* From build() to the end of the upload a device points to an allocated light
\* cache of its epoch.
CacheLive ==
  \A d \in Devices :
    (Balanced /\ onCPU /\ pc[d] \in {"check", "upload"} /\ job[d] <= MaxEpoch)
      => ctx[d].cache \in heap /\ ctx[d].cache[2] = job[d]

\* A shared context of an epoch the algorithm has is backed by its light cache.
SharedLive ==
  (onCPU /\ shared.epoch \in Epochs /\ shared.epoch <= MaxEpoch)
    => shared.cache \in heap /\ shared.cache[2] = shared.epoch

IInv ==
  /\ TypeOK
  /\ allocs <= updates
  /\ CountCoversHolders
  /\ CountBound
  /\ CacheLive
  /\ SharedLive

\* Decrementing modulo the number of values, when the count is not zero.
LEMMA ModPred ==
  ASSUME NEW n \in Nat, NEW c \in 1..(n - 1)
  PROVE  (c + n - 1) % n = c - 1
  <1>1. c + n - 1 = n * 1 + (c - 1) /\ c - 1 \in 0..(n - 1)
    OBVIOUS
  <1>2. QED
    BY <1>1, Z3

\* Incrementing below the largest value does not wrap.
LEMMA ModSucc ==
  ASSUME NEW n \in Nat, NEW c \in Nat, c + 1 < n
  PROVE  (c + 1) % n = c + 1
  OBVIOUS

LEMMA ModRange ==
  ASSUME NEW n \in Nat, n > 0, NEW c \in Nat
  PROVE  c % n \in 0..(n - 1)
  OBVIOUS

-----------------------------------------------------------------------------
(***************************************************************************)
(* What the calls of ContextGenerator do.                                  *)
(***************************************************************************)

SharedType == [count : 0..(CountModulus - 1), epoch : Epochs \cup {NoEpoch},
               sized : BOOLEAN, cache : Caches \cup {NoCache}]

LEMMA ReleaseFacts ==
  ASSUME shared \in SharedType, heap \subseteq Caches, Release(shared)
  PROVE  /\ shared' \in SharedType
         /\ heap' \subseteq heap
         /\ shared.count >= 1 => shared'.count = shared.count - 1
         /\ shared'.count # 0 => heap' = heap
         /\ \/ shared'.epoch = NoEpoch
            \/ /\ heap' = heap /\ shared'.epoch = shared.epoch
               /\ shared'.cache = shared.cache
  <1> DEFINE n == (shared.count + CountModulus - 1) % CountModulus
  <1>1. shared.count \in 0..(CountModulus - 1) /\ CountModulus \in Nat /\ CountModulus > 0
    BY CountAssumption DEF SharedType
  <1>2. n \in 0..(CountModulus - 1)
    <2>1. shared.count + CountModulus - 1 \in Nat
      BY <1>1
    <2>2. QED
      BY <1>1, <2>1, ModRange
  <1>3. shared.count >= 1 => n = shared.count - 1
    BY <1>1, ModPred
  <1> HIDE DEF n
  <1>4. CASE n = 0
    <2>1. /\ heap' = heap \ {shared.cache}
          /\ shared' = [shared EXCEPT !.count = 0, !.epoch = NoEpoch, !.cache = NoCache]
      BY <1>4 DEF Release, n
    <2>2. /\ shared' = [count |-> 0, epoch |-> NoEpoch, sized |-> shared.sized,
                       cache |-> NoCache]
          /\ shared.sized \in BOOLEAN
      BY <2>1 DEF SharedType
    <2>3. shared' \in SharedType /\ shared'.count = 0 /\ shared'.epoch = NoEpoch
      BY <2>2, <1>1 DEF SharedType
    <2>4. shared.count >= 1 => shared.count - 1 = 0
      BY <1>3, <1>4
    <2>5. QED
      BY <2>1, <2>3, <2>4
  <1>5. CASE n # 0
    <2>1. heap' = heap /\ shared' = [shared EXCEPT !.count = n]
      BY <1>5 DEF Release, n
    <2>2. QED
      BY <2>1, <1>1, <1>2, <1>3 DEF SharedType
  <1>6. QED
    BY <1>4, <1>5

\* build() by device d for epoch e, in any of its three outcomes.
Built(d, e) == BuildSame(d, e) \/ BuildRefused(d, e) \/ BuildNew(d, e)

LEMMA BuiltFacts ==
  ASSUME NEW d \in Devices, NEW e \in Epochs, TypeOK, allocs <= updates,
         updates < MaxUpdates, SharedLive, Built(d, e)
  PROVE  /\ shared' \in SharedType
         /\ heap \subseteq heap' /\ heap' \subseteq Caches
         /\ allocs' \in 0..MaxUpdates /\ allocs' <= updates + 1
         /\ ctx' \in [Devices -> [epoch : Epochs \cup {NoEpoch}, sized : BOOLEAN,
                                  cache : Caches \cup {NoCache}]]
         /\ \A b \in Devices : b # d => ctx'[b] = ctx[b]
         /\ shared.count + 1 < CountModulus => shared'.count = shared.count + 1
         /\ onCPU /\ shared'.epoch \in Epochs /\ shared'.epoch <= MaxEpoch
              => shared'.cache \in heap' /\ shared'.cache[2] = shared'.epoch
         /\ onCPU /\ e <= MaxEpoch
              => ctx'[d].cache \in heap' /\ ctx'[d].cache[2] = e
  <1> DEFINE n == (shared.count + 1) % CountModulus
             Contexts == [epoch : Epochs \cup {NoEpoch}, sized : BOOLEAN,
                          cache : Caches \cup {NoCache}]
  <1>1. /\ shared \in SharedType /\ heap \subseteq Caches /\ ctx \in [Devices -> Contexts]
        /\ allocs \in 0..MaxUpdates /\ updates \in 0..MaxUpdates /\ onCPU \in BOOLEAN
        /\ CountModulus \in Nat /\ CountModulus > 0 /\ MaxUpdates \in Nat
    BY CountAssumption DEF TypeOK, SharedType
  <1>2. /\ shared.count \in Nat /\ shared.epoch \in Epochs \cup {NoEpoch}
        /\ shared.sized \in BOOLEAN /\ shared.cache \in Caches \cup {NoCache}
    BY <1>1 DEF SharedType
  <1>3. n \in 0..(CountModulus - 1)
    <2>1. shared.count + 1 \in Nat
      BY <1>2
    <2>2. QED
      BY <2>1, <1>1, ModRange
  <1>4. shared.count + 1 < CountModulus => n = shared.count + 1
    BY <1>1, <1>2, ModSucc
  <1> HIDE DEF n
  <1>5. CASE BuildSame(d, e)
    <2>1. /\ shared.epoch = e /\ heap' = heap /\ allocs' = allocs
          /\ shared' = [shared EXCEPT !.count = n]
          /\ shared'.epoch = shared.epoch /\ shared'.sized = shared.sized
          /\ shared'.cache = shared.cache
          /\ ctx' = [ctx EXCEPT ![d] = [epoch |-> shared'.epoch, sized |-> shared'.sized,
                                        cache |-> shared'.cache]]
      BY <1>5, <1>1 DEF BuildSame, CopyOf, n, SharedType
    <2>2. shared'.epoch = e /\ shared'.count = n /\ shared' \in SharedType
      BY <2>1, <1>1, <1>3 DEF SharedType
    <2>3. /\ ctx' \in [Devices -> Contexts] /\ ctx'[d].cache = shared.cache
          /\ \A b \in Devices : b # d => ctx'[b] = ctx[b]
      BY <2>1, <1>1, <1>2
    <2>4. QED
      BY <2>1, <2>2, <2>3, <1>1, <1>4 DEF SharedLive
  <1>6. CASE BuildRefused(d, e)
    <2>1. /\ e > MaxEpoch /\ heap' = heap /\ allocs' = allocs /\ ctx' = ctx
          /\ shared' = [shared EXCEPT !.count = n, !.epoch = e]
      BY <1>6, <1>1 DEF BuildRefused, n, SharedType
    <2>2. shared'.epoch = e /\ shared'.count = n /\ shared' \in SharedType
      BY <2>1, <1>1, <1>3 DEF SharedType
    <2>3. ~(e <= MaxEpoch)
      BY <2>1, EpochsAssumption
    <2>4. QED
      BY <2>1, <2>2, <2>3, <1>1, <1>4
  <1>7. CASE BuildNew(d, e)
    <2> DEFINE cache == IF onCPU THEN <<allocs + 1, e>> ELSE shared.cache
    <2>1. /\ allocs' = IF onCPU THEN allocs + 1 ELSE allocs
          /\ heap' = IF onCPU THEN heap \cup {cache} ELSE heap
          /\ shared' = [count |-> n, epoch |-> e, sized |-> TRUE, cache |-> cache]
          /\ ctx' = [ctx EXCEPT ![d] = [epoch |-> e, sized |-> TRUE, cache |-> cache]]
      BY <1>7 DEF BuildNew, CopyOf, n
    <2>2. /\ cache \in Caches \cup {NoCache}
          /\ onCPU => cache \in Caches /\ cache \in heap' /\ cache[2] = e
      <3>1. allocs + 1 \in 1..MaxUpdates
        BY <1>1
      <3>2. onCPU => cache = <<allocs + 1, e>> /\ cache \in Caches /\ cache[2] = e
        BY <3>1 DEF Caches
      <3>3. onCPU => cache \in heap'
        BY <2>1
      <3>4. QED
        BY <3>2, <3>3, <1>2
    <2> HIDE DEF cache
    <2>3. /\ shared'.epoch = e /\ shared'.cache = cache /\ shared'.count = n
          /\ shared' \in SharedType
      BY <2>1, <2>2, <1>3 DEF SharedType
    <2>4. /\ ctx' \in [Devices -> Contexts] /\ ctx'[d].cache = cache
          /\ \A b \in Devices : b # d => ctx'[b] = ctx[b]
      BY <2>1, <2>2, <1>1
    <2>5. allocs' \in 0..MaxUpdates /\ allocs' <= updates + 1
      BY <2>1, <1>1
    <2>6. heap \subseteq heap' /\ heap' \subseteq Caches
      BY <2>1, <2>2, <1>1
    <2>7. QED
      BY <2>2, <2>3, <2>4, <2>5, <2>6, <1>4
  <1>8. QED
    BY <1>5, <1>6, <1>7 DEF Built

-----------------------------------------------------------------------------
(***************************************************************************)
(* The counting of the devices that hold the context.                      *)
(***************************************************************************)

LEMMA HoldersFinite ==
  /\ IsFiniteSet(Holders) /\ Cardinality(Holders) \in Nat
  /\ \A d \in Holders : Cardinality(Holders) >= 1
  <1>1. Holders \in SUBSET Devices
    BY DEF Holders
  <1>2. IsFiniteSet(Holders)
    BY <1>1, DevicesAssumption, FS_Subset
  <1>3. Cardinality(Holders) \in Nat
    BY <1>2, FS_CardinalityType
  <1>4. ASSUME NEW d \in Holders PROVE Cardinality(Holders) # 0
    BY <1>2, FS_EmptySet
  <1>5. QED
    BY <1>2, <1>3, <1>4

\* A step that leaves the other devices where they are, and this one counted.
LEMMA HoldersAdd ==
  ASSUME NEW d \in Devices, Holders' = Holders \cup {d}
  PROVE  /\ Cardinality(Holders') <= Cardinality(Holders) + 1
         /\ Cardinality(Holders') \in Nat
  <1>1. IsFiniteSet(Holders) /\ Cardinality(Holders) \in Nat
    BY HoldersFinite
  <1>2. Cardinality(Holders') =
          IF d \in Holders THEN Cardinality(Holders) ELSE Cardinality(Holders) + 1
    BY <1>1, FS_AddElement
  <1>3. QED
    BY <1>1, <1>2

\* A step after which this device is not counted any more.
LEMMA HoldersRemove ==
  ASSUME NEW d \in Devices, d \in Holders, Holders' = Holders \ {d}
  PROVE  Cardinality(Holders') = Cardinality(Holders) - 1
  BY HoldersFinite, FS_RemoveElement

\* A step that counts no device that was not counted before.
LEMMA HoldersFewer ==
  ASSUME Holders' \subseteq Holders
  PROVE  /\ Cardinality(Holders') <= Cardinality(Holders)
         /\ Cardinality(Holders') \in Nat
  <1>1. Holders' \in SUBSET Holders /\ IsFiniteSet(Holders)
    BY HoldersFinite
  <1>2. QED
    BY <1>1, FS_Subset, FS_CardinalityType

-----------------------------------------------------------------------------
(***************************************************************************)
(* The steps. A release on behalf of a device that holds the context keeps *)
(* the invariant when it is not counted afterwards.                        *)
(***************************************************************************)

LEMMA InitIInv == Init => IInv
  <1> SUFFICES ASSUME Init PROVE IInv
    OBVIOUS
  <1>1. Holders = {} /\ Cardinality(Holders) = 0
    BY FS_EmptySet DEF Init, Holders, Holds
  <1>2. TypeOK
    <2>1. kind \in [Devices -> Resolvers]
      BY FamiliesAssumption DEF Init
    <2>2. /\ shared \in [count : 0..(CountModulus - 1), epoch : Epochs \cup {NoEpoch},
                         sized : BOOLEAN, cache : Caches \cup {NoCache}]
          /\ allocs \in 0..MaxUpdates /\ updates \in 0..MaxUpdates
      BY CountAssumption DEF Init
    <2>3. QED
      BY <2>1, <2>2 DEF Init, TypeOK, EmptyContext
  <1>3. allocs <= updates
    BY DEF Init
  <1>4. CountCoversHolders /\ CountBound
    BY <1>1 DEF Init, CountCoversHolders, CountBound
  <1>5. CacheLive
    BY DEF Init, CacheLive
  <1>6. SharedLive
    BY EpochsAssumption DEF Init, SharedLive
  <1>7. QED
    BY <1>2, <1>3, <1>4, <1>5, <1>6 DEF IInv

\* What every step of a device but build() leaves alone.
Kept == UNCHANGED <<onCPU, kind, allocs, job, updates>>

LEMMA BalancedConstant ==
  ASSUME UNCHANGED <<onCPU, kind>>
  PROVE  /\ Balanced' <=> Balanced
         /\ \A d \in Devices : FreesAfterUpload(d)' <=> FreesAfterUpload(d)
         /\ \A d \in Devices : FreeOf(kind'[d]) = FreeOf(kind[d])
  BY DEF Balanced, FreesTwice, FreesAfterUpload

LEMMA ReleaseKeeps ==
  ASSUME IInv, NEW d \in Devices, Kept, Release(shared), ctx' = ctx,
         pc' \in [Devices -> {"mining", "check", "upload", "dag", "dead"}],
         failed' \in BOOLEAN, overlap' \in BOOLEAN,
         \A b \in Devices : b # d => pc'[b] = pc[b],
         pc'[d] \notin {"check", "upload"},
         Balanced => Holds(d) /\ ~Holds(d)'
  PROVE  IInv'
  <1> USE DEF IInv
  <1>1. /\ shared \in SharedType /\ heap \subseteq Caches
        /\ shared.count \in Nat
    BY DEF TypeOK, SharedType
  <1>2. /\ shared' \in SharedType
        /\ heap' \subseteq heap
        /\ shared.count >= 1 => shared'.count = shared.count - 1
        /\ shared'.count # 0 => heap' = heap
        /\ \/ shared'.epoch = NoEpoch
           \/ /\ heap' = heap /\ shared'.epoch = shared.epoch
              /\ shared'.cache = shared.cache
    BY <1>1, ReleaseFacts
  <1>3. Balanced' <=> Balanced
    BY BalancedConstant DEF Kept
  <1>4. TypeOK'
    BY <1>2 DEF TypeOK, SharedType, Kept
  <1>5. (allocs <= updates)'
    BY DEF Kept
  <1>6. ASSUME Balanced
        PROVE  /\ Holders' = Holders \ {d}
               /\ shared'.count = shared.count - 1
               /\ shared'.count >= Cardinality(Holders')
    <2>1. d \in Holders
      BY <1>6 DEF Holders
    <2>2. Holders' = Holders \ {d}
      <3>1. ASSUME NEW b \in Devices, b # d PROVE Holds(b)' <=> Holds(b)
        BY <3>1, BalancedConstant DEF Holds, Kept
      <3>2. QED
        BY <3>1, <1>6 DEF Holders
    <2>3. Cardinality(Holders') = Cardinality(Holders) - 1
      BY <2>1, <2>2, HoldersRemove
    <2>4. Cardinality(Holders) \in Nat /\ Cardinality(Holders) >= 1
      BY <2>1, HoldersFinite
    <2>5. shared.count >= Cardinality(Holders)
      BY <1>6 DEF CountCoversHolders
    <2>6. QED
      BY <2>2, <2>3, <2>4, <2>5, <1>1, <1>2
  <1>7. CountCoversHolders'
    BY <1>3, <1>6 DEF CountCoversHolders
  <1>8. CountBound'
    <2>1. updates' = updates /\ updates \in Nat
      BY DEF Kept, TypeOK
    <2>2. QED
      BY <1>1, <1>3, <1>6, <2>1 DEF CountBound
  <1>9. CacheLive'
    <2> SUFFICES ASSUME NEW b \in Devices, Balanced', onCPU', pc'[b] \in {"check", "upload"},
                        job'[b] <= MaxEpoch
                 PROVE  ctx'[b].cache \in heap' /\ ctx'[b].cache[2] = job'[b]
      BY DEF CacheLive
    <2>1. b # d /\ pc[b] = pc'[b]
      OBVIOUS
    <2>2. ctx[b].cache \in heap /\ ctx[b].cache[2] = job[b]
      BY <2>1, <1>3 DEF CacheLive, Kept
    <2>3. b \in Holders'
      BY DEF Holders, Holds
    <2>4. Cardinality(Holders') >= 1
      <3>1. IsFiniteSet(Holders')
        BY <1>3, <1>6, HoldersFinite, FS_RemoveElement
      <3>2. Cardinality(Holders') \in Nat /\ Cardinality(Holders') # 0
        BY <3>1, <2>3, FS_EmptySet, FS_CardinalityType
      <3>3. QED
        BY <3>2
    <2>5. shared'.count # 0
      <3>1. Cardinality(Holders') \in Nat
        BY <1>3, <1>6, HoldersFinite, FS_RemoveElement, FS_CardinalityType
      <3>2. QED
        BY <3>1, <2>4, <1>3, <1>6
    <2>6. QED
      BY <2>2, <2>5, <1>2 DEF Kept
  <1>10. SharedLive'
    BY <1>2, EpochsAssumption DEF SharedLive, Kept
  <1>11. QED
    BY <1>4, <1>5, <1>7, <1>8, <1>9, <1>10

\* A step of the device that touches neither the context nor the heap.
LEMMA MoveKeeps ==
  ASSUME IInv, NEW d \in Devices, Kept, UNCHANGED <<shared, heap, ctx>>,
         pc' \in [Devices -> {"mining", "check", "upload", "dag", "dead"}],
         failed' \in BOOLEAN, overlap' \in BOOLEAN,
         \A b \in Devices : b # d => pc'[b] = pc[b],
         pc'[d] \in {"check", "upload"} => pc[d] \in {"check", "upload"},
         Holds(d)' => Holds(d)
  PROVE  IInv'
  <1> USE DEF IInv
  <1>1. Balanced' <=> Balanced
    BY BalancedConstant DEF Kept
  <1>2. TypeOK'
    BY DEF TypeOK, Kept
  <1>3. (allocs <= updates)'
    BY DEF Kept
  <1>4. Holders' \subseteq Holders
    <2>1. ASSUME NEW b \in Devices, b # d PROVE Holds(b)' <=> Holds(b)
      BY <2>1, BalancedConstant DEF Holds, Kept
    <2>2. QED
      BY <2>1 DEF Holders
  <1>5. CountCoversHolders'
    <2>1. /\ Cardinality(Holders') <= Cardinality(Holders)
          /\ Cardinality(Holders) \in Nat /\ Cardinality(Holders') \in Nat
      BY <1>4, HoldersFewer, HoldersFinite
    <2>2. shared.count \in Nat
      BY DEF TypeOK
    <2>3. QED
      BY <1>1, <2>1, <2>2 DEF CountCoversHolders
  <1>6. CountBound'
    BY <1>1 DEF CountBound, Kept
  <1>7. CacheLive'
    BY <1>1 DEF CacheLive, Kept
  <1>8. SharedLive'
    BY DEF SharedLive, Kept
  <1>9. QED
    BY <1>2, <1>3, <1>5, <1>6, <1>7, <1>8

LEMMA BuildKeeps ==
  ASSUME IInv, NEW d \in Devices, NEW e \in Epochs, Build(d, e)
  PROVE  IInv'
  <1> USE DEF IInv
  <1>1. /\ Built(d, e) /\ updates < MaxUpdates /\ updates' = updates + 1
        /\ pc[d] = "mining" /\ pc' = [pc EXCEPT ![d] = "check"]
        /\ job' = [job EXCEPT ![d] = e]
        /\ onCPU' = onCPU /\ kind' = kind /\ failed' = failed
        /\ overlap' = (overlap \/ \E b \in Busy : job[b] # e)
    BY DEF Build, Built, Goto
  <1>2. /\ shared' \in SharedType
        /\ heap \subseteq heap' /\ heap' \subseteq Caches
        /\ allocs' \in 0..MaxUpdates /\ allocs' <= updates + 1
        /\ ctx' \in [Devices -> [epoch : Epochs \cup {NoEpoch}, sized : BOOLEAN,
                                 cache : Caches \cup {NoCache}]]
        /\ \A b \in Devices : b # d => ctx'[b] = ctx[b]
        /\ shared.count + 1 < CountModulus => shared'.count = shared.count + 1
        /\ onCPU /\ shared'.epoch \in Epochs /\ shared'.epoch <= MaxEpoch
             => shared'.cache \in heap' /\ shared'.cache[2] = shared'.epoch
        /\ onCPU /\ e <= MaxEpoch
             => ctx'[d].cache \in heap' /\ ctx'[d].cache[2] = e
    BY <1>1, BuiltFacts
  <1>3. /\ Balanced' <=> Balanced
        /\ \A b \in Devices : FreesAfterUpload(b)' <=> FreesAfterUpload(b)
    BY <1>1, BalancedConstant
  <1>4. TypeOK'
    <2>1. overlap' \in BOOLEAN /\ updates' \in 0..MaxUpdates
      BY <1>1, CountAssumption DEF TypeOK
    <2>2. pc' \in [Devices -> {"mining", "check", "upload", "dag", "dead"}]
      BY <1>1 DEF TypeOK
    <2>3. job' \in [Devices -> Epochs \cup {NoEpoch}]
      BY <1>1 DEF TypeOK
    <2>4. QED
      BY <1>1, <1>2, <2>1, <2>2, <2>3 DEF TypeOK, SharedType
  <1>5. (allocs <= updates)'
    BY <1>1, <1>2
  <1>6. Holders' = Holders \cup {d}
    <2>1. pc'[d] = "check"
      BY <1>1 DEF TypeOK
    <2>2. ASSUME NEW b \in Devices, b # d PROVE Holds(b)' <=> Holds(b)
      BY <1>1, <1>3, <2>2 DEF Holds, TypeOK
    <2>3. QED
      BY <2>1, <2>2 DEF Holders, Holds
  <1>7. Balanced => shared'.count = shared.count + 1 /\ shared.count <= updates
    <2>1. shared.count \in Nat /\ updates \in Nat /\ MaxUpdates \in Nat
      BY CountAssumption DEF TypeOK
    <2>2. QED
      BY <2>1, <1>1, <1>2, CountAssumption DEF CountBound
  <1>8. CountCoversHolders'
    <2>1. /\ Cardinality(Holders') <= Cardinality(Holders) + 1
          /\ Cardinality(Holders') \in Nat
      BY <1>6, HoldersAdd
    <2>2. Cardinality(Holders) \in Nat /\ shared.count \in Nat
      BY HoldersFinite DEF TypeOK
    <2>3. QED
      BY <2>1, <2>2, <1>3, <1>7 DEF CountCoversHolders
  <1>9. CountBound'
    <2>1. shared.count \in Nat /\ updates \in Nat
      BY DEF TypeOK
    <2>2. QED
      BY <2>1, <1>1, <1>3, <1>7 DEF CountBound
  <1>10. CacheLive'
    <2> SUFFICES ASSUME NEW b \in Devices, Balanced', onCPU', pc'[b] \in {"check", "upload"},
                        job'[b] <= MaxEpoch
                 PROVE  ctx'[b].cache \in heap' /\ ctx'[b].cache[2] = job'[b]
      BY DEF CacheLive
    <2>1. CASE b = d
      BY <2>1, <1>1, <1>2 DEF TypeOK
    <2>2. CASE b # d
      <3>1. pc[b] = pc'[b] /\ job[b] = job'[b] /\ ctx'[b] = ctx[b]
        BY <2>2, <1>1, <1>2 DEF TypeOK
      <3>2. ctx[b].cache \in heap /\ ctx[b].cache[2] = job[b]
        BY <3>1, <1>1, <1>3 DEF CacheLive
      <3>3. QED
        BY <3>1, <3>2, <1>2
    <2>3. QED
      BY <2>1, <2>2
  <1>11. SharedLive'
    BY <1>1, <1>2 DEF SharedLive
  <1>12. QED
    BY <1>4, <1>5, <1>8, <1>9, <1>10, <1>11

LEMMA NewResolverKeeps ==
  ASSUME IInv, NEW d \in Devices, NewResolver(d)
  PROVE  IInv'
  <1> USE DEF IInv
  <1>1. /\ updates < MaxUpdates /\ updates' = updates + 1
        /\ pc[d] \in {"mining", "dead"} /\ pc' = [pc EXCEPT ![d] = "mining"]
        /\ ctx' = [ctx EXCEPT ![d] = EmptyContext]
        /\ UNCHANGED <<onCPU, kind, shared, heap, allocs, job, failed, overlap>>
    BY DEF NewResolver, sharedVars
  <1>2. /\ Balanced' <=> Balanced
        /\ \A b \in Devices : FreesAfterUpload(b)' <=> FreesAfterUpload(b)
    BY <1>1, BalancedConstant
  <1>3. TypeOK'
    <2>1. updates' \in 0..MaxUpdates
      BY <1>1, CountAssumption DEF TypeOK
    <2>2. pc' \in [Devices -> {"mining", "check", "upload", "dag", "dead"}]
      BY <1>1 DEF TypeOK
    <2>3. ctx' \in [Devices -> [epoch : Epochs \cup {NoEpoch}, sized : BOOLEAN,
                                cache : Caches \cup {NoCache}]]
      BY <1>1 DEF TypeOK, EmptyContext
    <2>4. QED
      BY <1>1, <2>1, <2>2, <2>3 DEF TypeOK
  <1>4. updates \in Nat /\ allocs \in Nat /\ shared.count \in Nat
    BY DEF TypeOK
  <1>5. (allocs <= updates)'
    BY <1>1, <1>4
  <1>6. Holders' = Holders
    <2>1. ASSUME NEW b \in Devices, b # d PROVE Holds(b)' <=> Holds(b)
      BY <2>1, <1>1, <1>2 DEF Holds, TypeOK
    <2>2. ~Holds(d) /\ ~Holds(d)'
      BY <1>1 DEF Holds, TypeOK
    <2>3. QED
      BY <2>1, <2>2 DEF Holders
  <1>7. CountCoversHolders'
    BY <1>1, <1>2, <1>6 DEF CountCoversHolders
  <1>8. CountBound'
    BY <1>1, <1>2, <1>4 DEF CountBound
  <1>9. CacheLive'
    BY <1>1, <1>2 DEF CacheLive, TypeOK
  <1>10. SharedLive'
    BY <1>1 DEF SharedLive
  <1>11. QED
    BY <1>3, <1>5, <1>7, <1>8, <1>9, <1>10

\* The steps of updateMemory after build().
LEMMA RefuseContextKeeps ==
  ASSUME IInv, NEW d \in Devices, RefuseContext(d)
  PROVE  IInv'
  <1>1. /\ pc[d] = "check" /\ pc' = [pc EXCEPT ![d] = "dead"] /\ Kept /\ ctx' = ctx
        /\ failed' = TRUE /\ overlap' = overlap
    BY DEF RefuseContext, Goto, Kept
  <1>2. /\ pc' \in [Devices -> {"mining", "check", "upload", "dag", "dead"}]
        /\ pc'[d] = "dead" /\ \A b \in Devices : b # d => pc'[b] = pc[b]
        /\ overlap' \in BOOLEAN /\ failed' \in BOOLEAN
    BY <1>1 DEF IInv, TypeOK
  <1>3. Holds(d) /\ ~Holds(d)'
    BY <1>1, <1>2 DEF Holds
  <1>4. CASE FreeOf(kind[d]).onError
    <2>1. Release(shared)
      BY <1>4 DEF RefuseContext
    <2>2. QED
      BY <2>1, <1>1, <1>2, <1>3, ReleaseKeeps
  <1>5. CASE ~FreeOf(kind[d]).onError
    <2>1. UNCHANGED <<shared, heap, ctx>>
      BY <1>1, <1>5 DEF RefuseContext
    <2>2. QED
      BY <2>1, <1>1, <1>2, <1>3, MoveKeeps
  <1>6. QED
    BY <1>4, <1>5

LEMMA BeginUploadKeeps ==
  ASSUME IInv, NEW d \in Devices, BeginUpload(d)
  PROVE  IInv'
  <1>1. /\ pc[d] = "check" /\ pc' = [pc EXCEPT ![d] = "upload"] /\ Kept
        /\ UNCHANGED <<shared, heap, ctx, failed, overlap>>
    BY DEF BeginUpload, Goto, Kept, sharedVars
  <1>2. /\ pc' \in [Devices -> {"mining", "check", "upload", "dag", "dead"}]
        /\ \A b \in Devices : b # d => pc'[b] = pc[b]
        /\ overlap' \in BOOLEAN /\ failed' \in BOOLEAN
    BY <1>1 DEF IInv, TypeOK
  <1>3. QED
    BY <1>1, <1>2, MoveKeeps DEF Holds

LEMMA EndUploadKeeps ==
  ASSUME IInv, NEW d \in Devices, EndUpload(d)
  PROVE  IInv'
  <1>1. /\ pc[d] = "upload" /\ pc' = [pc EXCEPT ![d] = "dag"] /\ Kept /\ ctx' = ctx
        /\ failed' = failed /\ overlap' = overlap
    BY DEF EndUpload, Goto, Kept
  <1>2. /\ pc' \in [Devices -> {"mining", "check", "upload", "dag", "dead"}]
        /\ pc'[d] = "dag" /\ \A b \in Devices : b # d => pc'[b] = pc[b]
        /\ overlap' \in BOOLEAN /\ failed' \in BOOLEAN
    BY <1>1 DEF IInv, TypeOK
  <1>3. Holds(d)
    BY <1>1 DEF Holds
  <1>4. CASE FreesAfterUpload(d)
    <2>1. Release(shared)
      BY <1>4 DEF EndUpload
    <2>2. ~Holds(d)'
      BY <1>1, <1>2, <1>4, BalancedConstant DEF Holds, Kept
    <2>3. QED
      BY <2>1, <2>2, <1>1, <1>2, <1>3, ReleaseKeeps
  <1>5. CASE ~FreesAfterUpload(d)
    <2>1. UNCHANGED <<shared, heap, ctx>>
      BY <1>1, <1>5 DEF EndUpload
    <2>2. QED
      BY <2>1, <1>1, <1>2, <1>3, MoveKeeps
  <1>6. QED
    BY <1>4, <1>5

LEMMA EndUpdateStep ==
  ASSUME IInv, NEW d \in Devices, EndUpdate(d)
  PROVE  IInv'
  <1>1. /\ pc[d] = "dag" /\ pc' = [pc EXCEPT ![d] = "mining"] /\ Kept /\ ctx' = ctx
        /\ failed' = failed /\ overlap' = overlap
    BY DEF EndUpdate, Goto, Kept
  <1>2. /\ pc' \in [Devices -> {"mining", "check", "upload", "dag", "dead"}]
        /\ pc'[d] = "mining" /\ \A b \in Devices : b # d => pc'[b] = pc[b]
        /\ overlap' \in BOOLEAN /\ failed' \in BOOLEAN
    BY <1>1 DEF IInv, TypeOK
  <1>3. ~Holds(d)'
    BY <1>2 DEF Holds
  <1>4. CASE FreeOf(kind[d]).atEnd
    <2>1. Release(shared)
      BY <1>4 DEF EndUpdate
    <2>2. Balanced => Holds(d)
      BY <1>1, <1>4 DEF Holds, Balanced, FreesTwice
    <2>3. QED
      BY <2>1, <2>2, <1>1, <1>2, <1>3, ReleaseKeeps
  <1>5. CASE ~FreeOf(kind[d]).atEnd
    <2>1. UNCHANGED <<shared, heap, ctx>>
      BY <1>1, <1>5 DEF EndUpdate
    <2>2. QED
      BY <2>1, <1>1, <1>2, <1>3, MoveKeeps
  <1>6. QED
    BY <1>4, <1>5

LEMMA UpdateFailsKeeps ==
  ASSUME IInv, NEW d \in Devices, UpdateFails(d)
  PROVE  IInv'
  <1>1. /\ pc' = [pc EXCEPT ![d] = "dead"] /\ Kept /\ failed' = TRUE
        /\ UNCHANGED <<shared, heap, ctx, overlap>>
    BY DEF UpdateFails, Kept, sharedVars
  <1>2. /\ pc' \in [Devices -> {"mining", "check", "upload", "dag", "dead"}]
        /\ pc'[d] = "dead" /\ \A b \in Devices : b # d => pc'[b] = pc[b]
        /\ overlap' \in BOOLEAN /\ failed' \in BOOLEAN
    BY <1>1 DEF IInv, TypeOK
  <1>3. ~Holds(d)'
    BY <1>2 DEF Holds
  <1>4. QED
    BY <1>1, <1>2, <1>3, MoveKeeps

LEMMA StutterKeeps == ASSUME IInv, UNCHANGED vars PROVE IInv'
  <1>1. Balanced' <=> Balanced
    BY BalancedConstant DEF vars, sharedVars
  <1>2. Holders' = Holders
    BY DEF Holders, Holds, FreesAfterUpload, vars, sharedVars
  <1>3. QED
    BY <1>1, <1>2 DEF IInv, TypeOK, CountCoversHolders, CountBound, CacheLive, SharedLive,
                      vars, sharedVars

LEMMA NextIInv == IInv /\ [Next]_vars => IInv'
  <1> SUFFICES ASSUME IInv, [Next]_vars PROVE IInv'
    OBVIOUS
  <1>1. ASSUME NEW d \in Devices, Update(d) PROVE IInv'
    <2>1. ASSUME NEW e \in Epochs, Build(d, e) PROVE IInv'
      BY <2>1, BuildKeeps
    <2>2. CASE RefuseContext(d)
      BY <2>2, RefuseContextKeeps
    <2>3. CASE BeginUpload(d)
      BY <2>3, BeginUploadKeeps
    <2>4. CASE EndUpload(d)
      BY <2>4, EndUploadKeeps
    <2>5. CASE EndUpdate(d)
      BY <2>5, EndUpdateStep
    <2>6. CASE UpdateFails(d)
      BY <2>6, UpdateFailsKeeps
    <2>7. CASE NewResolver(d)
      BY <2>7, NewResolverKeeps
    <2>8. QED
      BY <1>1, <2>1, <2>2, <2>3, <2>4, <2>5, <2>6, <2>7 DEF Update
  <1>2. CASE UNCHANGED vars
    BY <1>2, StutterKeeps
  <1>3. QED
    BY <1>1, <1>2 DEF Next

THEOREM Inductive == Spec => []IInv
  BY InitIInv, NextIInv, PTL DEF Spec

-----------------------------------------------------------------------------
\* Type correctness: every context, pointer and count of build() and free() is
\* one the code can hold.
THEOREM TypeCorrect == Spec => []TypeOK
  <1>1. IInv => TypeOK
    BY DEF IInv
  <1>2. QED
    BY <1>1, Inductive, PTL

\* No upload reads a deleted light cache, nor one of another epoch than the job's,
\* unless a resolver calls free() twice (ContextGenerator::build, free and the
\* updateMemory of the AMD and NVIDIA resolvers).
THEOREM UploadsAreSafe == Spec => []UploadsOwnLightCache
  <1>1. IInv => UploadsOwnLightCache
    BY DEF IInv, CacheLive, UploadsOwnLightCache, Uploading
  <1>2. QED
    BY <1>1, Inductive, PTL

\* DagContextShare::count neither misses a device that holds the context nor
\* wraps around.
THEOREM CountIsEnough == Spec => []CountCoversHolders
  <1>1. IInv => CountCoversHolders
    BY DEF IInv
  <1>2. QED
    BY <1>1, Inductive, PTL


-----------------------------------------------------------------------------
(***************************************************************************)
(* The light cache is given back. As long as no device has failed half-way *)
(* and no two epochs were wanted at one time, the count is exact, the one  *)
(* light cache that may be allocated is the shared one, and the devices    *)
(* that hold the context want its epoch: so a new light cache never takes  *)
(* the place of one that nobody could delete any more.                     *)
(***************************************************************************)

Orderly ==
  /\ Balanced /\ ~failed /\ ~overlap
  /\ \A d \in Devices : FreesAfterUpload(d) \/ FreeOf(kind[d]).atEnd

Exact ==
  /\ shared.count = Cardinality(Holders)
  /\ heap \subseteq {shared.cache}
  /\ shared.count = 0 => heap = {}
  /\ \A d \in Holders : job[d] = shared.epoch

QuietInv == Orderly => Exact

LEMMA OrderlyConstant ==
  ASSUME UNCHANGED <<onCPU, kind>>, failed' = failed, overlap' = overlap
  PROVE  Orderly' <=> Orderly
  BY BalancedConstant DEF Orderly

LEMMA InitQuiet == Init => QuietInv
  <1> SUFFICES ASSUME Init PROVE Exact
    BY DEF QuietInv
  <1>1. Holders = {} /\ Cardinality(Holders) = 0
    BY FS_EmptySet DEF Init, Holders, Holds
  <1>2. QED
    BY <1>1 DEF Init, Exact

\* A device that holds the context gives it up.
LEMMA ReleaseQuiet ==
  ASSUME IInv, QuietInv, NEW d \in Devices, Kept, Release(shared),
         failed' = failed, overlap' = overlap,
         \A b \in Devices : b # d => pc'[b] = pc[b],
         Orderly => Holds(d) /\ ~Holds(d)'
  PROVE  QuietInv'
  <1> SUFFICES ASSUME Orderly PROVE Exact'
    BY OrderlyConstant DEF QuietInv, Kept
  <1>1. Exact
    BY DEF QuietInv
  <1>2. d \in Holders
    BY DEF Holders
  <1>3. Holders' = Holders \ {d}
    <2>1. ASSUME NEW b \in Devices, b # d PROVE Holds(b)' <=> Holds(b)
      BY <2>1, BalancedConstant DEF Holds, Kept
    <2>2. QED
      BY <2>1 DEF Holders
  <1>4. Cardinality(Holders') = Cardinality(Holders) - 1
    BY <1>2, <1>3, HoldersRemove
  <1>5. Cardinality(Holders) \in Nat /\ Cardinality(Holders) >= 1
    BY <1>2, HoldersFinite
  <1>6. shared.count >= 1 /\ shared.count = Cardinality(Holders)
    BY <1>1, <1>5 DEF Exact
  <1>7. shared.count \in 0..(CountModulus - 1) /\ CountModulus \in Nat /\ shared \in SharedType
    BY CountAssumption DEF IInv, TypeOK, SharedType
  <1> DEFINE n == (shared.count + CountModulus - 1) % CountModulus
  <1>8. n = shared.count - 1
    <2>1. shared.count \in 1..(CountModulus - 1)
      BY <1>6, <1>7
    <2>2. QED
      BY <2>1, <1>7, ModPred
  <1>9. n = Cardinality(Holders')
    BY <1>4, <1>6, <1>8
  <1> HIDE DEF n
  <1>10. CASE n = 0
    <2>1. /\ heap' = heap \ {shared.cache}
          /\ shared' = [shared EXCEPT !.count = 0, !.epoch = NoEpoch, !.cache = NoCache]
      BY <1>10 DEF Release, n
    <2>2. heap' = {} /\ shared'.count = 0
      BY <2>1, <1>1, <1>7 DEF Exact, SharedType
    <2>3. Holders' = {}
      <3>1. IsFiniteSet(Holders')
        BY <1>3, HoldersFinite, FS_RemoveElement
      <3>2. QED
        BY <3>1, <1>9, <1>10, FS_EmptySet
    <2>4. QED
      BY <2>2, <2>3, <1>9, <1>10 DEF Exact
  <1>11. CASE n # 0
    <2>1. heap' = heap /\ shared' = [shared EXCEPT !.count = n]
      BY <1>11 DEF Release, n
    <2>2. shared'.count = n /\ shared'.epoch = shared.epoch /\ shared'.cache = shared.cache
      BY <2>1, <1>7 DEF SharedType
    <2>3. \A b \in Holders' : job'[b] = shared'.epoch
      BY <2>2, <1>1, <1>3 DEF Exact, Kept
    <2>4. QED
      BY <2>1, <2>2, <2>3, <1>1, <1>9, <1>11 DEF Exact
  <1>12. QED
    BY <1>10, <1>11

\* A device moves on and keeps, or still does not have, its use of the context.
LEMMA MoveQuiet ==
  ASSUME QuietInv, NEW d \in Devices, Kept, UNCHANGED <<shared, heap>>,
         failed' = failed, overlap' = overlap,
         \A b \in Devices : b # d => pc'[b] = pc[b],
         Orderly => (Holds(d)' <=> Holds(d))
  PROVE  QuietInv'
  <1> SUFFICES ASSUME Orderly PROVE Exact'
    BY OrderlyConstant DEF QuietInv, Kept
  <1>1. Holders' = Holders
    <2>1. ASSUME NEW b \in Devices, b # d PROVE Holds(b)' <=> Holds(b)
      BY <2>1, BalancedConstant DEF Holds, Kept
    <2>2. QED
      BY <2>1 DEF Holders
  <1>2. QED
    BY <1>1 DEF QuietInv, Exact, Kept

\* A device asks for an epoch. When the shared context has another one, nobody
\* holds it: a holder would want that other epoch, and two would be wanted at once.
LEMMA BuildQuiet ==
  ASSUME IInv, QuietInv, NEW d \in Devices, NEW e \in Epochs, Build(d, e)
  PROVE  QuietInv'
  <1>1. /\ Built(d, e) /\ updates < MaxUpdates
        /\ pc[d] = "mining" /\ pc' = [pc EXCEPT ![d] = "check"]
        /\ job' = [job EXCEPT ![d] = e]
        /\ onCPU' = onCPU /\ kind' = kind /\ failed' = failed
        /\ overlap' = (overlap \/ \E b \in Busy : job[b] # e)
    BY DEF Build, Built, Goto
  <1>2. /\ Balanced' <=> Balanced
        /\ \A b \in Devices : FreesAfterUpload(b)' <=> FreesAfterUpload(b)
        /\ \A b \in Devices : FreeOf(kind'[b]) = FreeOf(kind[b])
    BY <1>1, BalancedConstant
  <1> SUFFICES ASSUME Orderly' PROVE Exact'
    BY DEF QuietInv
  <1>3. /\ Orderly /\ \A b \in Busy : job[b] = e
        /\ overlap \in BOOLEAN /\ overlap' \in BOOLEAN
    BY <1>1, <1>2 DEF Orderly, IInv, TypeOK
  <1>4. Exact
    BY <1>3 DEF QuietInv
  <1>5. /\ shared \in SharedType /\ shared.count \in Nat /\ updates \in Nat
        /\ pc \in [Devices -> {"mining", "check", "upload", "dag", "dead"}]
        /\ job \in [Devices -> Epochs \cup {NoEpoch}]
    BY DEF IInv, TypeOK, SharedType
  <1>6. Holders' = Holders \cup {d} /\ d \notin Holders
    <2>1. pc'[d] = "check"
      BY <1>1, <1>5
    <2>2. ASSUME NEW b \in Devices, b # d PROVE Holds(b)' <=> Holds(b)
      BY <1>1, <1>2, <1>5, <2>2 DEF Holds
    <2>3. ~Holds(d)
      BY <1>1 DEF Holds
    <2>4. QED
      BY <2>1, <2>2, <2>3 DEF Holders, Holds
  <1>7. Cardinality(Holders') = Cardinality(Holders) + 1
    <2>1. IsFiniteSet(Holders)
      BY HoldersFinite
    <2>2. QED
      BY <2>1, <1>6, FS_AddElement
  <1>8. /\ shared'.count = shared.count + 1
        /\ shared.count + 1 < CountModulus
    <2>1. shared.count <= updates
      BY <1>3 DEF IInv, CountBound, Orderly
    <2>2. shared.count + 1 < CountModulus
      BY <2>1, <1>1, <1>5, CountAssumption
    <2>3. TypeOK /\ allocs <= updates /\ SharedLive
      BY DEF IInv
    <2>4. shared.count + 1 < CountModulus => shared'.count = shared.count + 1
      BY <1>1, <2>3, BuiltFacts
    <2>5. QED
      BY <2>2, <2>4
  <1>9. \A b \in Holders' : job'[b] = e
    <2>1. \A b \in Holders : b \in Busy
      BY DEF Holders, Holds, Busy
    <2>2. QED
      BY <2>1, <1>1, <1>3, <1>5, <1>6
  <1> DEFINE n == (shared.count + 1) % CountModulus
  <1>10. shared'.epoch = e /\ heap' \subseteq {shared'.cache}
    <2>1. CASE BuildSame(d, e)
      <3>1. shared.epoch = e /\ heap' = heap /\ shared' = [shared EXCEPT !.count = n]
        BY <2>1 DEF BuildSame
      <3>2. QED
        BY <3>1, <1>4, <1>5 DEF Exact, SharedType
    <2>2. CASE BuildRefused(d, e)
      <3>1. heap' = heap /\ shared' = [shared EXCEPT !.count = n, !.epoch = e]
        BY <2>2 DEF BuildRefused
      <3>2. QED
        BY <3>1, <1>4, <1>5 DEF Exact, SharedType
    <2>3. CASE BuildNew(d, e)
      <3>1. shared.epoch # e
        BY <2>3 DEF BuildNew
      <3>2. Holders = {}
        <4>1. \A b \in Holders : b \in Busy /\ job[b] = shared.epoch
          BY <1>4 DEF Exact, Holders, Holds, Busy
        <4>2. QED
          BY <3>1, <4>1, <1>3
      <3>3. heap = {}
        BY <3>2, <1>4, FS_EmptySet DEF Exact
      <3>4. PICK cache : /\ shared' = [count |-> n, epoch |-> e, sized |-> TRUE, cache |-> cache]
                         /\ heap' = IF onCPU THEN heap \cup {cache} ELSE heap
        BY <2>3 DEF BuildNew
      <3>5. QED
        BY <3>3, <3>4
    <2>4. QED
      BY <1>1, <2>1, <2>2, <2>3 DEF Built
  <1>11. shared'.count = Cardinality(Holders') /\ shared'.count # 0
    BY <1>4, <1>5, <1>7, <1>8 DEF Exact
  <1>12. QED
    BY <1>9, <1>10, <1>11 DEF Exact

LEMMA NextQuiet == IInv /\ QuietInv /\ [Next]_vars => QuietInv'
  <1> SUFFICES ASSUME IInv, QuietInv, [Next]_vars PROVE QuietInv'
    OBVIOUS
  <1>1. ASSUME NEW d \in Devices, NEW e \in Epochs, Build(d, e) PROVE QuietInv'
    BY <1>1, BuildQuiet
  <1>2. ASSUME NEW d \in Devices, RefuseContext(d) \/ UpdateFails(d) PROVE QuietInv'
    BY <1>2 DEF RefuseContext, UpdateFails, QuietInv, Orderly
  <1>3. ASSUME NEW d \in Devices, BeginUpload(d) PROVE QuietInv'
    <2>1. /\ pc[d] = "check" /\ pc' = [pc EXCEPT ![d] = "upload"] /\ Kept
          /\ UNCHANGED <<shared, heap, failed, overlap>>
      BY <1>3 DEF BeginUpload, Goto, Kept, sharedVars
    <2>2. /\ \A b \in Devices : b # d => pc'[b] = pc[b]
          /\ pc'[d] = "upload"
      BY <2>1 DEF IInv, TypeOK
    <2>3. QED
      BY <2>1, <2>2, MoveQuiet DEF Holds
  <1>4. ASSUME NEW d \in Devices, EndUpload(d) PROVE QuietInv'
    <2>1. /\ pc[d] = "upload" /\ pc' = [pc EXCEPT ![d] = "dag"] /\ Kept
          /\ failed' = failed /\ overlap' = overlap
      BY <1>4 DEF EndUpload, Goto, Kept
    <2>2. /\ \A b \in Devices : b # d => pc'[b] = pc[b]
          /\ pc'[d] = "dag"
      BY <2>1 DEF IInv, TypeOK
    <2>3. FreesAfterUpload(d)' <=> FreesAfterUpload(d)
      BY <2>1, BalancedConstant DEF Kept
    <2>4. CASE FreesAfterUpload(d)
      <3>1. Release(shared) /\ Holds(d) /\ ~Holds(d)'
        BY <2>1, <2>2, <2>3, <2>4, <1>4 DEF EndUpload, Holds
      <3>2. QED
        BY <2>1, <2>2, <3>1, ReleaseQuiet
    <2>5. CASE ~FreesAfterUpload(d)
      <3>1. UNCHANGED <<shared, heap>> /\ Holds(d) /\ Holds(d)'
        BY <2>1, <2>2, <2>3, <2>5, <1>4 DEF EndUpload, Holds
      <3>2. QED
        BY <2>1, <2>2, <3>1, MoveQuiet
    <2>6. QED
      BY <2>4, <2>5
  <1>5. ASSUME NEW d \in Devices, EndUpdate(d) PROVE QuietInv'
    <2>1. /\ pc[d] = "dag" /\ pc' = [pc EXCEPT ![d] = "mining"] /\ Kept
          /\ failed' = failed /\ overlap' = overlap
      BY <1>5 DEF EndUpdate, Goto, Kept
    <2>2. /\ \A b \in Devices : b # d => pc'[b] = pc[b]
          /\ ~Holds(d)'
      BY <2>1 DEF IInv, TypeOK, Holds
    <2>3. CASE FreeOf(kind[d]).atEnd
      <3>1. Release(shared)
        BY <2>3, <1>5 DEF EndUpdate
      <3>2. Orderly => Holds(d)
        BY <2>1, <2>3 DEF Orderly, Balanced, FreesTwice, Holds
      <3>3. QED
        BY <2>1, <2>2, <3>1, <3>2, ReleaseQuiet
    <2>4. CASE ~FreeOf(kind[d]).atEnd
      <3>1. UNCHANGED <<shared, heap>>
        BY <2>4, <1>5 DEF EndUpdate
      <3>2. Orderly => ~Holds(d)
        BY <2>1, <2>4 DEF Orderly, Holds
      <3>3. QED
        BY <2>1, <2>2, <3>1, <3>2, MoveQuiet
    <2>5. QED
      BY <2>3, <2>4
  <1>6. ASSUME NEW d \in Devices, NewResolver(d) PROVE QuietInv'
    <2>1. /\ pc[d] \in {"mining", "dead"} /\ pc' = [pc EXCEPT ![d] = "mining"]
          /\ UNCHANGED <<onCPU, kind, shared, heap, job, failed, overlap>>
      BY <1>6 DEF NewResolver, sharedVars
    <2>2. Holders' = Holders
      <3>1. ASSUME NEW b \in Devices PROVE Holds(b)' <=> Holds(b)
        BY <2>1, BalancedConstant DEF Holds, IInv, TypeOK
      <3>2. QED
        BY <3>1 DEF Holders
    <2>3. Orderly' <=> Orderly
      BY <2>1, OrderlyConstant
    <2>4. QED
      BY <2>1, <2>2, <2>3 DEF QuietInv, Exact
  <1>7. CASE UNCHANGED vars
    <2>1. UNCHANGED <<onCPU, kind, shared, heap, pc, job, failed, overlap>>
      BY <1>7 DEF vars, sharedVars
    <2>2. Holders' = Holders
      BY <2>1 DEF Holders, Holds, FreesAfterUpload
    <2>3. Orderly' <=> Orderly
      BY <2>1, OrderlyConstant
    <2>4. QED
      BY <2>1, <2>2, <2>3 DEF QuietInv, Exact
  <1>8. QED
    BY <1>1, <1>2, <1>3, <1>4, <1>5, <1>6, <1>7 DEF Next, Update

\* The light cache is given back when every device has finished its update, unless
\* a device failed half-way, two epochs were wanted at one time or a resolver does
\* not call free() exactly once (ContextGenerator::build, free and the updateMemory
\* of the AMD and NVIDIA resolvers).
THEOREM LightCacheIsReleased == Spec => []ReleasedWhenQuiet
  <1>1. Init => QuietInv
    BY InitQuiet
  <1>2. IInv /\ QuietInv /\ [Next]_vars => QuietInv'
    BY NextQuiet
  <1>3. IInv /\ QuietInv => ReleasedWhenQuiet
    <2> SUFFICES ASSUME IInv, QuietInv, Orderly, Busy = {}
                 PROVE  heap = {} /\ shared.count = 0
      BY DEF ReleasedWhenQuiet, Orderly
    <2>1. Holders = {}
      BY DEF Holders, Holds, Busy
    <2>2. QED
      BY <2>1, FS_EmptySet DEF QuietInv, Exact
  <1>4. QED
    BY <1>1, <1>2, <1>3, Inductive, PTL DEF Spec
=============================================================================
