------------------------ MODULE ProgpowKernelProofs ------------------------
(***************************************************************************)
(* Proofs about the two writers of a ProgPOW kernel: that they agree, that *)
(* merges spread over the registers and that math has two sources, for any *)
(* number of registers, statements and draws.                              *)
(***************************************************************************)
EXTENDS ProgpowKernel, TLAPS

LEMMA GivenShape ==
  ASSUME NEW v, NEW r \in Nat \ {0, 1}, NEW m \in Nat, NEW n \in Nat, NEW a, a = Given(v, r, m, n)
  PROVE  /\ a.regs \in Nat /\ a.regs >= 2 /\ a.source = a.regs * (a.regs - 1)
         /\ a.cache \in Nat /\ a.math \in Nat /\ a.version = v
BY DEF Given

LEMMA Arguments ==
  ASSUME algorithm \in Algorithms, NEW c \in Cards
  PROVE  \/ Args(c) = Given("progpow", Regs, BaseCache, BaseMath) /\ algorithm = "progpow"
         \/ Args(c) = Given("meowpow", MeowRegs, MeowCache, MeowMath) /\ algorithm = "meowpow"
         \/ /\ Args(c) = Given(algorithm, Regs, Cache, Math)
            /\ algorithm \in {"kawpow", "firopow", "evrprogpow", "quai"}
<1>1. algorithm \in Family
  BY AlgorithmsAssumption
<1>2. CASE c = "nvidia"
  BY <1>1, <1>2 DEF Family, Args, Nvidia, NvidiaProgPOW, NvidiaKawPOW, NvidiaMeowPOW,
                    NvidiaFiroPOW, NvidiaEvrprogPOW, NvidiaQuai
<1>3. CASE c = "amd"
  BY <1>1, <1>3 DEF Family, Args, Amd, AmdProgPOW, AmdKawPOW, AmdMeowPOW, AmdFiroPOW,
                    AmdEvrprogPOW, AmdQuai
<1>4. QED
  BY <1>2, <1>3 DEF Cards

LEMMA ArgsShape ==
  ASSUME algorithm \in Algorithms, NEW c \in Cards
  PROVE  /\ Args(c).regs \in Nat /\ Args(c).regs >= 2
         /\ Args(c).source = Args(c).regs * (Args(c).regs - 1)
         /\ Args(c).cache \in Nat /\ Args(c).math \in Nat
         /\ Args(c).version = algorithm
BY Arguments, GivenShape, RegsAssumption, CountsAssumption

LEMMA SameArgs ==
  ASSUME algorithm \in Algorithms
  PROVE  Args("nvidia") = Args("amd")
BY Arguments DEF Cards

LEMMA SameText ==
  ASSUME algorithm \in Algorithms
  PROVE  Text("nvidia") = Text("amd") /\ Entries("nvidia") = Entries("amd")
<1>1. Args("nvidia").version = algorithm /\ Args("amd").version = algorithm
  BY ArgsShape DEF Cards
<1>2. QED
  BY <1>1, AlgorithmsAssumption
     DEF Family, Text, CudaText, OpenCLText, Cuda, CudaKawPOW, CudaMeowPOW, CudaFiroPOW,
         CudaEvrprogPOW, CudaQuai, OpenCL, OpenCLKawPOW, OpenCLMeowPOW, OpenCLFiroPOW,
         OpenCLEvrprogPOW, OpenCLQuai, Entries, CudaEntries, OpenCLEntries

(***************************************************************************)
(* The two writers stay in the same state: they are given the same         *)
(* arguments and the same numbers, and their texts do not differ.          *)
(***************************************************************************)
Agreement == algorithm \in Algorithms /\ WritersAgree

THEOREM WritersAlwaysAgree == Spec => []WritersAgree
<1>1. Init => Agreement
  <2>1. SUFFICES ASSUME Init PROVE Agreement
    OBVIOUS
  <2>2. algorithm \in Algorithms /\ Args("nvidia") = Args("amd")
    BY <2>1, SameArgs DEF Init
  <2>3. QED
    BY <2>1, <2>2 DEF Init, Agreement, WritersAgree, Cards
<1>2. Agreement /\ [Next]_vars => Agreement'
  <2>1. SUFFICES ASSUME Agreement, [Next]_vars PROVE Agreement'
    OBVIOUS
  <2>2. CASE Draw
    <3>1. PICK d \in Draws : writer' = [c \in Cards |-> Take(c, writer[c], d)]
      BY <2>2 DEF Draw
    <3>2. Take("nvidia", writer["nvidia"], d) = Take("amd", writer["amd"], d)
      BY <2>1, SameArgs, SameText DEF Agreement, WritersAgree, Take
    <3>3. QED
      BY <2>1, <2>2, <3>1, <3>2 DEF Agreement, WritersAgree, Cards, Draw
  <2>3. CASE UNCHANGED vars
    BY <2>1, <2>3 DEF Agreement, WritersAgree, vars
  <2>4. QED
    BY <2>1, <2>2, <2>3 DEF Next, Finished
<1>3. QED
  BY <1>1, <1>2, PTL DEF Spec, Agreement
-----------------------------------------------------------------------------
(***************************************************************************)
(* What a writer has in its record.  The orders stay permutations, and the *)
(* k-th merge goes to the k-th register of its order, going round: two     *)
(* merges less than regs apart are at different places of the order.       *)
(***************************************************************************)
Permutes(a, f) ==
  /\ f \in [Registers(a) -> Registers(a)]
  /\ \A x, y \in Registers(a) : f[x] = f[y] => x = y

Follows(a, s, f) == \A k \in 1..Len(s) : s[k] = f[(k - 1) % a.regs]

TwoRegisters(a, s) ==
  s[1] \in Registers(a) /\ s[2] \in Registers(a) /\ s[1] # s[2]

Sound(a, w) ==
  /\ w \in Writers(a)
  /\ Permutes(a, w.dst) /\ Permutes(a, w.src)
  /\ w.pc \in {"dst", "src"} => w.i \in 1..(a.regs - 1) /\ w.merged = <<>> /\ w.read = <<>>
  /\ w.pc = "src" => w.index \in Registers(a)
  /\ w.dstCnt = Len(w.merged) /\ Follows(a, w.merged, w.dst)
  /\ w.srcCnt = Len(w.read) /\ Follows(a, w.read, w.src)
  /\ w.pc \in {"math", "merge"} => TwoRegisters(a, w.from)
  /\ w.last.kind = "math" => TwoRegisters(a, w.last.from)

Shape(a) ==
  /\ a.regs \in Nat /\ a.regs >= 2 /\ a.source = a.regs * (a.regs - 1)
  /\ a.cache \in Nat /\ a.math \in Nat

TextShape(t) == t.math \in [1..11 -> MathOps] /\ t.merge = Merges /\ t.cache = Merges

LEMMA Texts ==
  ASSUME algorithm \in Algorithms, NEW c \in Cards
  PROVE  TextShape(Text(c)) /\ Entries(c) = Merges
<1>1. Args(c).version = algorithm /\ algorithm \in Family
  BY ArgsShape, AlgorithmsAssumption
<1>2. BitsFirst \in [1..11 -> MathOps] /\ BitsLast \in [1..11 -> MathOps]
  BY DEF BitsFirst, BitsLast, MathOps
<1>3. CASE c = "nvidia"
  BY <1>1, <1>2, <1>3 DEF Family, TextShape, Text, CudaText, Cuda, CudaKawPOW, CudaMeowPOW,
     CudaFiroPOW, CudaEvrprogPOW, CudaQuai, Entries, CudaEntries
<1>4. CASE c = "amd"
  BY <1>1, <1>2, <1>4 DEF Family, TextShape, Text, OpenCLText, OpenCL, OpenCLKawPOW, OpenCLMeowPOW,
     OpenCLFiroPOW, OpenCLEvrprogPOW, OpenCLQuai, Entries, OpenCLEntries
<1>5. QED
  BY <1>3, <1>4 DEF Cards

LEMMA MergeShape ==
  ASSUME NEW d \in Draws
  PROVE  Merge(Merges, d) \in [op : MergeOps \cup {"none"}, rotation : 0..31]
<1>1. d.low \in Nat /\ d.high \in Nat
  BY DrawsAssumption DEF Draws
<1>2. d.low % 4 \in 0..3 /\ d.high % 31 \in 0..30
  BY <1>1
<1>3. Merges[(d.low % 4) + 1] \in MergeOps
  BY <1>2 DEF Merges, MergeOps
<1>4. QED
  BY <1>2, <1>3 DEF Merge

LEMMA QuotientBound ==
  ASSUME NEW r \in Nat, NEW n \in Nat, n < r * (r - 1),
         NEW p \in Nat, NEW q \in Nat, n = r * q + p
  PROVE  q < r - 1
<1>1. SUFFICES ASSUME q >= r - 1 PROVE FALSE
  OBVIOUS
<1>2. r * (r - 1) <= r * q
  BY <1>1, Z3
<1>3. r * (r - 1) \in Nat /\ r * q \in Nat
  OBVIOUS
<1>4. QED
  BY <1>2, <1>3

LEMMA DivisionShape ==
  ASSUME NEW r \in Nat, r >= 2, NEW n \in Nat
  PROVE  n % r \in Nat /\ n % r < r /\ n \div r \in Nat /\ n = r * (n \div r) + (n % r)
BY Z3

\* Two registers from one number: the second one skips the first.
LEMMA SourcesAreTwo ==
  ASSUME NEW a, Shape(a), NEW n \in Nat, n < a.source
  PROVE  Sources(a, n) \in Seq(Nat) /\ TwoRegisters(a, Sources(a, n))
<1>1. a.regs \in Nat /\ a.regs >= 2 /\ n < a.regs * (a.regs - 1)
  BY DEF Shape
<1>2. PICK p, q : p = n % a.regs /\ q = n \div a.regs
  OBVIOUS
<1>3. p \in Nat /\ p < a.regs /\ q \in Nat /\ n = a.regs * q + p
  BY <1>1, <1>2, DivisionShape
<1>4. q < a.regs - 1
  BY <1>1, <1>3, QuotientBound
<1>5. Sources(a, n) = <<p, IF q >= p THEN q + 1 ELSE q>>
  BY <1>2 DEF Sources
<1>6. PICK v : v = IF q >= p THEN q + 1 ELSE q
  OBVIOUS
<1>7. v \in Nat /\ v < a.regs /\ v # p
  BY <1>1, <1>3, <1>4, <1>6
<1>8. Sources(a, n) = <<p, v>>
  BY <1>5, <1>6
<1>9. p \in Registers(a) /\ v \in Registers(a)
  BY <1>1, <1>3, <1>7 DEF Registers
<1>10. <<p, v>> \in Seq(Nat) /\ <<p, v>>[1] = p /\ <<p, v>>[2] = v
  BY <1>3, <1>7
<1>11. QED
  BY <1>7, <1>8, <1>9, <1>10 DEF TwoRegisters

LEMMA SwapPermutes ==
  ASSUME NEW a, NEW f, Permutes(a, f), NEW i \in Registers(a), NEW j \in Registers(a)
  PROVE  Permutes(a, Swap(f, i, j))
BY DEF Permutes, Swap

LEMMA IterationShape ==
  ASSUME NEW a, Shape(a), NEW i \in Nat
  PROVE  Iteration(a, i).pc \in {"cache", "source", "entry", "done"} /\ Iteration(a, i).i \in Nat
BY CountsAssumption DEF Shape, Iteration

LEMMA Extends ==
  ASSUME NEW a, Shape(a), NEW f, Permutes(a, f), NEW s \in Seq(Registers(a)), Follows(a, s, f)
  PROVE  /\ f[Len(s) % a.regs] \in Registers(a)
         /\ Append(s, f[Len(s) % a.regs]) \in Seq(Registers(a))
         /\ Len(Append(s, f[Len(s) % a.regs])) = Len(s) + 1
         /\ Follows(a, Append(s, f[Len(s) % a.regs]), f)
<1>1. Len(s) \in Nat /\ Len(s) % a.regs \in Registers(a)
  BY DEF Shape, Registers
<1>2. f[Len(s) % a.regs] \in Registers(a)
  BY <1>1 DEF Permutes
<1>3. QED
  BY <1>1, <1>2 DEF Follows

-----------------------------------------------------------------------------
(***************************************************************************)
(* Each operation of a writer keeps it sound.                              *)
(***************************************************************************)
LEMMA StartedSound ==
  ASSUME NEW a, Shape(a)
  PROVE  Sound(a, Started(a))
<1>1. Permutes(a, Order(a))
  BY DEF Permutes, Order, Registers, Shape
<1>2. Started(a) \in Writers(a)
  BY <1>1 DEF Started, Writers, Permutes, Shape, Statements, NoStatement, Kinds
<1>3. QED
  BY <1>1, <1>2 DEF Sound, Started, Follows, NoStatement, Shape

LEMMA DrawDstSound ==
  ASSUME NEW a, Shape(a), NEW w, Sound(a, w), w.pc = "dst", NEW d \in Draws
  PROVE  Sound(a, DrawDst(w, d))
<1>1. d.low \in Nat /\ w.i \in 1..(a.regs - 1)
  BY DrawsAssumption DEF Draws, Sound
<1>2. d.low % (w.i + 1) \in Registers(a) /\ d.low % (w.i + 1) \in Nat
  BY <1>1 DEF Registers, Shape
<1>3. QED
  BY <1>2 DEF Sound, DrawDst, Writers

LEMMA DrawSrcSound ==
  ASSUME NEW a, Shape(a), NEW w, Sound(a, w), w.pc = "src", NEW d \in Draws
  PROVE  Sound(a, DrawSrc(a, w, d))
<1> DEFINE j == d.low % (w.i + 1)
           dst == Swap(w.dst, w.i, w.index)
           src == Swap(w.src, w.i, j)
<1>1. d.low \in Nat /\ w.i \in 1..(a.regs - 1) /\ w.i \in Registers(a)
  BY DrawsAssumption DEF Draws, Sound, Registers, Shape
<1>2. j \in Registers(a)
  BY <1>1 DEF Registers, Shape
<1>3. Permutes(a, dst) /\ Permutes(a, src)
  BY <1>1, <1>2, SwapPermutes DEF Sound
<1>4. dst \in [Registers(a) -> Registers(a)] /\ src \in [Registers(a) -> Registers(a)]
  BY <1>3 DEF Permutes
<1>5. PICK x : x = [w EXCEPT !.dst = dst, !.src = src, !.index = 0]
  OBVIOUS
<1> HIDE DEF j, dst, src
<1>6. /\ x \in Writers(a) /\ x.dst = dst /\ x.src = src /\ x.merged = w.merged /\ x.read = w.read
      /\ x.dstCnt = w.dstCnt /\ x.srcCnt = w.srcCnt /\ x.last = w.last /\ x.pc = "src" /\ x.i = w.i
  BY <1>4, <1>5 DEF Sound, Writers
<1>7. w.merged = <<>> /\ w.read = <<>> /\ w.dstCnt = 0 /\ w.srcCnt = 0
      /\ (w.last.kind = "math" => TwoRegisters(a, w.last.from))
  BY DEF Sound
<1>8. CASE w.i > 1
  <2>1. PICK y : y = DrawSrc(a, w, d)
    OBVIOUS
  <2>2. y = [x EXCEPT !.pc = "dst", !.i = x.i - 1]
    BY <1>5, <1>8, <2>1 DEF DrawSrc, j, dst, src
  <2>3. w.i - 1 \in 1..(a.regs - 1) /\ w.i - 1 \in Nat
    BY <1>1, <1>8 DEF Shape
  <2>4. /\ y \in Writers(a) /\ y.pc = "dst" /\ y.i = w.i - 1 /\ y.dst = dst /\ y.src = src
        /\ y.merged = <<>> /\ y.read = <<>> /\ y.dstCnt = 0 /\ y.srcCnt = 0 /\ y.last = w.last
    BY <1>6, <1>7, <2>2, <2>3 DEF Writers
  <2>5. QED
    BY <1>3, <1>7, <2>1, <2>3, <2>4 DEF Sound, Follows
<1>9. CASE ~(w.i > 1)
  <2>1. PICK y, due : y = DrawSrc(a, w, d) /\ due = Iteration(a, 0)
    OBVIOUS
  <2>2. y = [x EXCEPT !.pc = due.pc, !.i = due.i]
    BY <1>5, <1>9, <2>1 DEF DrawSrc, GoTo, j, dst, src
  <2>3. due.pc \in {"cache", "source", "entry", "done"} /\ due.i \in Nat
    BY <2>1, IterationShape
  <2>4. /\ y \in Writers(a) /\ y.pc = due.pc /\ y.dst = dst /\ y.src = src
        /\ y.merged = <<>> /\ y.read = <<>> /\ y.dstCnt = 0 /\ y.srcCnt = 0 /\ y.last = w.last
    BY <1>6, <1>7, <2>2, <2>3 DEF Writers
  <2>5. QED
    BY <1>3, <1>7, <2>1, <2>3, <2>4 DEF Sound, Follows
<1>10. QED
  BY <1>8, <1>9

\* Where a statement is due next: never in the middle of one, nor in the shuffle.
Fresh(due) == due.pc \in {"cache", "source", "entry", "done"} /\ due.i \in Nat

LEMMA TookDstSound ==
  ASSUME NEW a, Shape(a), NEW w, Sound(a, w), w.pc \notin {"dst", "src"}
  PROVE  /\ TakeDst(a, w) \in Registers(a)
         /\ Sound(a, TookDst(w, TakeDst(a, w)))
         /\ TookDst(w, TakeDst(a, w)).pc = w.pc
<1>1. PICK y, to : to = TakeDst(a, w) /\ y = TookDst(w, to)
  OBVIOUS
<1>2. to = w.dst[Len(w.merged) % a.regs] /\ w.merged \in Seq(Registers(a)) /\ Permutes(a, w.dst)
      /\ Follows(a, w.merged, w.dst)
  BY <1>1 DEF TakeDst, Sound, Writers
<1>3. /\ to \in Registers(a) /\ Append(w.merged, to) \in Seq(Registers(a))
      /\ Len(Append(w.merged, to)) = Len(w.merged) + 1
      /\ Follows(a, Append(w.merged, to), w.dst)
  BY <1>2, Extends
<1>4. y = [w EXCEPT !.dstCnt = w.dstCnt + 1, !.merged = Append(w.merged, to)]
  BY <1>1 DEF TookDst
<1>5. /\ y \in Writers(a) /\ y.pc = w.pc /\ y.dst = w.dst /\ y.src = w.src
      /\ y.merged = Append(w.merged, to) /\ y.dstCnt = w.dstCnt + 1
      /\ y.read = w.read /\ y.srcCnt = w.srcCnt /\ y.last = w.last /\ y.from = w.from
  <2>1. w \in Writers(a)
    BY DEF Sound
  <2>2. PICK n, m : n = w.dstCnt + 1 /\ m = Append(w.merged, to)
    OBVIOUS
  <2>3. n \in Nat /\ m \in Seq(Registers(a)) /\ y = [w EXCEPT !.dstCnt = n, !.merged = m]
    BY <1>3, <1>4, <2>1, <2>2 DEF Writers
  <2>4. /\ y \in Writers(a) /\ y.pc = w.pc /\ y.dst = w.dst /\ y.src = w.src
        /\ y.merged = m /\ y.dstCnt = n
        /\ y.read = w.read /\ y.srcCnt = w.srcCnt /\ y.last = w.last /\ y.from = w.from
    BY <2>1, <2>3 DEF Writers
  <2>5. QED
    BY <2>2, <2>4
<1>6. QED
  BY <1>1, <1>3, <1>5 DEF Sound

LEMMA TookSrcSound ==
  ASSUME NEW a, Shape(a), NEW w, Sound(a, w), w.pc \notin {"dst", "src"},
         NEW r, r = w.src[w.srcCnt % a.regs]
  PROVE  /\ r \in Registers(a)
         /\ Sound(a, [w EXCEPT !.srcCnt = w.srcCnt + 1, !.read = Append(w.read, r)])
<1>1. PICK y : y = [w EXCEPT !.srcCnt = w.srcCnt + 1, !.read = Append(w.read, r)]
  OBVIOUS
<1>2. r = w.src[Len(w.read) % a.regs] /\ w.read \in Seq(Registers(a)) /\ Permutes(a, w.src)
      /\ Follows(a, w.read, w.src)
  BY DEF Sound, Writers
<1>3. /\ r \in Registers(a) /\ Append(w.read, r) \in Seq(Registers(a))
      /\ Len(Append(w.read, r)) = Len(w.read) + 1
      /\ Follows(a, Append(w.read, r), w.src)
  BY <1>2, Extends
<1>4. /\ y \in Writers(a) /\ y.pc = w.pc /\ y.dst = w.dst /\ y.src = w.src
      /\ y.merged = w.merged /\ y.dstCnt = w.dstCnt
      /\ y.read = Append(w.read, r) /\ y.srcCnt = w.srcCnt + 1 /\ y.last = w.last /\ y.from = w.from
  <2>1. w \in Writers(a)
    BY DEF Sound
  <2>2. PICK n, m : n = w.srcCnt + 1 /\ m = Append(w.read, r)
    OBVIOUS
  <2>3. n \in Nat /\ m \in Seq(Registers(a)) /\ y = [w EXCEPT !.srcCnt = n, !.read = m]
    BY <1>1, <1>3, <2>1, <2>2 DEF Writers
  <2>4. /\ y \in Writers(a) /\ y.pc = w.pc /\ y.dst = w.dst /\ y.src = w.src
        /\ y.merged = w.merged /\ y.dstCnt = w.dstCnt
        /\ y.read = m /\ y.srcCnt = n /\ y.last = w.last /\ y.from = w.from
    BY <2>1, <2>3 DEF Writers
  <2>5. QED
    BY <2>2, <2>4
<1>5. QED
  BY <1>1, <1>3, <1>4 DEF Sound

LEMMA WriteSound ==
  ASSUME NEW a, Shape(a), NEW w, Sound(a, w), w.pc \notin {"dst", "src"},
         NEW s \in Statements, s.kind \in Kinds, s.kind = "math" => TwoRegisters(a, s.from),
         NEW due, Fresh(due)
  PROVE  /\ Sound(a, Write(w, s, due)) /\ Write(w, s, due).pc \notin {"dst", "src"}
         /\ Write(w, s, due).src = w.src /\ Write(w, s, due).srcCnt = w.srcCnt
         /\ Write(w, s, due).read = w.read
<1>1. PICK y : y = Write(w, s, due)
  OBVIOUS
<1>2. PICK count : count = [w.count EXCEPT ![s.kind] = w.count[s.kind] + 1]
  OBVIOUS
<1>3. count \in [Kinds -> Nat]
  BY <1>2 DEF Sound, Writers
<1>4. PICK x : x = [w EXCEPT !.pc = due.pc, !.i = due.i]
  OBVIOUS
<1>5. /\ x \in Writers(a) /\ x.pc = due.pc /\ x.dst = w.dst /\ x.src = w.src
      /\ x.merged = w.merged /\ x.dstCnt = w.dstCnt
      /\ x.read = w.read /\ x.srcCnt = w.srcCnt /\ x.count = w.count
  BY <1>4 DEF Sound, Writers, Fresh
<1>6. y = [x EXCEPT !.last = s, !.from = <<0, 0>>, !.op = "none", !.count = count]
  <2>1. y = [x EXCEPT !.last = s, !.from = <<0, 0>>, !.op = "none", !.count[s.kind] = @ + 1]
    BY <1>1, <1>4 DEF Write, GoTo
  <2>2. QED
    BY <1>2, <1>5, <2>1
<1>7. /\ y \in Writers(a) /\ y.pc = due.pc /\ y.dst = w.dst /\ y.src = w.src
      /\ y.merged = w.merged /\ y.dstCnt = w.dstCnt
      /\ y.read = w.read /\ y.srcCnt = w.srcCnt /\ y.last = s
  <2>1. <<0, 0>> \in Seq(Nat)
    OBVIOUS
  <2>2. QED
    BY <1>3, <1>5, <1>6, <2>1 DEF Writers
<1>8. QED
  BY <1>1, <1>7 DEF Sound, Fresh

LEMMA WriteCacheSound ==
  ASSUME NEW a, Shape(a), NEW t, TextShape(t), NEW w, Sound(a, w), w.pc = "cache", NEW d \in Draws
  PROVE  Sound(a, WriteCache(a, t, w, d))
<1>1. PICK r, to, x, s, due :
        /\ r = w.src[w.srcCnt % a.regs] /\ to = TakeDst(a, w) /\ x = TookDst(w, to)
        /\ s = [kind |-> "cache", from |-> <<r>>, to |-> to, math |-> "none",
                merge |-> Merge(t.cache, d)]
        /\ due = IF w.i < a.math THEN [pc |-> "source", i |-> w.i] ELSE Iteration(a, w.i + 1)
  OBVIOUS
<1>2. Sound(a, x) /\ x.pc \notin {"dst", "src"} /\ to \in Registers(a)
      /\ x.src = w.src /\ x.srcCnt = w.srcCnt /\ x.read = w.read
  <2>1. w \in Writers(a)
    BY DEF Sound
  <2>2. x = [w EXCEPT !.dstCnt = w.dstCnt + 1, !.merged = Append(w.merged, to)]
    BY <1>1 DEF TookDst
  <2>3. x.src = w.src /\ x.srcCnt = w.srcCnt /\ x.read = w.read
    BY <2>1, <2>2 DEF Writers
  <2>4. QED
    BY <1>1, <2>3, TookDstSound
<1>3. r \in Registers(a)
  BY <1>1, TookSrcSound
<1>4. s \in Statements /\ s.kind = "cache"
  <2>1. Merge(t.cache, d) \in [op : MergeOps \cup {"none"}, rotation : 0..31]
    BY MergeShape DEF TextShape
  <2>2. r \in Nat /\ to \in Nat /\ <<r>> \in Seq(Nat)
    BY <1>2, <1>3 DEF Registers, Shape
  <2>3. QED
    BY <1>1, <2>1, <2>2 DEF Statements, Kinds
<1>5. Fresh(due)
  <2>1. w.i \in Nat
    BY DEF Sound, Writers
  <2>2. QED
    BY <1>1, <2>1, IterationShape DEF Fresh
<1>6. PICK y : y = Write(x, s, due)
  OBVIOUS
<1>7. /\ Sound(a, y) /\ y.pc \notin {"dst", "src"}
      /\ y.src = w.src /\ y.srcCnt = w.srcCnt /\ y.read = w.read
  BY <1>2, <1>4, <1>5, <1>6, WriteSound DEF Kinds
<1>8. WriteCache(a, t, w, d) = [y EXCEPT !.srcCnt = y.srcCnt + 1, !.read = Append(y.read, r)]
  BY <1>1, <1>6 DEF WriteCache
<1>9. r = y.src[y.srcCnt % a.regs]
  BY <1>1, <1>7
<1>10. Sound(a, [y EXCEPT !.srcCnt = y.srcCnt + 1, !.read = Append(y.read, r)])
  BY <1>7, <1>9, TookSrcSound
<1>11. QED
  BY <1>8, <1>10

LEMMA DrawSourcesSound ==
  ASSUME NEW a, Shape(a), NEW w, Sound(a, w), w.pc = "source", NEW d \in Draws
  PROVE  Sound(a, DrawSources(a, w, d))
<1>1. d.low % a.source \in Nat /\ d.low % a.source < a.source
  <2>1. PICK m : m = a.regs - 1
    OBVIOUS
  <2>2. m \in Nat /\ m >= 1 /\ a.regs \in Nat /\ a.regs >= 2 /\ a.source = a.regs * m
    BY <2>1 DEF Shape
  <2>3. a.source \in Nat /\ a.source > 0
    BY <2>2, Z3
  <2>4. d.low \in Nat
    BY DrawsAssumption DEF Draws
  <2>5. QED
    BY <2>3, <2>4
<1>2. PICK p, y : p = Sources(a, d.low % a.source) /\ y = DrawSources(a, w, d)
  OBVIOUS
<1>3. p \in Seq(Nat) /\ TwoRegisters(a, p)
  BY <1>1, <1>2, SourcesAreTwo
<1>4. y = [w EXCEPT !.pc = "math", !.from = p, !.last = NoStatement]
  BY <1>2 DEF DrawSources
<1>5. NoStatement \in Statements /\ NoStatement.kind = "none"
  BY DEF NoStatement, Statements
<1>6. w \in Writers(a)
  BY DEF Sound
<1>7. /\ y \in Writers(a) /\ y.pc = "math" /\ y.from = p /\ y.last.kind = "none" /\ y.dst = w.dst
      /\ y.src = w.src /\ y.merged = w.merged /\ y.read = w.read
      /\ y.dstCnt = w.dstCnt /\ y.srcCnt = w.srcCnt
  <2>1. PICK l : l = NoStatement
    OBVIOUS
  <2>2. l \in Statements /\ l.kind = "none" /\ y = [w EXCEPT !.pc = "math", !.from = p, !.last = l]
    BY <1>4, <1>5, <2>1
  <2>3. QED
    BY <1>3, <1>6, <2>2 DEF Writers
<1>8. QED
  BY <1>2, <1>3, <1>7 DEF Sound

LEMMA DrawMathSound ==
  ASSUME NEW a, Shape(a), NEW t, TextShape(t), NEW w, Sound(a, w), w.pc = "math", NEW d \in Draws
  PROVE  Sound(a, DrawMath(t, w, d))
<1>1. PICK op, y : op = t.math[(d.low % 11) + 1] /\ y = DrawMath(t, w, d)
  OBVIOUS
<1>2. op \in MathOps
  <2>1. (d.low % 11) + 1 \in 1..11
    BY DrawsAssumption DEF Draws
  <2>2. QED
    BY <1>1, <2>1 DEF TextShape
<1>3. y = [w EXCEPT !.pc = "merge", !.op = op]
  BY <1>1 DEF DrawMath
<1>4. w \in Writers(a)
  BY DEF Sound
<1>5. /\ y \in Writers(a) /\ y.pc = "merge" /\ y.from = w.from /\ y.last = w.last /\ y.dst = w.dst
      /\ y.src = w.src /\ y.merged = w.merged /\ y.read = w.read
      /\ y.dstCnt = w.dstCnt /\ y.srcCnt = w.srcCnt
  BY <1>2, <1>3, <1>4 DEF Writers
<1>6. QED
  BY <1>1, <1>5 DEF Sound

LEMMA WriteMathSound ==
  ASSUME NEW a, Shape(a), NEW t, TextShape(t), NEW w, Sound(a, w), w.pc = "merge", NEW d \in Draws
  PROVE  Sound(a, WriteMath(a, t, w, d))
<1>1. PICK to, x, s, due :
        /\ to = TakeDst(a, w) /\ x = TookDst(w, to)
        /\ s = [kind |-> "math", from |-> w.from, to |-> to, math |-> w.op,
                merge |-> Merge(t.merge, d)]
        /\ due = Iteration(a, w.i + 1)
  OBVIOUS
<1>2. Sound(a, x) /\ x.pc \notin {"dst", "src"} /\ to \in Registers(a)
  BY <1>1, TookDstSound
<1>3. w \in Writers(a) /\ TwoRegisters(a, w.from)
  BY DEF Sound
<1>4. s \in Statements /\ s.kind = "math" /\ TwoRegisters(a, s.from)
  <2>1. Merge(t.merge, d) \in [op : MergeOps \cup {"none"}, rotation : 0..31]
    BY MergeShape DEF TextShape
  <2>2. to \in Nat /\ w.from \in Seq(Nat) /\ w.op \in MathOps \cup {"none"}
    BY <1>2, <1>3 DEF Registers, Shape, Writers
  <2>3. QED
    BY <1>1, <1>3, <2>1, <2>2 DEF Statements, Kinds
<1>5. Fresh(due)
  BY <1>1, <1>3, IterationShape DEF Fresh, Writers
<1>6. WriteMath(a, t, w, d) = Write(x, s, due)
  BY <1>1 DEF WriteMath
<1>7. QED
  BY <1>2, <1>4, <1>5, <1>6, WriteSound DEF Kinds


LEMMA WriteEntrySound ==
  ASSUME NEW a, Shape(a), NEW w, Sound(a, w), w.pc = "entry", NEW d \in Draws
  PROVE  Sound(a, WriteEntry(a, Merges, w, d))
<1>1. PICK to, x, s, due :
        /\ to = (IF w.i = 0 THEN 0 ELSE TakeDst(a, w))
        /\ x = (IF w.i = 0 THEN w ELSE TookDst(w, to))
        /\ s = [kind |-> "entry", from |-> <<w.i>>, to |-> to, math |-> "none",
                merge |-> Merge(Merges, d)]
        /\ due = IF w.i + 1 < DagLoads THEN [pc |-> "entry", i |-> w.i + 1]
                                       ELSE [pc |-> "done", i |-> 0]
  OBVIOUS
<1>2. Sound(a, x) /\ x.pc \notin {"dst", "src"} /\ to \in Registers(a)
  <2>1. CASE w.i = 0
    BY <1>1, <2>1 DEF Registers, Shape
  <2>2. CASE w.i # 0
    BY <1>1, <2>2, TookDstSound
  <2>3. QED
    BY <2>1, <2>2
<1>3. w.i \in Nat
  BY DEF Sound, Writers
<1>4. s \in Statements /\ s.kind = "entry"
  <2>1. Merge(Merges, d) \in [op : MergeOps \cup {"none"}, rotation : 0..31]
    BY MergeShape
  <2>2. to \in Nat /\ <<w.i>> \in Seq(Nat)
    BY <1>2, <1>3 DEF Registers, Shape
  <2>3. QED
    BY <1>1, <2>1, <2>2 DEF Statements, Kinds
<1>5. Fresh(due)
  BY <1>1, <1>3 DEF Fresh
<1>6. WriteEntry(a, Merges, w, d) = Write(x, s, due)
  BY <1>1 DEF WriteEntry
<1>7. QED
  BY <1>2, <1>4, <1>5, <1>6, WriteSound DEF Kinds

-----------------------------------------------------------------------------
LEMMA TakeSound ==
  ASSUME algorithm \in Algorithms, NEW c \in Cards, NEW w, Sound(Args(c), w), NEW d \in Draws
  PROVE  Sound(Args(c), Take(c, w, d))
<1>1. PICK a, t : a = Args(c) /\ t = Text(c)
  OBVIOUS
<1>2. Shape(a) /\ TextShape(t) /\ Entries(c) = Merges /\ Sound(a, w)
  BY <1>1, ArgsShape, Texts DEF Shape
<1>3. PICK n, x : n = w.draws + 1 /\ x = [w EXCEPT !.draws = n]
  OBVIOUS
<1>4. w \in Writers(a) /\ n \in Nat
  BY <1>2, <1>3 DEF Sound, Writers
<1>5. /\ x \in Writers(a) /\ x.pc = w.pc /\ x.i = w.i /\ x.index = w.index /\ x.from = w.from
      /\ x.last = w.last /\ x.dst = w.dst /\ x.src = w.src /\ x.merged = w.merged
      /\ x.read = w.read /\ x.dstCnt = w.dstCnt /\ x.srcCnt = w.srcCnt
  BY <1>3, <1>4 DEF Writers
<1>6. Sound(a, x)
  BY <1>2, <1>5 DEF Sound
<1>7. w.pc \in {"dst", "src", "cache", "source", "math", "merge", "entry", "done"}
  BY <1>4 DEF Writers
<1>8. CASE w.pc = "dst"
  BY <1>1, <1>2, <1>3, <1>5, <1>6, <1>8, DrawDstSound DEF Take
<1>9. CASE w.pc = "src"
  BY <1>1, <1>2, <1>3, <1>5, <1>6, <1>9, DrawSrcSound DEF Take
<1>10. CASE w.pc = "cache"
  BY <1>1, <1>2, <1>3, <1>5, <1>6, <1>10, WriteCacheSound DEF Take
<1>11. CASE w.pc = "source"
  BY <1>1, <1>2, <1>3, <1>5, <1>6, <1>11, DrawSourcesSound DEF Take
<1>12. CASE w.pc = "math"
  BY <1>1, <1>2, <1>3, <1>5, <1>6, <1>12, DrawMathSound DEF Take
<1>13. CASE w.pc = "merge"
  BY <1>1, <1>2, <1>3, <1>5, <1>6, <1>13, WriteMathSound DEF Take
<1>14. CASE w.pc = "entry"
  BY <1>1, <1>2, <1>3, <1>5, <1>6, <1>14, WriteEntrySound DEF Take
<1>15. CASE w.pc = "done"
  BY <1>1, <1>2, <1>15 DEF Take
<1>16. QED
  BY <1>7, <1>8, <1>9, <1>10, <1>11, <1>12, <1>13, <1>14, <1>15

AllSound ==
  /\ algorithm \in Algorithms
  /\ DOMAIN writer = Cards
  /\ \A c \in Cards : Sound(Args(c), writer[c])

\* Every writer stays sound, whatever numbers are drawn.
THEOREM WritersSound == Spec => []AllSound
<1>1. Init => AllSound
  <2>1. SUFFICES ASSUME Init PROVE AllSound
    OBVIOUS
  <2>2. algorithm \in Algorithms /\ writer = [c \in Cards |-> Started(Args(c))]
    BY <2>1 DEF Init
  <2>3. \A c \in Cards : Shape(Args(c))
    BY <2>2, ArgsShape DEF Shape
  <2>4. QED
    BY <2>2, <2>3, StartedSound DEF AllSound
<1>2. AllSound /\ [Next]_vars => AllSound'
  <2>1. SUFFICES ASSUME AllSound, [Next]_vars PROVE AllSound'
    OBVIOUS
  <2>2. CASE Draw
    <3>1. PICK d \in Draws : writer' = [c \in Cards |-> Take(c, writer[c], d)]
      BY <2>2 DEF Draw
    <3>2. algorithm' = algorithm
      BY <2>2 DEF Draw
    <3>3. \A c \in Cards : Sound(Args(c), Take(c, writer[c], d))
      BY <2>1, TakeSound DEF AllSound
    <3>4. \A c \in Cards : Args(c)' = Args(c)
      BY <3>2 DEF Args, Nvidia, Amd, NvidiaProgPOW, NvidiaKawPOW, NvidiaMeowPOW, NvidiaFiroPOW,
        NvidiaEvrprogPOW, NvidiaQuai, AmdProgPOW, AmdKawPOW, AmdMeowPOW, AmdFiroPOW,
        AmdEvrprogPOW, AmdQuai, Given
    <3>5. QED
      BY <2>1, <3>1, <3>2, <3>3, <3>4 DEF AllSound
  <2>3. CASE UNCHANGED vars
    BY <2>1, <2>3 DEF AllSound, vars, Args
  <2>4. QED
    BY <2>1, <2>2, <2>3 DEF Next, Finished
<1>3. QED
  BY <1>1, <1>2, PTL DEF Spec

\* The types of a writer's record, for any counts and numbers of registers.
THEOREM TypeCorrect == Spec => []TypeOK
<1>1. AllSound => TypeOK
  BY DEF AllSound, TypeOK, Sound
<1>2. QED
  BY <1>1, WritersSound, PTL

\* Math has two different registers for sources.
THEOREM SourcesAlwaysDiffer == Spec => []SourcesDiffer
<1>1. AllSound => SourcesDiffer
  <2>1. SUFFICES ASSUME AllSound, NEW c \in Cards, writer[c].last.kind = "math"
                 PROVE  /\ writer[c].last.from[1] # writer[c].last.from[2]
                        /\ \A k \in 1..2 : writer[c].last.from[k] < Args(c).regs
    BY DEF SourcesDiffer
  <2>2. TwoRegisters(Args(c), writer[c].last.from) /\ Args(c).regs \in Nat
    BY <2>1, ArgsShape DEF AllSound, Sound
  <2>3. QED
    BY <2>2 DEF TwoRegisters, Registers
<1>2. QED
  BY <1>1, WritersSound, PTL

LEMMA Apart ==
  ASSUME NEW r \in Nat, r >= 2, NEW m \in Nat, NEW n \in Nat, m < n, n < m + r
  PROVE  m % r # n % r
<1>1. PICK p, q, u, v : p = m % r /\ q = n % r /\ u = m \div r /\ v = n \div r
  OBVIOUS
<1>2. p \in Nat /\ q \in Nat /\ u \in Nat /\ v \in Nat /\ m = r * u + p /\ n = r * v + q
  BY <1>1, DivisionShape
<1>3. SUFFICES ASSUME p = q PROVE FALSE
  BY <1>1
<1>4. r * u < r * v /\ r * v < r * u + r
  BY <1>2, <1>3, Z3
<1>5. u < v /\ v < u + 1
  BY <1>2, <1>4, Z3
<1>6. QED
  BY <1>2, <1>5

LEMMA FollowsSpread ==
  ASSUME NEW a, Shape(a), NEW f, Permutes(a, f), NEW s \in Seq(Registers(a)), Follows(a, s, f)
  PROVE  Spread(a.regs, s)
<1>1. SUFFICES ASSUME NEW m \in 1..Len(s), NEW n \in 1..Len(s), m < n, n < m + a.regs
               PROVE  s[m] # s[n]
  BY DEF Spread
<1>2. a.regs \in Nat /\ a.regs >= 2 /\ Len(s) \in Nat
  BY DEF Shape
<1>3. m - 1 \in Nat /\ n - 1 \in Nat /\ m - 1 < n - 1 /\ n - 1 < (m - 1) + a.regs
  BY <1>1, <1>2
<1>4. (m - 1) % a.regs # (n - 1) % a.regs
  BY <1>2, <1>3, Apart
<1>5. (m - 1) % a.regs \in Registers(a) /\ (n - 1) % a.regs \in Registers(a)
  <2>1. \A k \in Nat : k % a.regs \in Nat /\ k % a.regs < a.regs
    BY <1>2, DivisionShape
  <2>2. \A x : x \in Nat /\ x < a.regs => x \in Registers(a)
    BY <1>2 DEF Registers
  <2>3. QED
    BY <1>3, <2>1, <2>2, Zenon
<1>6. s[m] = f[(m - 1) % a.regs] /\ s[n] = f[(n - 1) % a.regs]
  BY DEF Follows
<1>7. QED
  BY <1>4, <1>5, <1>6 DEF Permutes

\* Merges and cached loads go round the registers in the order of a permutation.
THEOREM MergesAlwaysSpread == Spec => []MergesSpread
<1>1. AllSound => MergesSpread
  <2>1. SUFFICES ASSUME AllSound, NEW c \in Cards
                 PROVE  /\ Spread(Args(c).regs, writer[c].merged)
                        /\ Spread(Args(c).regs, writer[c].read)
    BY DEF MergesSpread
  <2>2. Shape(Args(c)) /\ Sound(Args(c), writer[c])
    BY <2>1, ArgsShape DEF AllSound, Shape
  <2>3. writer[c].merged \in Seq(Registers(Args(c))) /\ writer[c].read \in Seq(Registers(Args(c)))
    BY <2>2 DEF Sound, Writers
  <2>4. QED
    BY <2>2, <2>3, FollowsSpread DEF Sound
<1>2. QED
  BY <1>1, WritersSound, PTL

=============================================================================
