--------------------------- MODULE ProgpowKernel ---------------------------
(***************************************************************************)
(* The source of sequence_dynamic(), the part of a ProgPOW kernel that     *)
(* changes with the period: a NVIDIA and an AMD resolver of one algorithm  *)
(* each write it, in CUDA (writeMathRandomKernelCuda) and in OpenCL        *)
(* (writeMathRandomKernelOpenCL), from the stream of numbers kiss99 draws  *)
(* for the period.  What they write is what the card computes, and a pool  *)
(* accepts a share only when every statement is the one of the algorithm.  *)
(*                                                                         *)
(* Both writers are followed over one stream, a draw at a time.  A draw    *)
(* counts only by its remainders: that of the number (low) and that of its *)
(* upper half (high).  A statement is its operator, registers and rotation *)
(* rather than its text.                                                   *)
(***************************************************************************)
EXTENDS Naturals, Sequences

CONSTANTS
  Algorithms,          \* algorithms of the ProgPOW family
  Low, High,           \* bounds: remainders of a draw and of its upper half
  Regs,                \* REGS
  MeowRegs,            \* REGS of MeowPOW
  BaseCache, BaseMath, \* COUNT_CACHE and COUNT_MATH of version 0.9.2
  Cache, Math,         \* those of KawPOW, FiroPOW, EvrprogPOW and Quai
  MeowCache, MeowMath, \* those of MeowPOW
  DagLoads             \* DAG_LOADS

Family == {"progpow", "kawpow", "meowpow", "firopow", "evrprogpow", "quai"}

ASSUME AlgorithmsAssumption == Algorithms \subseteq Family
ASSUME RegsAssumption == Regs \in Nat \ {0, 1} /\ MeowRegs \in Nat \ {0, 1}
ASSUME CountsAssumption ==
  /\ BaseCache \in Nat /\ BaseMath \in Nat /\ Cache \in Nat /\ Math \in Nat
  /\ MeowCache \in Nat /\ MeowMath \in Nat /\ DagLoads \in Nat
ASSUME DrawsAssumption == Low \in Nat \ {0} /\ High \in Nat \ {0}

VARIABLES
  algorithm,  \* what both cards mine
  writer      \* writer[c]: the writer of card c

vars == <<algorithm, writer>>

Cards == {"nvidia", "amd"}
Draws == [low : 0..(Low - 1), high : 0..(High - 1)]

-----------------------------------------------------------------------------
(***************************************************************************)
(* What the constructor of each resolver hands to its writer.              *)
(***************************************************************************)

Given(version, regs, cache, math) ==
  [version |-> version, regs |-> regs, source |-> regs * (regs - 1), cache |-> cache, math |-> math]

NvidiaProgPOW == Given("progpow", Regs, BaseCache, BaseMath)
NvidiaKawPOW == Given("kawpow", Regs, Cache, Math)
NvidiaMeowPOW == Given("meowpow", MeowRegs, MeowCache, MeowMath)
NvidiaFiroPOW == Given("firopow", Regs, Cache, Math)
NvidiaEvrprogPOW == Given("evrprogpow", Regs, Cache, Math)
NvidiaQuai == Given("quai", Regs, Cache, Math)

AmdProgPOW == Given("progpow", Regs, BaseCache, BaseMath)

AmdKawPOW == Given("kawpow", Regs, Cache, Math)

\* Mutant: the sources are drawn among the registers of the base class.
AmdMeowPOWKeepsSource ==
  [Given("meowpow", MeowRegs, MeowCache, MeowMath) EXCEPT !.source = Regs * (Regs - 1)]

AmdMeowPOW == Given("meowpow", MeowRegs, MeowCache, MeowMath)

AmdFiroPOW == Given("firopow", Regs, Cache, Math)
AmdEvrprogPOW == Given("evrprogpow", Regs, Cache, Math)
AmdQuai == Given("quai", Regs, Cache, Math)

Nvidia == [progpow |-> NvidiaProgPOW, kawpow |-> NvidiaKawPOW, meowpow |-> NvidiaMeowPOW,
           firopow |-> NvidiaFiroPOW, evrprogpow |-> NvidiaEvrprogPOW, quai |-> NvidiaQuai]
Amd == [progpow |-> AmdProgPOW, kawpow |-> AmdKawPOW, meowpow |-> AmdMeowPOW,
        firopow |-> AmdFiroPOW, evrprogpow |-> AmdEvrprogPOW, quai |-> AmdQuai]

\* The arguments of the writer of card c.
Args(c) == IF c = "nvidia" THEN Nvidia[algorithm] ELSE Amd[algorithm]

-----------------------------------------------------------------------------
(***************************************************************************)
(* The operators of writeSequenceMathMerge (math, then merge) and of       *)
(* writeSequenceMergeCache (cache), by the remainder that selects them.    *)
(* Version 0.9.2 and its descendants number the math differently.          *)
(***************************************************************************)
Merges == <<"mul33_add", "xor_mul33", "rol_xor", "ror_xor">>
BitsFirst == <<"clz", "popcount", "add", "mul", "mul_hi", "min", "rol", "ror", "and", "or", "xor">>
BitsLast == <<"add", "mul", "mul_hi", "min", "rol", "ror", "and", "or", "xor", "clz", "popcount">>

Cuda == [math |-> BitsFirst, merge |-> Merges, cache |-> Merges]
CudaKawPOW == [math |-> BitsLast, merge |-> Merges, cache |-> Merges]
CudaMeowPOW == [math |-> BitsLast, merge |-> Merges, cache |-> Merges]
CudaFiroPOW == [math |-> BitsLast, merge |-> Merges, cache |-> Merges]
CudaEvrprogPOW == [math |-> BitsLast, merge |-> Merges, cache |-> Merges]
CudaQuai == [math |-> BitsLast, merge |-> Merges, cache |-> Merges]

OpenCL == [math |-> BitsFirst, merge |-> Merges, cache |-> Merges]
OpenCLKawPOW == [math |-> BitsLast, merge |-> Merges, cache |-> Merges]
OpenCLMeowPOW == [math |-> BitsLast, merge |-> Merges, cache |-> Merges]
OpenCLEvrprogPOW == [math |-> BitsLast, merge |-> Merges, cache |-> Merges]
OpenCLQuai == [math |-> BitsLast, merge |-> Merges, cache |-> Merges]

\* Mutant: the OpenCL text keeps the numbering of version 0.9.2.
OpenCLFiroPOWKeepsOrder == [math |-> BitsFirst, merge |-> Merges, cache |-> Merges]

OpenCLFiroPOW == [math |-> BitsLast, merge |-> Merges, cache |-> Merges]

\* The switch of each writer over the version it is given.
CudaText == [progpow |-> Cuda, kawpow |-> CudaKawPOW, meowpow |-> CudaMeowPOW,
             firopow |-> CudaFiroPOW, evrprogpow |-> CudaEvrprogPOW, quai |-> CudaQuai]
OpenCLText == [progpow |-> OpenCL, kawpow |-> OpenCLKawPOW, meowpow |-> OpenCLMeowPOW,
               firopow |-> OpenCLFiroPOW, evrprogpow |-> OpenCLEvrprogPOW, quai |-> OpenCLQuai]

Text(c) == IF c = "nvidia" THEN CudaText[Args(c).version] ELSE OpenCLText[Args(c).version]

\* writeSequenceMergeEntries of each card; one for all versions.
CudaEntries == Merges
OpenCLEntries == Merges
Entries(c) == IF c = "nvidia" THEN CudaEntries ELSE OpenCLEntries

\* The merge a draw selects, with the rotation its upper half gives.
Merge(operators, d) ==
  LET op == operators[(d.low % 4) + 1]
  IN  [op |-> op, rotation |-> IF op \in {"rol_xor", "ror_xor"} THEN (d.high % 31) + 1 ELSE 0]

-----------------------------------------------------------------------------
(***************************************************************************)
(* The writer w of card c, given the next draw d.  Its record holds        *)
(*   pc, i          the statement that is due and the index of its loop    *)
(*   dst, src       the two orders of the registers                        *)
(*   dstCnt, srcCnt how far they were used                                 *)
(*   index, from, op  what earlier draws of the same statement chose       *)
(*   last           the statement just written                             *)
(*   merged, read   registers merged into and read by merges, in order     *)
(*   draws, count   draws taken; statements written of each kind           *)
(***************************************************************************)
NoStatement == [kind |-> "none", from |-> <<>>, to |-> 0, math |-> "none",
                merge |-> [op |-> "none", rotation |-> 0]]

\* What is due in iteration i of the loop over the larger of the two counts, or
\* after it.
Iteration(a, i) ==
  CASE i < a.cache -> [pc |-> "cache", i |-> i]
    [] i >= a.cache /\ i < a.math -> [pc |-> "source", i |-> i]
    [] OTHER -> [pc |-> IF DagLoads = 0 THEN "done" ELSE "entry", i |-> 0]

GoTo(w, due) == [w EXCEPT !.pc = due.pc, !.i = due.i]

\* common::swap
Swap(f, i, j) == [f EXCEPT ![i] = f[j], ![j] = f[i]]

\* initializeRound, from the last register down: one draw for each order.
DrawDst(w, d) == [w EXCEPT !.pc = "src", !.index = d.low % (w.i + 1)]
DrawSrc(a, w, d) ==
  LET x == [w EXCEPT !.dst = Swap(@, w.i, w.index), !.src = Swap(@, w.i, d.low % (w.i + 1)),
                     !.index = 0]
  IN  IF w.i > 1 THEN [x EXCEPT !.pc = "dst", !.i = @ - 1] ELSE GoTo(x, Iteration(a, 0))

\* The statement s is written, and what is due afterwards follows.
Write(w, s, due) ==
  [GoTo(w, due) EXCEPT !.last = s, !.from = <<0, 0>>, !.op = "none", !.count[s.kind] = @ + 1]

\* The register the next merge goes to is taken.
TakeDst(a, w) == w.dst[w.dstCnt % a.regs]
TookDst(w, to) == [w EXCEPT !.dstCnt = @ + 1, !.merged = Append(@, to)]

\* A cached load merged into a register; the math of the same iteration follows.
WriteCache(a, t, w, d) ==
  LET from == w.src[w.srcCnt % a.regs]
      to == TakeDst(a, w)
      s == [kind |-> "cache", from |-> <<from>>, to |-> to, math |-> "none",
            merge |-> Merge(t.cache, d)]
      due == IF w.i < a.math THEN [pc |-> "source", i |-> w.i] ELSE Iteration(a, w.i + 1)
  IN  [Write(TookDst(w, to), s, due) EXCEPT !.srcCnt = @ + 1, !.read = Append(@, from)]

\* Two different registers from one number below regs * (regs - 1).
Sources(a, n) ==
  LET first == n % a.regs
      second == n \div a.regs
  IN  <<first, IF second >= first THEN second + 1 ELSE second>>

\* A math operator: one draw for its sources, one for the operator and one for
\* the merge of its result.
DrawSources(a, w, d) ==
  [w EXCEPT !.pc = "math", !.from = Sources(a, d.low % a.source), !.last = NoStatement]
DrawMath(t, w, d) == [w EXCEPT !.pc = "merge", !.op = t.math[(d.low % 11) + 1]]
WriteMath(a, t, w, d) ==
  LET to == TakeDst(a, w)
      s == [kind |-> "math", from |-> w.from, to |-> to, math |-> w.op,
            merge |-> Merge(t.merge, d)]
  IN  Write(TookDst(w, to), s, Iteration(a, w.i + 1))

\* The words of the DAG item, the first one merged into register 0.
WriteEntry(a, e, w, d) ==
  LET to == IF w.i = 0 THEN 0 ELSE TakeDst(a, w)
      s == [kind |-> "entry", from |-> <<w.i>>, to |-> to, math |-> "none", merge |-> Merge(e, d)]
      due == IF w.i + 1 < DagLoads THEN [pc |-> "entry", i |-> w.i + 1] ELSE [pc |-> "done", i |-> 0]
  IN  Write(IF w.i = 0 THEN w ELSE TookDst(w, to), s, due)

\* The writer of card c takes draw d.
Take(c, w, d) ==
  LET a == Args(c)
      t == Text(c)
      x == [w EXCEPT !.draws = @ + 1]
  IN  CASE w.pc = "dst" -> DrawDst(x, d)
        [] w.pc = "src" -> DrawSrc(a, x, d)
        [] w.pc = "cache" -> WriteCache(a, t, x, d)
        [] w.pc = "source" -> DrawSources(a, x, d)
        [] w.pc = "math" -> DrawMath(t, x, d)
        [] w.pc = "merge" -> WriteMath(a, t, x, d)
        [] w.pc = "entry" -> WriteEntry(a, Entries(c), x, d)
        [] w.pc = "done" -> w

-----------------------------------------------------------------------------
Order(a) == [r \in 0..(a.regs - 1) |-> r]

Started(a) ==
  [pc |-> "dst", i |-> a.regs - 1, dst |-> Order(a), src |-> Order(a), dstCnt |-> 0, srcCnt |-> 0,
   index |-> 0, from |-> <<0, 0>>, op |-> "none", last |-> NoStatement, merged |-> <<>>, read |-> <<>>,
   draws |-> 0, count |-> [cache |-> 0, math |-> 0, entry |-> 0]]

Init ==
  /\ algorithm \in Algorithms
  /\ writer = [c \in Cards |-> Started(Args(c))]

Done == \A c \in Cards : writer[c].pc = "done"

\* kiss99: the next number of the stream, for both writers.
Draw ==
  /\ ~Done
  /\ \E d \in Draws : writer' = [c \in Cards |-> Take(c, writer[c], d)]
  /\ UNCHANGED algorithm

Finished == Done /\ UNCHANGED vars

Next == Draw \/ Finished

Spec == Init /\ [][Next]_vars

-----------------------------------------------------------------------------
(***************************************************************************)
(* Properties.                                                             *)
(***************************************************************************)

Registers(a) == 0..(a.regs - 1)
MergeOps == {"mul33_add", "xor_mul33", "rol_xor", "ror_xor"}
MathOps == {"clz", "popcount", "add", "mul", "mul_hi", "min", "rol", "ror", "and", "or", "xor"}
Kinds == {"cache", "math", "entry"}
Statements ==
  [kind : Kinds \cup {"none"}, from : Seq(Nat), to : Nat, math : MathOps \cup {"none"},
   merge : [op : MergeOps \cup {"none"}, rotation : 0..31]]
Writers(a) ==
  [pc : {"dst", "src", "cache", "source", "math", "merge", "entry", "done"}, i : Nat,
   dst : [Registers(a) -> Registers(a)], src : [Registers(a) -> Registers(a)],
   dstCnt : Nat, srcCnt : Nat, index : Nat, from : Seq(Nat), op : MathOps \cup {"none"},
   last : Statements, merged : Seq(Registers(a)), read : Seq(Registers(a)),
   draws : Nat, count : [Kinds -> Nat]]
TypeOK ==
  /\ algorithm \in Algorithms
  /\ \A c \in Cards : writer[c] \in Writers(Args(c))
  /\ DOMAIN writer = Cards

\* Both cards compute the same function: statement by statement the CUDA text and
\* the OpenCL text of a period have the operators, registers and rotations of the
\* same draws.
WritersAgree == writer["nvidia"] = writer["amd"]

\* Any two of regs merges in a row go to different registers: the permutation
\* spreads them, so that no value is overwritten before the others are merged
\* into, and so do the registers the cached loads are addressed by.
Spread(regs, s) ==
  \A m, n \in 1..Len(s) : m < n /\ n < m + regs => s[m] # s[n]
MergesSpread ==
  \A c \in Cards : Spread(Args(c).regs, writer[c].merged) /\ Spread(Args(c).regs, writer[c].read)

\* Math is never done on a register with itself (x ^ x, x & x would lose it), and
\* only on registers that exist.
SourcesDiffer ==
  \A c \in Cards :
    LET w == writer[c]
    IN  w.last.kind = "math" =>
          /\ w.last.from[1] # w.last.from[2]
          /\ \A k \in 1..2 : w.last.from[k] < Args(c).regs

\* The algorithm's COUNT_CACHE, COUNT_MATH and REGS.
Canonical ==
  CASE algorithm = "progpow" -> [cache |-> BaseCache, math |-> BaseMath, regs |-> Regs]
    [] algorithm = "meowpow" -> [cache |-> MeowCache, math |-> MeowMath, regs |-> MeowRegs]
    [] OTHER -> [cache |-> Cache, math |-> Math, regs |-> Regs]

\* A kernel that is complete has the number of loads and operators its algorithm
\* prescribes and took as many draws as they need, so that no statement uses the
\* number meant for another (the test of the writer pins the counts).
CountsAsPrescribed ==
  \A c \in Cards :
    LET w == writer[c]
    IN  w.pc = "done" =>
          /\ w.count = [cache |-> Canonical.cache, math |-> Canonical.math, entry |-> DagLoads]
          /\ w.draws = 2 * (Canonical.regs - 1) + Canonical.cache + 3 * Canonical.math + DagLoads
=============================================================================
