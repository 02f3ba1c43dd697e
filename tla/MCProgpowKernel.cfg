SPECIFICATION Spec
CONSTANTS
  Algorithms = {"progpow", "kawpow", "meowpow", "firopow", "evrprogpow", "quai"}
  Low = 12
  High = 2
  Regs = 3
  MeowRegs = 2
  BaseCache = 2
  BaseMath = 3
  Cache = 3
  Math = 2
  MeowCache = 1
  MeowMath = 2
  DagLoads = 2
INVARIANTS
  WritersAgree
  SourcesDiffer
 
