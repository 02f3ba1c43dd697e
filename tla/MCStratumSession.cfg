SPECIFICATION FairSessionSpec
CONSTANTS
  Miners = {d1}
  Families = {"ethash", "progpow", "autolykos", "kheavyhash", "blake3", "progpow2", "ethproxy"}
  Jobs = {j1, j2}
  NoJob = NoJob
  Nonces = {n1, n2}
  NoNonce = NoNonce
  Targets = {t1, t2}
  NoTarget = NoTarget
INVARIANTS
  WorkIsWhole
PROPERTIES
  WorkFitsSession
