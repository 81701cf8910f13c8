\* Reorganisations of at most one block, with crashes and restarts.
CONSTANTS
  k1 = k1
  k2 = k2
  va = va
  vb = vb
  NoFile = NoFile
  Keys <- MCKeys
  Priority <- MCPriority
  StartHeight <- MCStartHeight
  SavePeriod <- MCSavePeriod
  SaveStartHeight <- MCSaveStartHeight
  EffectivePeriod <- MCEffectivePeriod
  Versions = {va, vb}
  FirstVersion = va
  NeedSaveCfg = TRUE
  EnableHistory = TRUE
  MaxFiles = 1
  MaxRollback = 1
  MaxHeight = 4
  MaxCrashes = 1
  MaxReorgs = 1
SPECIFICATION Spec
INVARIANT RollbackNeverFails
