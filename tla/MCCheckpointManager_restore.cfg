\* Start-up with checkpoints of which only some have a default snapshot.
CONSTANTS
  k1 = k1
  k2 = k2
  va = va
  vb = vb
  NoFile = NoFile
  Keys <- MCKeys
  Priority <- MCPriority
  StartHeight <- MCStartHeight
  SavePeriod <- MCSavePeriod
  SaveStartHeight <- MCSaveStartHeight
  EffectivePeriod <- MCEffectivePeriod
  Versions = {va}
  FirstVersion = va
  NeedSaveCfg = TRUE
  EnableHistory = TRUE
  MaxFiles = 2
  MaxRollback = 0
  MaxHeight = 6
  MaxCrashes = 1
  MaxReorgs = 0
SPECIFICATION Spec
PROPERTY RestoreReportsFailure
