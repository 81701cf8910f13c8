\* No reorganisations: crash, restart, async snapshot writes, lost commands.
CONSTANTS
  k1 = k1
  k2 = k2
  va = va
  vb = vb
  NoFile = NoFile
  Keys <- MCKeys
  Priority <- MCPriority
  StartHeight <- MCStartHeight
  SavePeriod <- MCSavePeriod
  SaveStartHeight <- MCSaveStartHeight
  EffectivePeriod <- MCEffectivePeriod
  Versions = {va}
  FirstVersion = va
  NeedSaveCfg = TRUE
  EnableHistory = TRUE
  MaxFiles = 2
  MaxRollback = 0
  MaxHeight = 5
  MaxCrashes = 2
  MaxReorgs = 0
SPECIFICATION Spec
INVARIANT TypeOK
INVARIANT LiveStateMatchesChain
INVARIANT HistoryLookupSound
