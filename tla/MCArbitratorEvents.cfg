\* Heights 0..2: the watchdog judges tips from RevertToPOWStartHeight 0, and
\* the block at ChangeViewV1Height 1 is checked with the V1 stop-confirm time
\* while the watchdog still uses the V0 no-block time on tip 0.
CONSTANTS
  me = me
  other = other
  Self = me
  Candidates <- MCCandidates
  ArbitersCount = 6
  RevertToPOWStartHeight = 0
  ChangeViewV1Height = 1
  StopConfirmBlockTime = 2
  RevertToPOWNoBlockTime = 3
  StopConfirmBlockTimeV1 = 1
  RevertToPOWNoBlockTimeV1 = 1
  MaxHeight = 2
  MaxTime = 4
  MaxRecovers = 1
SPECIFICATION Spec
INVARIANT TypeOK
PROPERTY NoConfirmOnDeadTip
\* The model ends when the clock and the chain reach their bounds after Stop.
CHECK_DEADLOCK FALSE
