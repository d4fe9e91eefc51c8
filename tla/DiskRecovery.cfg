SPECIFICATION Spec
CONSTANTS
  Rank = {r0, r1}
  Rank0 = r0
  Key = {k1}
  Slot = {s1}
  Config = {c1, c2}
  NoSlot = NoSlot
  NoConfig = NoConfig
  NoEpoch = NoEpoch
  Blank = Blank
  Torn = Torn
  NoWrite = NoWrite
  MaxResets = 1
  MaxCrashes = 2
  MaxSeq = 2
  LossAt = 1
  AfterLoss = 0
SYMMETRY Symmetry
CHECK_DEADLOCK FALSE
INVARIANTS NeverStale LostEpochIsWiped AckedSurvives EpochOK
