SPECIFICATION Spec
CONSTANTS
  t1 = t1
  t2 = t2
  d1 = d1
  s1 = s1
  s2 = s2
  u1 = u1
  Key <- MCKey
  Group = {0, 1}
  TargetGroup = 0
  GroupOf <- MCGroupOf
  Slot <- MCSlot
  SlotGroup <- MCSlotGroup
  NoSlot = NoSlot
  Rank = {r1, r2}
  Job = {j1, j2}
  Request <- MCRequest
  DrafterPerTarget = 1
  OverlapLoads = FALSE
  MaxResets = 0
INVARIANT NoSlotLost
