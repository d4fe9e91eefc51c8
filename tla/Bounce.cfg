SPECIFICATION FairSpec
CONSTANTS
  l1 = l1
  l2 = l2
  w1 = w1
  b1 = b1
  b2 = b2
  Job = {l1, l2, w1}
  Store = {w1}
  NumItems <- MCNumItems
  Slot = {b1, b2}
INVARIANTS ChunksOK
PROPERTIES ImplementsContract JobReported FlushEnds
