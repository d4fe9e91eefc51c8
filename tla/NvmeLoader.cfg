SPECIFICATION FairSpec
CONSTANTS
  Mode = {"auto", "prepare", "restore"}
  NumExtents = 3
  Depth = 2
  MaxFaults = 3
INVARIANTS LoadedIsWhole ArtifactOK
PROPERTIES RestoreKeepsContract AutoServes
