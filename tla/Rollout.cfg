SPECIFICATION FairSpec
CONSTANTS
  HOSTS <- MCHOSTS
  LateOps = {"launch", "stop", "renamePre", "stopNew", "renameFailed", "start", "renameBack", "renameBackStart"}
  MaxFaults = 2
INVARIANTS OriginalsOK NeverBoth
PROPERTIES SuccessIsUniform OthersUntouched RestoreSucceeds
