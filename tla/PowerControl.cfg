SPECIFICATION FairSpec
CONSTANT HOSTS = {h0, h1}
INVARIANTS GatesOK
PROPERTIES NeverUnderTraffic ReportsTrue DeadMan
