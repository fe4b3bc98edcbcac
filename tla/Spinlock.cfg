SPECIFICATION FairSpec
CONSTANTS
  Cpus = {c1, c2, c3}
  NoCpu = NoCpu
INVARIANTS
  NoPanic
PROPERTIES
  ImplementsMutex
  SomebodyGetsIn
