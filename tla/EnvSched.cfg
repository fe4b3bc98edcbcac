SPECIFICATION FairSpec
CONSTANTS
  NCPU = 2
  NUSER = 1
  NENV = 4
  MAXGEN = 2
  Ops = {"exofork", "status", "destroy", "send", "recv", "fault"}
INVARIANTS
  OneCpu
  RunningIffCurrent
  UserAddressSpace
  FreeListExact
  ReceiverBlocked
  MonitorMeansDone
PROPERTIES
  EnvLife
  ZombieFreed
CHECK_DEADLOCK FALSE
