SPECIFICATION FairSpec
CONSTANTS
  NCPU = 2
  NUSER = 3
  NENV = 5
  MAXGEN = 1
  Ops = {"send", "recv"}

PROPERTY
  NoStarvation
CHECK_DEADLOCK FALSE
