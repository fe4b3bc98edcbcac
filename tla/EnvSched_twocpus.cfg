SPECIFICATION Spec
CONSTANTS
  NCPU = 2
  NUSER = 1
  NENV = 5
  MAXGEN = 2
  Ops = {"exofork", "status", "send", "recv", "restatus"}
INVARIANT
  OneCpu
CHECK_DEADLOCK FALSE
